-------------------------- MODULE ApplyPatchProofs --------------------------
(***************************************************************************)
(* Proofs about ApplyPatch, for every set of line texts, every set of      *)
(* files and every number of lines: what the scanner makes has its types,  *)
(* and editing the characters of a file's text, hunk by hunk, does what    *)
(* editing its lines does.                                                 *)
(***************************************************************************)
EXTENDS ApplyPatch, SequenceFacts

-----------------------------------------------------------------------------
(* Lines of a hunk by their kind                                           *)

Picked(src, kinds) ==
    [i \in 1..Len(src) |-> IF src[i].kind \in kinds THEN <<src[i].text>> ELSE <<>>]

LEMMA PickedIsSeq ==
    ASSUME NEW src, IsSeq(src), NEW kinds
    PROVE  /\ SeqOfSeqs(Picked(src, kinds))
           /\ Len(Picked(src, kinds)) = Len(src)
           /\ Selected(src, kinds) = FlattenSeq(Picked(src, kinds))
           /\ IsSeq(Selected(src, kinds))
<1>. DEFINE p == Picked(src, kinds)
<1>1. IsSeq(p) /\ Len(p) = Len(src)
  BY SeqIsFunction, SeqOfFunction DEF Picked
<1>2. \A i \in 1..Len(src) : p[i] = IF src[i].kind \in kinds THEN <<src[i].text>> ELSE <<>>
  BY DEF Picked
<1>3. Selected(src, kinds) = FlattenSeq(p)
  BY DEF Selected, Picked
<1>. HIDE DEF p
<1>4. SeqOfSeqs(p)
  <2>1. ASSUME NEW i \in 1..Len(src) PROVE IsSeq(p[i])
    <3>1. CASE src[i].kind \in kinds
      <4>1. p[i] = <<src[i].text>>
        BY <1>2, <3>1
      <4>. QED
        BY <4>1, SeqOne
    <3>2. CASE src[i].kind \notin kinds
      <4>1. p[i] = <<>>
        BY <1>2, <3>2
      <4>. QED
        BY <4>1, SeqEmpty
    <3>. QED
      BY <3>1, <3>2
  <2>. QED
    BY <1>1, <2>1 DEF SeqOfSeqs
<1>. QED
  BY <1>1, <1>3, <1>4, FlattenIsSeq DEF p

\* A line more is selected by its kind.
LEMMA SelectedMore ==
    ASSUME NEW src, IsSeq(src), NEW l, NEW kinds
    PROVE  Selected(Append(src, l), kinds) =
             IF l.kind \in kinds THEN Append(Selected(src, kinds), l.text) ELSE Selected(src, kinds)
<1>. DEFINE more == Append(src, l)
            piece == IF l.kind \in kinds THEN <<l.text>> ELSE <<>>
            p == Picked(src, kinds)
            q == Picked(more, kinds)
            one == <<piece>>
<1>1. /\ Len(src) \in Nat /\ IsSeq(more) /\ Len(more) = Len(src) + 1
      /\ \A i \in 1..Len(src) : more[i] = src[i]
      /\ more[Len(src) + 1] = l
  <2>1. IsSeq(<<l>>) /\ Len(<<l>>) = 1 /\ <<l>>[1] = l
    BY SeqOne
  <2>2. more = Cat(src, <<l>>)
    BY SeqAppended
  <2>. HIDE DEF more
  <2>3. /\ IsSeq(more) /\ Len(more) = Len(src) + Len(<<l>>)
        /\ \A i \in 1..Len(src) + Len(<<l>>) :
              more[i] = IF i <= Len(src) THEN src[i] ELSE <<l>>[i - Len(src)]
    BY <2>1, <2>2, SeqConcat
  <2>4. Len(src) \in Nat
    BY SeqIsFunction
  <2>. QED
    BY <2>1, <2>3, <2>4
<1>2. \A i \in 1..Len(src) : p[i] = IF src[i].kind \in kinds THEN <<src[i].text>> ELSE <<>>
  BY DEF Picked
<1>3. \A i \in 1..Len(more) : q[i] = IF more[i].kind \in kinds THEN <<more[i].text>> ELSE <<>>
  BY DEF Picked
<1>4. /\ SeqOfSeqs(p) /\ Len(p) = Len(src) /\ Selected(src, kinds) = FlattenSeq(p)
      /\ IsSeq(Selected(src, kinds))
  BY PickedIsSeq
<1>5. SeqOfSeqs(q) /\ Len(q) = Len(more) /\ Selected(more, kinds) = FlattenSeq(q)
  <2>. HIDE DEF more
  <2>. QED
    BY <1>1, PickedIsSeq
<1>6. IsSeq(piece) /\ IsSeq(one) /\ Len(one) = 1 /\ one[1] = piece
  BY SeqOne, SeqEmpty
<1>. HIDE DEF p, q, more, one, piece
<1>7. q = Cat(p, one)
  <2>1. ASSUME NEW i \in 1..Len(p) PROVE q[i] = p[i]
    <3>1. i \in 1..Len(src) /\ i \in 1..Len(more) /\ more[i] = src[i]
      BY <1>1, <1>4
    <3>. QED
      BY <1>2, <1>3, <3>1
  <2>2. q[Len(p) + 1] = one[1]
    BY <1>1, <1>3, <1>4, <1>6 DEF piece
  <2>3. \A i \in 1..Len(one) : q[Len(p) + i] = one[i]
    BY <1>6, <2>2
  <2>4. Len(q) = Len(p) + Len(one)
    BY <1>1, <1>4, <1>5, <1>6
  <2>. QED
    BY <1>4, <1>5, <1>6, <2>1, <2>3, <2>4, SeqJoined DEF SeqOfSeqs
<1>8. Selected(more, kinds) = Cat(Selected(src, kinds), piece)
  BY <1>4, <1>5, <1>6, <1>7, FlattenMore DEF one
<1>9. CASE l.kind \in kinds
  BY <1>4, <1>8, <1>9, SeqAppended DEF more, piece
<1>10. CASE l.kind \notin kinds
  BY <1>4, <1>8, <1>10, SeqUnit DEF more, piece
<1>. QED
  BY <1>9, <1>10

-----------------------------------------------------------------------------
(* What the scanner makes                                                  *)

Hunk == [before : Seq(Texts), removed : Seq(Texts), added : Seq(Texts), after : Seq(Texts),
         src : Seq(Line)]

Change(h, i) == h.src[i].kind # "space"

\* The four lists of a hunk against its lines in the envelope's order: context comes
\* before the first change or after it, and when the changes are consecutive the
\* lists, put together, are the lines.
Sorted(h) ==
    /\ (h.removed # <<>> \/ h.added # <<>>) => \E i \in 1..Len(h.src) : Change(h, i)
    /\ h.removed = <<>> /\ h.added = <<>> => h.after = <<>>
    /\ h.after # <<>> => \E i, j \in 1..Len(h.src) : i < j /\ Change(h, i) /\ ~Change(h, j)
    /\ OneGroup(h) => OldLines(h) = Before(h) /\ NewLines(h) = After(h)

SortedHunk == {h \in Hunk : Sorted(h)}

Operation ==
    {o \in [kind : Headers, body : Seq(Texts), hunks : Seq(SortedHunk)] :
        /\ o.kind # "update" => o.hunks = <<>>
        /\ o.kind # "add" => o.body = <<>>}

\* Old and new lines of a hunk under names that the provers leave alone.
LEMMA BlocksOfHunk ==
    ASSUME NEW h \in Hunk
    PROVE  /\ IsSeq(h.before) /\ IsSeq(h.removed) /\ IsSeq(h.added) /\ IsSeq(h.after)
           /\ IsSeq(h.src) /\ Len(h.src) \in Nat
           /\ OldLines(h) = Cat(Cat(h.before, h.removed), h.after)
           /\ NewLines(h) = Cat(Cat(h.before, h.added), h.after)
<1>1. /\ h.before \in Seq(Texts) /\ h.removed \in Seq(Texts) /\ h.added \in Seq(Texts)
      /\ h.after \in Seq(Texts) /\ h.src \in Seq(Line)
  BY DEF Hunk
<1>2. /\ IsSeq(h.before) /\ IsSeq(h.removed) /\ IsSeq(h.added) /\ IsSeq(h.after)
      /\ IsSeq(h.src) /\ Len(h.src) \in Nat
  BY <1>1, SeqOfSet
<1>. QED
  BY <1>2, Zenon DEF OldLines, NewLines, Cat

\* What a line does to the fields of a hunk.
LEMMA HunkLineFields ==
    ASSUME NEW h \in Hunk, NEW l \in Line, l.kind \in HunkKinds
    PROVE  LET g == HunkLine(h, l)
               changed == h.removed # <<>> \/ h.added # <<>>
           IN /\ g \in Hunk
              /\ g.src = Append(h.src, l)
              /\ g.added = IF l.kind = "plus" THEN Append(h.added, l.text) ELSE h.added
              /\ g.removed = IF l.kind = "minus" THEN Append(h.removed, l.text) ELSE h.removed
              /\ g.before = IF l.kind = "space" /\ ~changed THEN Append(h.before, l.text) ELSE h.before
              /\ g.after = IF l.kind = "space" /\ changed THEN Append(h.after, l.text) ELSE h.after
<1>. DEFINE src == Append(h.src, l)
            f == [h EXCEPT !.src = src]
            changed == h.removed # <<>> \/ h.added # <<>>
<1>0. l.text \in Texts /\ l.kind \in {"plus", "minus", "space"}
  BY PatchAssumption DEF Line, HunkKinds
<1>1. /\ h.before \in Seq(Texts) /\ h.removed \in Seq(Texts) /\ h.added \in Seq(Texts)
      /\ h.after \in Seq(Texts) /\ src \in Seq(Line)
      /\ h = [before |-> h.before, removed |-> h.removed, added |-> h.added, after |-> h.after,
              src |-> h.src]
  BY DEF Hunk
<1>2. \A s \in Seq(Texts) : Append(s, l.text) \in Seq(Texts)
  BY <1>0
<1>. HIDE DEF src
<1>3. f = [before |-> h.before, removed |-> h.removed, added |-> h.added, after |-> h.after,
           src |-> src]
  <2>1. h \in [before : Seq(Texts), removed : Seq(Texts), added : Seq(Texts), after : Seq(Texts),
               src : Seq(Line)]
    BY DEF Hunk
  <2>2. \E b, r, a, t, c : h = [before |-> b, removed |-> r, added |-> a, after |-> t, src |-> c]
    BY <1>1
  <2>. QED
    BY <2>2
<1>4. CASE l.kind = "plus"
  <2>1. HunkLine(h, l) = [before |-> h.before, removed |-> h.removed,
                          added |-> Append(h.added, l.text), after |-> h.after, src |-> src]
    BY <1>3, <1>4 DEF HunkLine, src
  <2>. QED
    BY <1>1, <1>2, <1>4, <2>1 DEF Hunk, src
<1>5. CASE l.kind = "minus"
  <2>1. HunkLine(h, l) = [before |-> h.before, removed |-> Append(h.removed, l.text),
                          added |-> h.added, after |-> h.after, src |-> src]
    BY <1>3, <1>5 DEF HunkLine, src
  <2>. QED
    BY <1>1, <1>2, <1>5, <2>1 DEF Hunk, src
<1>6. CASE l.kind = "space" /\ changed
  <2>1. HunkLine(h, l) = [before |-> h.before, removed |-> h.removed,
                          added |-> h.added, after |-> Append(h.after, l.text), src |-> src]
    BY <1>3, <1>6 DEF HunkLine, ContextLine, src
  <2>. QED
    BY <1>1, <1>2, <1>6, <2>1 DEF Hunk, src
<1>7. CASE l.kind = "space" /\ ~changed
  <2>1. HunkLine(h, l) = [before |-> Append(h.before, l.text), removed |-> h.removed,
                          added |-> h.added, after |-> h.after, src |-> src]
    BY <1>3, <1>7 DEF HunkLine, ContextLine, src
  <2>. QED
    BY <1>1, <1>2, <1>7, <2>1 DEF Hunk, src
<1>. QED
  BY <1>0, <1>4, <1>5, <1>6, <1>7

LEMMA NewHunkSorted == NewHunk \in SortedHunk
<1>1. NewHunk \in Hunk
  BY DEF NewHunk, Hunk
<1>2. /\ NewHunk.before = <<>> /\ NewHunk.removed = <<>> /\ NewHunk.added = <<>>
      /\ NewHunk.after = <<>> /\ NewHunk.src = <<>>
  BY DEF NewHunk
<1>3. \A kinds : Selected(NewHunk.src, kinds) = <<>>
  <2>1. TAKE kinds
  <2>2. IsSeq(NewHunk.src) /\ Len(NewHunk.src) = 0
    BY <1>2, SeqEmpty
  <2>. DEFINE p == Picked(NewHunk.src, kinds)
  <2>3. SeqOfSeqs(p) /\ Len(p) = 0 /\ Selected(NewHunk.src, kinds) = FlattenSeq(p)
    BY <2>2, PickedIsSeq
  <2>. HIDE DEF p
  <2>4. FlattenSeq(p) = <<>>
    BY <2>3, FlattenSteps
  <2>. QED
    BY <2>3, <2>4
<1>4. OldLines(NewHunk) = <<>> /\ NewLines(NewHunk) = <<>>
  BY <1>1, <1>2, BlocksOfHunk, SeqEmpty, SeqUnit
<1>5. Before(NewHunk) = <<>> /\ After(NewHunk) = <<>>
  BY <1>3 DEF Before, After
<1>6. Sorted(NewHunk)
  BY <1>2, <1>4, <1>5 DEF Sorted
<1>. QED
  BY <1>1, <1>6 DEF SortedHunk

\* The lines that a hunk looks for and puts there, with a line more.
LEMMA BlocksMore ==
    ASSUME NEW h \in Hunk, NEW l \in Line, l.kind \in HunkKinds
    PROVE  /\ Before(HunkLine(h, l)) =
                IF l.kind = "plus" THEN Before(h) ELSE Append(Before(h), l.text)
           /\ After(HunkLine(h, l)) =
                IF l.kind = "minus" THEN After(h) ELSE Append(After(h), l.text)
<1>1. HunkLine(h, l).src = Append(h.src, l) /\ IsSeq(h.src)
  BY HunkLineFields, BlocksOfHunk
<1>2. l.kind \in {"plus", "minus", "space"}
  BY DEF HunkKinds
<1>3. /\ Before(HunkLine(h, l)) = Selected(Append(h.src, l), {"minus", "space"})
      /\ After(HunkLine(h, l)) = Selected(Append(h.src, l), {"plus", "space"})
  BY <1>1 DEF Before, After
<1>4. /\ Before(HunkLine(h, l)) = IF l.kind \in {"minus", "space"}
                                  THEN Append(Before(h), l.text) ELSE Before(h)
      /\ After(HunkLine(h, l)) = IF l.kind \in {"plus", "space"}
                                 THEN Append(After(h), l.text) ELSE After(h)
  BY <1>1, <1>3, SelectedMore DEF Before, After
<1>. QED
  BY <1>2, <1>4

\* Appending to the last of three sequences, to the second when the third is empty,
\* or to the first when both are.
LEMMA AppendToBlocks ==
    ASSUME NEW a, NEW b, NEW c, IsSeq(a), IsSeq(b), IsSeq(c), NEW x
    PROVE  /\ Cat(Cat(a, b), Append(c, x)) = Append(Cat(Cat(a, b), c), x)
           /\ c = <<>> => Cat(Cat(a, Append(b, x)), c) = Append(Cat(Cat(a, b), c), x)
           /\ b = <<>> /\ c = <<>> => Cat(Cat(Append(a, x), b), c) = Append(Cat(Cat(a, b), c), x)
<1>. DEFINE one == <<x>>
            ab == Cat(a, b)
            abc == Cat(ab, c)
<1>1. IsSeq(one)
  BY SeqOne
<1>2. IsSeq(ab) /\ IsSeq(abc)
  BY SeqConcat
<1>3. \A s : IsSeq(s) => Append(s, x) = Cat(s, one) /\ IsSeq(Cat(s, one))
  BY <1>1, SeqAppended, SeqConcat
<1>. HIDE DEF one
<1>4. Cat(ab, Cat(c, one)) = Cat(abc, one)
  <2>. HIDE DEF ab
  <2>. QED
    BY <1>1, <1>2, SeqAssociative DEF abc
<1>5. Cat(Cat(a, Cat(b, one)), <<>>) = Cat(Cat(a, b), one)
  <2>1. Cat(a, Cat(b, one)) = Cat(ab, one)
    BY <1>1, SeqAssociative
  <2>2. Cat(Cat(a, Cat(b, one)), <<>>) = Cat(a, Cat(b, one))
    BY <1>3, <2>1, <1>2, SeqUnit
  <2>. QED
    BY <2>1, <2>2
<1>6. c = <<>> => abc = ab
  BY <1>2, SeqUnit
<1>7. b = <<>> => ab = a
  BY SeqUnit
<1>8. Cat(Cat(Cat(a, one), <<>>), <<>>) = Cat(a, one)
  BY <1>1, <1>3, SeqUnit, SeqConcat
<1>. QED
  BY <1>2, <1>3, <1>4, <1>5, <1>6, <1>7, <1>8

LEMMA HunkLineSorted ==
    ASSUME NEW h \in SortedHunk, NEW l \in Line, l.kind \in HunkKinds
    PROVE  HunkLine(h, l) \in SortedHunk
<1>. DEFINE g == HunkLine(h, l)
            n == Len(h.src)
            x == l.text
<1>1. h \in Hunk /\ Sorted(h)
  BY DEF SortedHunk
<1>2. /\ g \in Hunk
      /\ g.src = Append(h.src, l)
      /\ l.kind = "plus" =>
           /\ g.added = Append(h.added, x) /\ g.removed = h.removed
           /\ g.before = h.before /\ g.after = h.after
      /\ l.kind = "minus" =>
           /\ g.added = h.added /\ g.removed = Append(h.removed, x)
           /\ g.before = h.before /\ g.after = h.after
      /\ l.kind = "space" =>
           /\ g.added = h.added /\ g.removed = h.removed
           /\ IF h.removed # <<>> \/ h.added # <<>>
              THEN g.before = h.before /\ g.after = Append(h.after, x)
              ELSE g.before = Append(h.before, x) /\ g.after = h.after
  <2>1. "plus" # "minus" /\ "plus" # "space" /\ "minus" # "space"
    OBVIOUS
  <2>2. h \in Hunk
    BY <1>1
  <2>. QED
    BY <2>1, <2>2, HunkLineFields
<1>3. l.kind \in {"plus", "minus", "space"}
  BY DEF HunkKinds
<1>4. /\ IsSeq(h.before) /\ IsSeq(h.removed) /\ IsSeq(h.added) /\ IsSeq(h.after)
      /\ IsSeq(h.src) /\ n \in Nat
      /\ OldLines(h) = Cat(Cat(h.before, h.removed), h.after)
      /\ NewLines(h) = Cat(Cat(h.before, h.added), h.after)
  BY <1>1, BlocksOfHunk
<1>5. /\ OldLines(g) = Cat(Cat(g.before, g.removed), g.after)
      /\ NewLines(g) = Cat(Cat(g.before, g.added), g.after)
  <2>. HIDE DEF g
  <2>. QED
    BY <1>2, BlocksOfHunk
<1>6. /\ Before(g) = IF l.kind = "plus" THEN Before(h) ELSE Append(Before(h), x)
      /\ After(g) = IF l.kind = "minus" THEN After(h) ELSE Append(After(h), x)
  BY <1>1, BlocksMore
<1>7. Append(h.added, x) # <<>> /\ Append(h.removed, x) # <<>>
  BY <1>4, SeqAppend
<1>. HIDE DEF g, x
<1>. SUFFICES Sorted(g)
  BY <1>2 DEF SortedHunk, g
<1>8. /\ Len(g.src) = n + 1
      /\ \A i \in 1..n : g.src[i] = h.src[i] /\ (Change(g, i) <=> Change(h, i))
      /\ g.src[n + 1] = l /\ (Change(g, n + 1) <=> l.kind # "space")
  <2>1. h.src \in Seq(Line)
    BY <1>1 DEF Hunk
  <2>2. /\ Len(g.src) = n + 1
        /\ \A i \in 1..n : g.src[i] = h.src[i]
        /\ g.src[n + 1] = l
    BY <1>2, <2>1
  <2>. QED
    BY <2>2 DEF Change
<1>. HIDE DEF n
\* A change of h is a change of g, and consecutive changes of g are consecutive in h.
<1>9. (\E i \in 1..n : Change(h, i)) => \E i \in 1..Len(g.src) : Change(g, i)
  BY <1>4, <1>8
<1>10. l.kind # "space" => \E i \in 1..Len(g.src) : Change(g, i)
  BY <1>4, <1>8
<1>11. (\E i, j \in 1..n : i < j /\ Change(h, i) /\ ~Change(h, j))
         => \E i, j \in 1..Len(g.src) : i < j /\ Change(g, i) /\ ~Change(g, j)
  BY <1>4, <1>8
<1>12. OneGroup(g) => OneGroup(h)
  <2>. SUFFICES ASSUME OneGroup(g), NEW i \in 1..n, NEW j \in 1..n, NEW k \in 1..n,
                       i < j, j < k, h.src[i].kind # "space", h.src[k].kind # "space"
                PROVE  h.src[j].kind # "space"
    BY DEF OneGroup, n
  <2>1. i \in 1..Len(g.src) /\ j \in 1..Len(g.src) /\ k \in 1..Len(g.src)
    BY <1>4, <1>8
  <2>2. g.src[i].kind # "space" /\ g.src[k].kind # "space"
    BY <1>8
  <2>3. g.src[j].kind # "space"
    BY <2>1, <2>2 DEF OneGroup
  <2>. QED
    BY <2>3, <1>8
\* A change after the context that follows a change is a second group.
<1>13. OneGroup(g) /\ l.kind # "space" => h.after = <<>>
  <2>. SUFFICES ASSUME OneGroup(g), l.kind # "space", h.after # <<>> PROVE FALSE
    OBVIOUS
  <2>1. PICK i \in 1..n, j \in 1..n : i < j /\ Change(h, i) /\ ~Change(h, j)
    BY <1>1 DEF Sorted, n
  <2>2. i \in 1..Len(g.src) /\ j \in 1..Len(g.src) /\ n + 1 \in 1..Len(g.src) /\ j < n + 1
    BY <1>4, <1>8
  <2>3. Change(g, i) /\ ~Change(g, j) /\ Change(g, n + 1)
    BY <1>8, <2>1
  <2>. QED
    BY <2>1, <2>2, <2>3 DEF OneGroup, Change
<1>14. OneGroup(h) => OldLines(h) = Before(h) /\ NewLines(h) = After(h)
  BY <1>1 DEF Sorted
<1>15. /\ (h.removed # <<>> \/ h.added # <<>>) => \E i \in 1..n : Change(h, i)
       /\ h.removed = <<>> /\ h.added = <<>> => h.after = <<>>
       /\ h.after # <<>> => \E i, j \in 1..n : i < j /\ Change(h, i) /\ ~Change(h, j)
  BY <1>1 DEF Sorted, n
<1>16. CASE l.kind = "plus"
  <2>1. OneGroup(g) => OldLines(g) = Before(g) /\ NewLines(g) = After(g)
    <3>. SUFFICES ASSUME OneGroup(g) PROVE OldLines(g) = Before(g) /\ NewLines(g) = After(g)
      OBVIOUS
    <3>1. h.after = <<>> /\ OldLines(h) = Before(h) /\ NewLines(h) = After(h)
      BY <1>12, <1>13, <1>14, <1>16
    <3>2. Cat(Cat(h.before, Append(h.added, x)), h.after)
            = Append(Cat(Cat(h.before, h.added), h.after), x)
      BY <1>4, <3>1, AppendToBlocks
    <3>. QED
      BY <1>2, <1>4, <1>5, <1>6, <1>16, <3>1, <3>2
  <2>. QED
    BY <1>2, <1>7, <1>10, <1>11, <1>15, <1>16, <2>1 DEF Sorted
<1>17. CASE l.kind = "minus"
  <2>1. OneGroup(g) => OldLines(g) = Before(g) /\ NewLines(g) = After(g)
    <3>. SUFFICES ASSUME OneGroup(g) PROVE OldLines(g) = Before(g) /\ NewLines(g) = After(g)
      OBVIOUS
    <3>1. h.after = <<>> /\ OldLines(h) = Before(h) /\ NewLines(h) = After(h)
      BY <1>12, <1>13, <1>14, <1>17
    <3>2. Cat(Cat(h.before, Append(h.removed, x)), h.after)
            = Append(Cat(Cat(h.before, h.removed), h.after), x)
      BY <1>4, <3>1, AppendToBlocks
    <3>. QED
      BY <1>2, <1>4, <1>5, <1>6, <1>17, <3>1, <3>2
  <2>. QED
    BY <1>2, <1>7, <1>10, <1>11, <1>15, <1>17, <2>1 DEF Sorted
<1>18. CASE l.kind = "space" /\ (h.removed # <<>> \/ h.added # <<>>)
  <2>1. OneGroup(g) => OldLines(g) = Before(g) /\ NewLines(g) = After(g)
    <3>1. /\ Cat(Cat(h.before, h.removed), Append(h.after, x))
               = Append(Cat(Cat(h.before, h.removed), h.after), x)
          /\ Cat(Cat(h.before, h.added), Append(h.after, x))
               = Append(Cat(Cat(h.before, h.added), h.after), x)
      BY <1>4, AppendToBlocks
    <3>. QED
      BY <1>2, <1>4, <1>5, <1>6, <1>12, <1>14, <1>18, <3>1
  <2>2. \E i, j \in 1..Len(g.src) : i < j /\ Change(g, i) /\ ~Change(g, j)
    <3>1. PICK i \in 1..n : Change(h, i)
      BY <1>15, <1>18
    <3>2. i \in 1..Len(g.src) /\ n + 1 \in 1..Len(g.src) /\ i < n + 1
      BY <1>4, <1>8
    <3>3. Change(g, i) /\ ~Change(g, n + 1)
      BY <1>8, <1>18, <3>1
    <3>. QED
      BY <3>2, <3>3
  <2>. QED
    BY <1>2, <1>9, <1>15, <1>18, <2>1, <2>2 DEF Sorted
<1>19. CASE l.kind = "space" /\ h.removed = <<>> /\ h.added = <<>>
  <2>1. h.after = <<>>
    BY <1>15, <1>19
  <2>2. OneGroup(g) => OldLines(g) = Before(g) /\ NewLines(g) = After(g)
    <3>1. /\ Cat(Cat(Append(h.before, x), h.removed), h.after)
               = Append(Cat(Cat(h.before, h.removed), h.after), x)
          /\ Cat(Cat(Append(h.before, x), h.added), h.after)
               = Append(Cat(Cat(h.before, h.added), h.after), x)
      BY <1>4, <1>19, <2>1, AppendToBlocks
    <3>. QED
      BY <1>2, <1>4, <1>5, <1>6, <1>12, <1>14, <1>19, <3>1
  <2>. QED
    BY <1>2, <1>19, <2>1, <2>2 DEF Sorted
<1>. QED
  BY <1>3, <1>16, <1>17, <1>18, <1>19

-----------------------------------------------------------------------------
(* Types                                                                   *)

OpsOK ==
    /\ phase \in {"envelope", "parsing", "parsed", "applying", "applied"} \cup Errors
    /\ section \in {"none", "add", "update"}
    /\ ops \in Seq(Operation)
    /\ section # "none" => Len(ops) > 0 /\ ops[Len(ops)].kind = section
    /\ lines \in 0..MaxLines
    /\ todo \in Seq(SortedHunk)

LEMMA OpsOKTypes ==
    ASSUME OpsOK
    PROVE  TypeOK
<1>1. \A i \in 1..Len(ops) : ops[i] \in Operation
  BY DEF OpsOK
<1>2. \A o \in Operation : /\ o.kind \in Headers
                           /\ o.kind # "update" => o.hunks = <<>>
                           /\ o.kind # "add" => o.body = <<>>
  BY DEF Operation
<1>3. section # "none" => Last(ops).kind = section
  BY DEF OpsOK, Last
<1>. QED
  BY <1>1, <1>2, <1>3 DEF OpsOK, TypeOK

\* An update with a line more in its last hunk, or with a hunk more.
LEMMA HunksMore ==
    ASSUME NEW hunks \in Seq(SortedHunk), NEW l \in Line, l.kind \in HunkKinds \cup {"at"}
    PROVE  LET known == IF l.kind = "at" \/ hunks = <<>> THEN Append(hunks, NewHunk) ELSE hunks
           IN (IF l.kind = "at" THEN known ELSE [known EXCEPT ![Len(known)] = HunkLine(@, l)])
                \in Seq(SortedHunk)
<1>. DEFINE known == IF l.kind = "at" \/ hunks = <<>> THEN Append(hunks, NewHunk) ELSE hunks
            n == Len(known)
<1>1. known \in Seq(SortedHunk)
  BY NewHunkSorted
<1>2. CASE l.kind = "at"
  BY <1>1, <1>2
<1>3. CASE l.kind # "at"
  <2>1. known # <<>>
    BY <1>3
  <2>. HIDE DEF known
  <2>2. n \in 1..n /\ known[n] \in SortedHunk
    BY <1>1, <2>1
  <2>3. l.kind \in HunkKinds
    BY <1>3
  <2>4. HunkLine(known[n], l) \in SortedHunk
    BY <2>2, <2>3, HunkLineSorted
  <2>5. [known EXCEPT ![n] = HunkLine(@, l)] \in Seq(SortedHunk)
    BY <1>1, <2>2, <2>4
  <2>. QED
    BY <1>3, <2>5 DEF known
<1>. QED
  BY <1>2, <1>3

LEMMA OpsOKHeader ==
    ASSUME OpsOK, NEW l \in Line, Header(l)
    PROVE  /\ ops' \in Seq(Operation)
           /\ section' \in {"none", "add", "update"}
           /\ section' # "none" => Len(ops') > 0 /\ ops'[Len(ops')].kind = section'
<1>. DEFINE o == [kind |-> l.kind, body |-> <<>>, hunks |-> <<>>]
<1>1. o \in Operation /\ o.kind = l.kind
  BY DEF Header, Operation
<1>2. ops' = Append(ops, o) /\ ops \in Seq(Operation)
  BY DEF Header, OpsOK
<1>. HIDE DEF o
<1>3. ops' \in Seq(Operation) /\ Len(ops') > 0 /\ ops'[Len(ops')] = o
  BY <1>1, <1>2
<1>4. section' \in {"none", "add", "update"} /\ section' \in {"none", l.kind}
  BY DEF Header, SectionOf, Headers
<1>. QED
  BY <1>1, <1>3, <1>4

LEMMA OpsOKBody ==
    ASSUME OpsOK, NEW l \in Line, Body(l)
    PROVE  /\ ops' \in Seq(Operation)
           /\ section' = section
           /\ section' # "none" => Len(ops') > 0 /\ ops'[Len(ops')].kind = section'
<1>. DEFINE n == Len(ops)
            o == ops[n]
            known == IF l.kind = "at" \/ o.hunks = <<>> THEN Append(o.hunks, NewHunk) ELSE o.hunks
            hunks == IF l.kind = "at" THEN known ELSE [known EXCEPT ![Len(known)] = HunkLine(@, l)]
<1>1. /\ ops \in Seq(Operation) /\ section \in {"none", "add", "update"}
      /\ section # "none" => n > 0 /\ o.kind = section
  BY DEF OpsOK
<1>2. section' = section /\ Allowed(l) /\ l.kind \notin Headers
  BY DEF Body
<1>3. CASE section = "none"
  <2>1. ops' = ops
    BY <1>3 DEF Body
  <2>. QED
    BY <1>1, <1>2, <1>3, <2>1
<1>4. CASE section = "add"
  <2>1. n \in 1..n /\ o \in Operation /\ o.kind = "add" /\ l.text \in Texts
    BY <1>1, <1>4, PatchAssumption DEF Line
  <2>2. ops' = [ops EXCEPT ![n].body = Append(@, l.text)]
    BY <1>4 DEF Body
  <2>3. [o EXCEPT !.body = Append(@, l.text)] \in Operation
    <3>. DEFINE body == Append(o.body, l.text)
    <3>1. o.body \in Seq(Texts) /\ o.hunks \in Seq(SortedHunk)
      BY <2>1 DEF Operation
    <3>2. body \in Seq(Texts)
      BY <2>1, <3>1
    <3>. HIDE DEF o, body
    <3>3. o \in [kind : Headers, body : Seq(Texts), hunks : Seq(SortedHunk)] /\ o.hunks = <<>>
      BY <2>1 DEF Operation
    <3>4. [o EXCEPT !.body = body] \in Operation
      BY <2>1, <3>2, <3>3 DEF Operation
    <3>. QED
      BY <3>4 DEF o, body
  <2>4. [o EXCEPT !.body = Append(@, l.text)].kind = o.kind
    BY <2>1 DEF Operation
  <2>. DEFINE new == [o EXCEPT !.body = Append(@, l.text)]
  <2>5. ops' = [ops EXCEPT ![n] = new]
    BY <2>2
  <2>. HIDE DEF n, o, new
  <2>6. ops' \in Seq(Operation) /\ Len(ops') = n /\ ops'[n] = new
    BY <1>1, <2>1, <2>3, <2>5 DEF n, new
  <2>. QED
    BY <1>2, <1>4, <2>1, <2>4, <2>6 DEF new
<1>5. CASE section = "update"
  <2>1. n \in 1..n /\ o \in Operation /\ o.kind = "update"
    BY <1>1, <1>5
  <2>2. ops' = [ops EXCEPT ![n].hunks = hunks]
    BY <1>5 DEF Body
  <2>3. l.kind \in HunkKinds \cup {"at"} /\ o.hunks \in Seq(SortedHunk)
    BY <1>2, <1>5, <2>1 DEF Allowed, Operation
  <2>4. hunks \in Seq(SortedHunk)
    <3>. HIDE DEF o
    <3>. QED
      BY <2>3, HunksMore
  <2>. HIDE DEF hunks
  <2>5. [o EXCEPT !.hunks = hunks] \in Operation /\ [o EXCEPT !.hunks = hunks].kind = o.kind
    BY <2>1, <2>4 DEF Operation
  <2>. DEFINE new == [o EXCEPT !.hunks = hunks]
  <2>6. ops' = [ops EXCEPT ![n] = new]
    BY <2>2
  <2>. HIDE DEF n, o, new
  <2>7. ops' \in Seq(Operation) /\ Len(ops') = n /\ ops'[n] = new
    BY <1>1, <2>1, <2>5, <2>6 DEF n, new
  <2>. QED
    BY <1>2, <1>5, <2>1, <2>5, <2>7 DEF new
<1>. QED
  BY <1>1, <1>3, <1>4, <1>5

LEMMA OpsOKInit == Init => OpsOK
<1>. SUFFICES ASSUME Init PROVE OpsOK
  OBVIOUS
<1>1. ops \in Seq(Operation) /\ todo \in Seq(SortedHunk)
  BY DEF Init
<1>. QED
  BY <1>1, PatchAssumption DEF Init, OpsOK

LEMMA OpsOKNext == OpsOK /\ [Next]_vars => OpsOK'
<1>. SUFFICES ASSUME OpsOK, [Next]_vars PROVE OpsOK'
  OBVIOUS
<1>1. CASE Envelope
  BY <1>1 DEF OpsOK, Envelope, Errors
<1>2. CASE End
  BY <1>2 DEF OpsOK, End
<1>3. CASE ReadLine
  <2>1. PICK l \in Line : \/ (Header(l) \/ Body(l)) /\ UNCHANGED phase
                          \/ ~Allowed(l) /\ phase' = "parse_error" /\ UNCHANGED <<section, ops>>
    BY <1>3 DEF ReadLine
  <2>2. /\ lines' \in 0..MaxLines /\ todo' \in Seq(SortedHunk)
        /\ phase \in {"envelope", "parsing", "parsed", "applying", "applied"} \cup Errors
    BY <1>3, PatchAssumption DEF ReadLine, OpsOK
  <2>3. CASE Header(l) /\ UNCHANGED phase
    BY <2>2, <2>3, OpsOKHeader DEF OpsOK
  <2>4. CASE Body(l) /\ UNCHANGED phase
    <3>1. section \in {"none", "add", "update"}
      BY DEF OpsOK
    <3>. QED
      BY <2>2, <2>4, <3>1, OpsOKBody DEF OpsOK
  <2>5. CASE phase' = "parse_error" /\ UNCHANGED <<section, ops>>
    BY <2>2, <2>5 DEF OpsOK, Errors
  <2>. QED
    BY <2>1, <2>3, <2>4, <2>5
<1>4. CASE Open
  <2>1. PICK i \in 1..Len(ops) : todo' = ops[i].hunks
    BY <1>4 DEF Open
  <2>2. ops[i] \in Operation
    BY <2>1 DEF OpsOK
  <2>3. todo' \in Seq(SortedHunk)
    BY <2>1, <2>2 DEF Operation
  <2>. QED
    BY <1>4, <2>3 DEF OpsOK, Open
<1>5. CASE ApplyHunk
  <2>1. todo' \in Seq(SortedHunk)
    BY <1>5 DEF ApplyHunk, OpsOK
  <2>2. phase' \in {phase, "no_context"}
    BY <1>5 DEF ApplyHunk
  <2>3. UNCHANGED <<section, ops, lines>>
    BY <1>5 DEF ApplyHunk
  <2>. QED
    BY <2>1, <2>2, <2>3 DEF OpsOK, Errors
<1>6. CASE Done
  BY <1>6 DEF OpsOK, Done
<1>7. CASE UNCHANGED vars
  BY <1>7 DEF OpsOK, vars
<1>. QED
  BY <1>1, <1>2, <1>3, <1>4, <1>5, <1>6, <1>7 DEF Next

\* What parse_patch makes has the shape that the rest of the code reads: a header
\* opens the operation whose body follows, only an update has hunks and only an
\* added file has a content, however many lines the envelope has.
THEOREM Types == Spec => []TypeOK
<1>1. Spec => []OpsOK
  BY OpsOKInit, OpsOKNext, PTL DEF Spec
<1>2. OpsOK => TypeOK
  BY OpsOKTypes
<1>. QED
  BY <1>1, <1>2, PTL

\* The order of a hunk's lines is kept when its changes are consecutive lines: context
\* between two groups of changes is the only thing that the four lists can move.
OneGroupKeepsOrder ==
    \A i \in 1..Len(ops) : \A j \in 1..Len(ops[i].hunks) :
        LET h == ops[i].hunks[j]
        IN OneGroup(h) => OldLines(h) = Before(h) /\ NewLines(h) = After(h)

\* parse_patch makes of every hunk with one group of changes the blocks that the
\* envelope shows, in any patch of any length.
THEOREM OrderKept == Spec => []OneGroupKeepsOrder
<1>1. Spec => []OpsOK
  BY OpsOKInit, OpsOKNext, PTL DEF Spec
<1>2. OpsOK => OneGroupKeepsOrder
  <2>. SUFFICES ASSUME OpsOK, NEW i \in 1..Len(ops), NEW j \in 1..Len(ops[i].hunks),
                       OneGroup(ops[i].hunks[j])
                PROVE  /\ OldLines(ops[i].hunks[j]) = Before(ops[i].hunks[j])
                       /\ NewLines(ops[i].hunks[j]) = After(ops[i].hunks[j])
    BY DEF OneGroupKeepsOrder
  <2>1. ops[i] \in Operation
    BY DEF OpsOK
  <2>2. ops[i].hunks \in Seq(SortedHunk)
    BY <2>1 DEF Operation
  <2>3. ops[i].hunks[j] \in SortedHunk
    BY <2>2
  <2>. QED
    BY <2>3 DEF SortedHunk, Sorted
<1>. QED
  BY <1>1, <1>2, PTL

-----------------------------------------------------------------------------
(* A file as lines and as text                                             *)

IsDoc(d) == IsSeq(d) /\ \A i \in 1..Len(d) : IsLine(d[i])

\* Every line with its newline, the last one included.
Ended(d) == [i \in 1..Len(d) |-> Cat(d[i], <<NL>>)]
Whole(d) == FlattenSeq(Ended(d))

\* Characters up to the end of line n.
Upto(d, n) == Len(Whole(Part(d, 1, n)))

LEMMA LineChars ==
    ASSUME NEW t, IsLine(t)
    PROVE  IsSeq(t) /\ Len(t) \in Nat /\ \A j \in 1..Len(t) : t[j] # NL
<1>1. IsSeq(t)
  BY DEF IsLine, IsSeq
<1>2. Len(t) \in Nat /\ DOMAIN t = 1..Len(t)
  BY <1>1, SeqIsFunction
<1>3. \A j \in 1..Len(t) : t[j] \in ToSet(t)
  BY <1>2 DEF ToSet
<1>. QED
  BY <1>1, <1>2, <1>3 DEF IsLine

LEMMA EndedIsSeq ==
    ASSUME NEW d, IsDoc(d)
    PROVE  /\ SeqOfSeqs(Ended(d)) /\ Len(Ended(d)) = Len(d)
           /\ \A i \in 1..Len(d) : Ended(d)[i] = Cat(d[i], <<NL>>)
           /\ IsSeq(Whole(d)) /\ Len(Whole(d)) \in Nat
           /\ IsSeq(d) /\ Len(d) \in Nat
<1>1. IsSeq(d) /\ Len(d) \in Nat
  BY SeqIsFunction DEF IsDoc
<1>2. IsSeq(Ended(d)) /\ Len(Ended(d)) = Len(d)
  BY <1>1, SeqOfFunction DEF Ended
<1>3. \A i \in 1..Len(d) : Ended(d)[i] = Cat(d[i], <<NL>>)
  BY DEF Ended
<1>4. \A i \in 1..Len(d) : IsSeq(Ended(d)[i])
  <2>1. TAKE i \in 1..Len(d)
  <2>2. IsSeq(d[i]) /\ IsSeq(<<NL>>)
    BY LineChars, SeqOne DEF IsDoc
  <2>3. IsSeq(Cat(d[i], <<NL>>))
    BY <2>2, SeqConcat
  <2>. QED
    BY <1>3, <2>3
<1>5. SeqOfSeqs(Ended(d))
  BY <1>2, <1>4 DEF SeqOfSeqs
<1>6. IsSeq(Whole(d))
  BY <1>5, FlattenIsSeq DEF Whole
<1>. QED
  BY <1>1, <1>2, <1>3, <1>5, <1>6, SeqIsFunction

LEMMA DocConcat ==
    ASSUME NEW c, NEW d, IsDoc(c), IsDoc(d)
    PROVE  /\ IsDoc(Cat(c, d))
           /\ Whole(Cat(c, d)) = Cat(Whole(c), Whole(d))
<1>. DEFINE cd == Cat(c, d)
<1>1. /\ IsSeq(c) /\ Len(c) \in Nat /\ IsSeq(d) /\ Len(d) \in Nat
      /\ \A i \in 1..Len(c) : IsLine(c[i])
      /\ \A i \in 1..Len(d) : IsLine(d[i])
  BY SeqIsFunction DEF IsDoc
<1>2. /\ IsSeq(cd) /\ Len(cd) = Len(c) + Len(d)
      /\ \A i \in 1..Len(c) + Len(d) : cd[i] = IF i <= Len(c) THEN c[i] ELSE d[i - Len(c)]
  BY <1>1, SeqConcat
<1>. HIDE DEF cd
<1>3. IsDoc(cd)
  <2>1. ASSUME NEW i \in 1..Len(cd) PROVE IsLine(cd[i])
    <3>1. CASE i <= Len(c)
      BY <1>1, <1>2, <3>1
    <3>2. CASE ~(i <= Len(c))
      BY <1>1, <1>2, <3>2
    <3>. QED
      BY <3>1, <3>2
  <2>. QED
    BY <1>2, <2>1 DEF IsDoc
<1>4. Ended(cd) = Cat(Ended(c), Ended(d))
  <2>1. /\ IsSeq(Ended(c)) /\ Len(Ended(c)) = Len(c)
        /\ IsSeq(Ended(d)) /\ Len(Ended(d)) = Len(d)
        /\ IsSeq(Ended(cd)) /\ Len(Ended(cd)) = Len(cd)
        /\ \A i \in 1..Len(c) : Ended(c)[i] = Cat(c[i], <<NL>>)
        /\ \A i \in 1..Len(d) : Ended(d)[i] = Cat(d[i], <<NL>>)
        /\ \A i \in 1..Len(cd) : Ended(cd)[i] = Cat(cd[i], <<NL>>)
    BY <1>3, EndedIsSeq DEF SeqOfSeqs
  <2>2. ASSUME NEW i \in 1..Len(c) PROVE Ended(cd)[i] = Ended(c)[i]
    <3>1. i \in 1..Len(cd) /\ cd[i] = c[i]
      BY <1>1, <1>2
    <3>. QED
      BY <2>1, <3>1
  <2>3. ASSUME NEW i \in 1..Len(d) PROVE Ended(cd)[Len(c) + i] = Ended(d)[i]
    <3>1. PICK k : k = Len(c) + i
      OBVIOUS
    <3>2. k \in 1..Len(cd) /\ ~(k <= Len(c)) /\ k - Len(c) = i
      BY <1>1, <1>2, <3>1
    <3>3. cd[k] = d[i]
      BY <1>2, <3>2
    <3>. QED
      BY <2>1, <3>1, <3>2, <3>3
  <2>4. /\ Len(Ended(cd)) = Len(Ended(c)) + Len(Ended(d))
        /\ \A i \in 1..Len(Ended(c)) : Ended(cd)[i] = Ended(c)[i]
        /\ \A i \in 1..Len(Ended(d)) : Ended(cd)[Len(Ended(c)) + i] = Ended(d)[i]
    BY <1>2, <2>1, <2>2, <2>3
  <2>. QED
    BY <2>1, <2>4, SeqJoined
<1>5. SeqOfSeqs(Ended(c)) /\ SeqOfSeqs(Ended(d))
  BY EndedIsSeq
<1>6. FlattenSeq(Ended(cd)) = Cat(FlattenSeq(Ended(c)), FlattenSeq(Ended(d)))
  BY <1>4, <1>5, FlattenConcat
<1>. QED
  BY <1>3, <1>6 DEF Whole, cd

LEMMA DocOne ==
    ASSUME NEW t, IsLine(t)
    PROVE  IsDoc(<<t>>) /\ Whole(<<t>>) = Cat(t, <<NL>>)
<1>. DEFINE one == <<t>>
<1>1. IsSeq(one) /\ Len(one) = 1 /\ one[1] = t
  BY SeqOne
<1>. HIDE DEF one
<1>2. IsDoc(one)
  BY <1>1 DEF IsDoc
<1>3. /\ SeqOfSeqs(Ended(one)) /\ Len(Ended(one)) = 1 /\ Ended(one)[1] = Cat(t, <<NL>>)
  BY <1>1, <1>2, EndedIsSeq
<1>4. FlattenSeq(Ended(one)) = Ended(one)[1]
  BY <1>3, FlattenFirst
<1>. QED
  BY <1>2, <1>3, <1>4 DEF Whole, one

LEMMA DocEmpty == IsDoc(<<>>) /\ Whole(<<>>) = <<>> /\ Join(<<>>) = <<>>
<1>1. IsSeq(<<>>) /\ Len(<<>>) = 0
  BY SeqEmpty
<1>2. IsDoc(<<>>)
  BY <1>1 DEF IsDoc
<1>3. SeqOfSeqs(Ended(<<>>)) /\ Len(Ended(<<>>)) = 0
  BY <1>1, <1>2, EndedIsSeq
<1>4. Whole(<<>>) = <<>>
  BY <1>3, FlattenSteps DEF Whole
<1>. DEFINE none == [i \in 1..Len(<<>>) |-> IF i = 1 THEN <<>>[i] ELSE <<NL>> \o <<>>[i]]
<1>5. SeqOfSeqs(none) /\ Len(none) = 0
  <2>1. Len(<<>>) \in Nat /\ none = [i \in 1..Len(<<>>) |-> none[i]]
    OBVIOUS
  <2>. HIDE DEF none
  <2>2. IsSeq(none) /\ Len(none) = 0
    BY <1>1, <2>1, SeqOfFunction
  <2>. QED
    BY <2>2 DEF SeqOfSeqs
<1>6. Join(<<>>) = FlattenSeq(none)
  BY DEF Join
<1>. HIDE DEF none
<1>7. Join(<<>>) = <<>>
  BY <1>5, <1>6, FlattenSteps
<1>. QED
  BY <1>2, <1>4, <1>7

LEMMA DocPart ==
    ASSUME NEW d, IsDoc(d), NEW m \in 1..Len(d) + 1, NEW n \in 0..Len(d), m <= n + 1
    PROVE  IsDoc(Part(d, m, n))
<1>1. IsSeq(d) /\ Len(d) \in Nat
  BY SeqIsFunction DEF IsDoc
<1>2. /\ IsSeq(Part(d, m, n)) /\ Len(Part(d, m, n)) = n - m + 1
      /\ \A i \in 1..n - m + 1 : Part(d, m, n)[i] = d[m + i - 1]
  BY <1>1, SeqPart
<1>3. ASSUME NEW i \in 1..n - m + 1 PROVE IsLine(d[m + i - 1])
  <2>1. m + i - 1 \in 1..Len(d)
    BY <1>1
  <2>. QED
    BY <2>1 DEF IsDoc
<1>. QED
  BY <1>2, <1>3 DEF IsDoc

\* The text of a file with a newline more has every line with its newline.
LEMMA JoinWhole ==
    ASSUME NEW d, IsDoc(d), d # <<>>
    PROVE  IsSeq(Join(d)) /\ Len(Join(d)) \in Nat /\ Cat(Join(d), <<NL>>) = Whole(d)
<1>. DEFINE nl == <<NL>>
            pieces == [i \in 1..Len(d) |-> IF i = 1 THEN d[i] ELSE <<NL>> \o d[i]]
            e == Ended(d)
<1>1. /\ SeqOfSeqs(e) /\ Len(e) = Len(d) /\ IsSeq(d) /\ Len(d) \in Nat
      /\ \A i \in 1..Len(d) : e[i] = Cat(d[i], nl)
      /\ Whole(d) = FlattenSeq(e)
  BY EndedIsSeq DEF Whole
<1>2. IsSeq(nl) /\ \A i \in 1..Len(d) : IsSeq(d[i])
  BY SeqOne, LineChars DEF IsDoc
<1>3. Len(d) > 0
  BY <1>1, SeqEmpty
<1>4. /\ \A i \in 2..Len(d) : pieces[i] = Cat(nl, d[i])
      /\ pieces[1] = d[1]
  BY <1>1, <1>3 DEF Cat
<1>5. SeqOfSeqs(pieces) /\ Len(pieces) = Len(d)
  <2>1. IsSeq(pieces) /\ Len(pieces) = Len(d)
    BY <1>1, SeqOfFunction
  <2>. HIDE DEF pieces, nl
  <2>2. \A i \in 2..Len(d) : IsSeq(pieces[i])
    <3>1. TAKE i \in 2..Len(d)
    <3>2. IsSeq(d[i])
      BY <1>1, <1>2
    <3>. QED
      BY <1>2, <1>4, <3>2, SeqConcat
  <2>3. \A i \in 1..Len(d) : IsSeq(pieces[i])
    BY <1>1, <1>2, <1>3, <1>4, <2>2
  <2>. QED
    BY <2>1, <2>3 DEF SeqOfSeqs
<1>6. Join(d) = FlattenSeq(pieces)
  BY DEF Join
<1>. HIDE DEF pieces, nl, e
<1>7. PICK f : /\ f[0] = <<>>
               /\ \A n \in 1..Len(d) : f[n] = Cat(f[n - 1], pieces[n])
               /\ FlattenSeq(pieces) = f[Len(d)]
  BY <1>5, FlattenSteps
<1>8. PICK g : /\ g[0] = <<>>
               /\ \A n \in 1..Len(d) : g[n] = Cat(g[n - 1], e[n])
               /\ FlattenSeq(e) = g[Len(d)]
  BY <1>1, FlattenSteps
<1>9. \A n \in 0..Len(d) : IsSeq(f[n])
  BY <1>5, <1>7, FlattenStepsAreSeqs
<1>. DEFINE G == {n \in 0..Len(d) : n = 0 \/ Cat(f[n], nl) = g[n]}
<1>10. 0 \in G
  BY <1>1
<1>11. ASSUME NEW n \in 1..Len(d), n - 1 \in G
       PROVE  n \in G
  <2>1. /\ f[n] = Cat(f[n - 1], pieces[n]) /\ g[n] = Cat(g[n - 1], e[n])
        /\ e[n] = Cat(d[n], nl) /\ IsSeq(d[n]) /\ IsSeq(f[n - 1])
    BY <1>1, <1>2, <1>7, <1>8, <1>9
  <2>2. CASE n = 1
    <3>1. f[n] = Cat(<<>>, d[n]) /\ g[n] = Cat(<<>>, Cat(d[n], nl)) /\ IsSeq(Cat(d[n], nl))
      BY <1>2, <1>4, <1>7, <1>8, <2>1, <2>2, SeqConcat
    <3>2. f[n] = d[n] /\ g[n] = Cat(d[n], nl)
      BY <2>1, <3>1, SeqUnit
    <3>. QED
      BY <3>2
  <2>3. CASE n # 1
    <3>1. n - 1 # 0 /\ n \in 2..Len(d)
      BY <1>1, <2>3
    <3>2. Cat(f[n - 1], nl) = g[n - 1] /\ pieces[n] = Cat(nl, d[n])
      BY <1>4, <1>11, <3>1
    <3>3. IsSeq(Cat(nl, d[n])) /\ IsSeq(Cat(d[n], nl)) /\ IsSeq(Cat(f[n - 1], nl))
      BY <1>2, <2>1, SeqConcat
    <3>4. Cat(f[n], nl) = Cat(f[n - 1], Cat(Cat(nl, d[n]), nl))
      BY <1>2, <2>1, <3>2, <3>3, SeqAssociative
    <3>5. Cat(Cat(nl, d[n]), nl) = Cat(nl, Cat(d[n], nl))
      BY <1>2, <2>1, SeqAssociative
    <3>6. Cat(f[n - 1], Cat(nl, Cat(d[n], nl))) = Cat(Cat(f[n - 1], nl), Cat(d[n], nl))
      BY <1>2, <2>1, <3>3, SeqAssociative
    <3>7. Cat(f[n], nl) = g[n]
      BY <2>1, <3>2, <3>4, <3>5, <3>6
    <3>. QED
      BY <3>7
  <2>. QED
    BY <2>2, <2>3
<1>12. \A n \in 0..Len(d) : n \in G
  <2>. HIDE DEF G
  <2>. QED
    BY <1>1, <1>10, <1>11, InductionUpTo
<1>13. Cat(f[Len(d)], nl) = g[Len(d)]
  BY <1>1, <1>3, <1>12
<1>14. IsSeq(Join(d)) /\ Cat(Join(d), nl) = Whole(d)
  BY <1>1, <1>6, <1>7, <1>8, <1>9, <1>13
<1>. QED
  BY <1>14, SeqIsFunction DEF nl

\* Two texts that a newline makes equal are equal.
LEMMA JoinCancel ==
    ASSUME NEW s, NEW t, IsSeq(s), IsSeq(t), Cat(s, <<NL>>) = Cat(t, <<NL>>)
    PROVE  s = t
<1>. DEFINE nl == <<NL>>
<1>1. IsSeq(nl)
  BY SeqOne
<1>. HIDE DEF nl
<1>2. Cat(s, nl) = Cat(t, nl)
  BY DEF nl
<1>. QED
  BY <1>1, <1>2, SeqCancel

\* Line n of a file in its text.
LEMMA LineOfDoc ==
    ASSUME NEW d, IsDoc(d), NEW n \in 1..Len(d)
    PROVE  /\ Upto(d, n - 1) \in Nat
           /\ Upto(d, n) = Upto(d, n - 1) + Len(d[n]) + 1
           /\ Upto(d, n) <= Len(Whole(d))
           /\ \A j \in 1..Len(d[n]) : Whole(d)[Upto(d, n - 1) + j] = d[n][j]
           /\ Whole(d)[Upto(d, n)] = NL
<1>. DEFINE p == Part(d, 1, n - 1)
            q == Part(d, 1, n)
            r == Part(d, n + 1, Len(d))
            t == d[n]
            nl == <<NL>>
            a == Len(Whole(p))
<1>1. IsSeq(d) /\ Len(d) \in Nat /\ IsLine(t)
  BY SeqIsFunction DEF IsDoc
<1>2. IsDoc(p) /\ IsDoc(q)
  BY <1>1, DocPart
<1>3. IsDoc(r)
  <2>1. n + 1 \in 1..Len(d) + 1 /\ Len(d) \in 0..Len(d) /\ n + 1 <= Len(d) + 1
    BY <1>1
  <2>. QED
    BY <2>1, DocPart
<1>4. q = Cat(p, <<t>>) /\ d = Cat(q, r)
  BY <1>1, SeqUpTo, SeqCut
<1>5. IsDoc(<<t>>) /\ Whole(<<t>>) = Cat(t, nl)
  BY <1>1, DocOne
<1>6. Upto(d, n - 1) = a /\ Upto(d, n) = Len(Whole(q))
  BY DEF Upto
<1>. HIDE DEF p, q, r, t
<1>7. Whole(q) = Cat(Whole(p), Cat(t, nl)) /\ Whole(d) = Cat(Whole(q), Whole(r))
  BY <1>2, <1>3, <1>4, <1>5, DocConcat
<1>8. /\ IsSeq(Whole(p)) /\ a \in Nat
      /\ IsSeq(Whole(q)) /\ Len(Whole(q)) \in Nat
      /\ IsSeq(Whole(r)) /\ Len(Whole(r)) \in Nat
  BY <1>2, <1>3, EndedIsSeq
<1>9. IsSeq(t) /\ Len(t) \in Nat
  BY <1>1, LineChars
<1>10. IsSeq(nl) /\ Len(nl) = 1 /\ nl[1] = NL
  BY SeqOne
<1>. HIDE DEF nl
<1>11. /\ IsSeq(Cat(t, nl)) /\ Len(Cat(t, nl)) = Len(t) + 1
       /\ \A i \in 1..Len(t) + 1 : Cat(t, nl)[i] = IF i <= Len(t) THEN t[i] ELSE nl[i - Len(t)]
  <2>1. /\ IsSeq(Cat(t, nl)) /\ Len(Cat(t, nl)) = Len(t) + Len(nl)
        /\ \A i \in 1..Len(t) + Len(nl) :
              Cat(t, nl)[i] = IF i <= Len(t) THEN t[i] ELSE nl[i - Len(t)]
    BY <1>9, <1>10, SeqConcat
  <2>. QED
    BY <1>10, <2>1
<1>12. /\ Len(Whole(q)) = a + Len(Cat(t, nl))
       /\ \A i \in 1..a + Len(Cat(t, nl)) :
             Whole(q)[i] = IF i <= a THEN Whole(p)[i] ELSE Cat(t, nl)[i - a]
  BY <1>7, <1>8, <1>11, SeqConcat
<1>13. /\ Len(Whole(d)) = Len(Whole(q)) + Len(Whole(r))
       /\ \A i \in 1..Len(Whole(q)) + Len(Whole(r)) :
             Whole(d)[i] = IF i <= Len(Whole(q)) THEN Whole(q)[i] ELSE Whole(r)[i - Len(Whole(q))]
  BY <1>7, <1>8, SeqConcat
<1>. HIDE DEF a
<1>14. ASSUME NEW j \in 1..Len(t) + 1
       PROVE  Whole(d)[a + j] = Cat(t, nl)[j]
  <2>1. PICK k : k = a + j
    OBVIOUS
  <2>2. k \in 1..Len(Whole(q)) /\ ~(k <= a) /\ k - a = j /\ k <= Len(Whole(q))
    BY <1>8, <1>9, <1>11, <1>12, <2>1
  <2>3. Whole(q)[k] = Cat(t, nl)[j]
    BY <1>12, <2>2
  <2>4. k \in 1..Len(Whole(q)) + Len(Whole(r))
    BY <1>8, <2>2
  <2>5. Whole(d)[k] = Whole(q)[k]
    BY <1>13, <2>2, <2>4
  <2>. QED
    BY <2>1, <2>3, <2>5
<1>15. \A j \in 1..Len(t) : Whole(d)[a + j] = t[j]
  <2>1. TAKE j \in 1..Len(t)
  <2>2. j \in 1..Len(t) + 1 /\ j <= Len(t)
    BY <1>9
  <2>. QED
    BY <1>11, <1>14, <2>2
<1>16. Whole(d)[a + (Len(t) + 1)] = NL
  <2>1. Len(t) + 1 \in 1..Len(t) + 1 /\ ~(Len(t) + 1 <= Len(t)) /\ (Len(t) + 1) - Len(t) = 1
    BY <1>9
  <2>2. Cat(t, nl)[Len(t) + 1] = NL
    BY <1>10, <1>11, <2>1
  <2>. QED
    BY <1>14, <2>1, <2>2
<1>17. /\ Len(Whole(q)) = a + Len(t) + 1 /\ Len(Whole(q)) = a + (Len(t) + 1)
       /\ Len(Whole(q)) <= Len(Whole(d))
  BY <1>8, <1>9, <1>11, <1>12, <1>13
<1>. QED
  BY <1>6, <1>8, <1>15, <1>16, <1>17 DEF t

LEMMA UptoEnds ==
    ASSUME NEW d, IsDoc(d)
    PROVE  /\ Upto(d, 0) = 0 /\ Upto(d, Len(d)) = Len(Whole(d))
           /\ \A n \in 0..Len(d) : Upto(d, n) \in Nat /\ Upto(d, n) <= Len(Whole(d))
<1>1. IsSeq(d) /\ Len(d) \in Nat /\ IsSeq(Whole(d)) /\ Len(Whole(d)) \in Nat
  BY EndedIsSeq
<1>2. Part(d, 1, Len(d)) = d
  BY <1>1, SeqWhole
<1>3. Upto(d, Len(d)) = Len(Whole(d))
  BY <1>2 DEF Upto
<1>4. Upto(d, 0) = 0
  <2>1. IsSeq(Part(d, 1, 0)) /\ Len(Part(d, 1, 0)) = 0
    BY <1>1, SeqPart
  <2>2. Part(d, 1, 0) = <<>>
    BY <2>1, SeqEmpty
  <2>. QED
    BY <2>2, DocEmpty, SeqEmpty DEF Upto
<1>5. \A n \in 1..Len(d) : Upto(d, n) \in Nat /\ Upto(d, n) <= Len(Whole(d))
  <2>1. TAKE n \in 1..Len(d)
  <2>2. IsDoc(Part(d, 1, n))
    BY <1>1, DocPart
  <2>3. Upto(d, n) \in Nat
    BY <2>2, EndedIsSeq DEF Upto
  <2>. QED
    BY <2>3, LineOfDoc
<1>. QED
  BY <1>1, <1>3, <1>4, <1>5

\* A later line ends later.
LEMMA UptoGrows ==
    ASSUME NEW d, IsDoc(d), NEW n \in 0..Len(d), NEW m \in 0..Len(d), n < m
    PROVE  Upto(d, n) < Upto(d, m)
<1>1. Len(d) \in Nat /\ \A k \in 0..Len(d) : Upto(d, k) \in Nat
  BY EndedIsSeq, UptoEnds
<1>2. ASSUME NEW k \in 1..Len(d) PROVE Upto(d, k - 1) < Upto(d, k)
  <2>1. Upto(d, k) = Upto(d, k - 1) + Len(d[k]) + 1 /\ Upto(d, k - 1) \in Nat
    BY LineOfDoc
  <2>2. Len(d[k]) \in Nat
    BY LineChars DEF IsDoc
  <2>. QED
    BY <2>1, <2>2
<1>. DEFINE G == {k \in 0..Len(d) : n < k => Upto(d, n) < Upto(d, k)}
<1>3. 0 \in G
  BY <1>1
<1>4. ASSUME NEW k \in 1..Len(d), k - 1 \in G PROVE k \in G
  <2>1. CASE n < k - 1
    <3>1. Upto(d, n) < Upto(d, k - 1) /\ Upto(d, k - 1) < Upto(d, k)
      BY <1>2, <1>4, <2>1
    <3>2. Upto(d, n) \in Nat /\ Upto(d, k - 1) \in Nat /\ Upto(d, k) \in Nat
      BY <1>1
    <3>. QED
      BY <3>1, <3>2
  <2>2. CASE n = k - 1
    BY <1>2, <2>2
  <2>3. CASE n > k - 1
    BY <1>1, <2>3
  <2>. QED
    BY <1>1, <2>1, <2>2, <2>3
<1>. HIDE DEF G
<1>5. m \in G
  BY <1>1, <1>3, <1>4, InductionUpTo
<1>. QED
  BY <1>5 DEF G

\* Every newline of a file ends one of its lines.
LEMMA CutAtLine ==
    ASSUME NEW d, IsDoc(d), NEW k \in 0..Len(Whole(d)), k = 0 \/ Whole(d)[k] = NL
    PROVE  \E n \in 0..Len(d) : k = Upto(d, n)
<1>1. /\ Len(d) \in Nat /\ Len(Whole(d)) \in Nat
      /\ Upto(d, 0) = 0 /\ Upto(d, Len(d)) = Len(Whole(d))
      /\ \A n \in 0..Len(d) : Upto(d, n) \in Nat
  BY EndedIsSeq, UptoEnds
<1>. DEFINE T == {n \in 0..Len(d) : Upto(d, n) <= k}
<1>2. 0 \in T
  BY <1>1
<1>3. PICK n \in T : \A m \in T : m <= n
  <2>1. T \in SUBSET (0..Len(d)) /\ T # {}
    BY <1>2
  <2>. HIDE DEF T
  <2>. QED
    BY <1>1, <2>1, GreatestElement
<1>4. n \in 0..Len(d) /\ Upto(d, n) <= k
  OBVIOUS
<1>. SUFFICES ASSUME Upto(d, n) # k PROVE FALSE
  BY <1>4
<1>5. n # Len(d)
  BY <1>1, <1>4
<1>6. PICK m : m = n + 1
  OBVIOUS
<1>7. m \in 1..Len(d) /\ m \in 0..Len(d) /\ m - 1 = n /\ ~(m <= n)
  BY <1>1, <1>4, <1>5, <1>6
<1>8. ~(Upto(d, m) <= k)
  BY <1>3, <1>7
<1>9. /\ Upto(d, m) = Upto(d, n) + Len(d[m]) + 1
      /\ \A j \in 1..Len(d[m]) : Whole(d)[Upto(d, n) + j] = d[m][j]
  BY <1>7, LineOfDoc
<1>10. Len(d[m]) \in Nat /\ \A j \in 1..Len(d[m]) : d[m][j] # NL
  BY <1>7, LineChars DEF IsDoc
<1>11. PICK j : j = k - Upto(d, n)
  OBVIOUS
<1>12. Upto(d, n) \in Nat /\ k \in Nat
  BY <1>1, <1>4
<1>13. j \in 1..Len(d[m]) /\ Upto(d, n) + j = k /\ k # 0
  BY <1>4, <1>8, <1>9, <1>10, <1>11, <1>12
<1>. QED
  BY <1>9, <1>10, <1>13

\* Lines whose text is met from the start of a line are met there as lines.
LEMMA BlockAtLine ==
    ASSUME NEW d, IsDoc(d), NEW b, IsDoc(b), NEW n \in 0..Len(d),
           Upto(d, n) + Len(Whole(b)) <= Len(Whole(d)),
           \A j \in 1..Len(Whole(b)) : Whole(d)[Upto(d, n) + j] = Whole(b)[j]
    PROVE  /\ n + Len(b) <= Len(d)
           /\ \A k \in 1..Len(b) : d[n + k] = b[k]
<1>1. /\ Len(d) \in Nat /\ Len(Whole(d)) \in Nat /\ Upto(d, Len(d)) = Len(Whole(d))
      /\ \A k \in 0..Len(d) : Upto(d, k) \in Nat
      /\ Len(b) \in Nat /\ Len(Whole(b)) \in Nat /\ Upto(b, 0) = 0
      /\ \A k \in 0..Len(b) : Upto(b, k) \in Nat
  BY EndedIsSeq, UptoEnds
<1>2. ASSUME NEW k \in 1..Len(b), n + (k - 1) <= Len(d),
             Upto(d, n + (k - 1)) = Upto(d, n) + Upto(b, k - 1)
      PROVE  /\ n + k <= Len(d)
             /\ Upto(d, n + k) = Upto(d, n) + Upto(b, k)
             /\ d[n + k] = b[k]
  <2>1. /\ Upto(b, k - 1) \in Nat /\ Upto(b, k) = Upto(b, k - 1) + Len(b[k]) + 1
        /\ Upto(b, k) <= Len(Whole(b)) /\ Whole(b)[Upto(b, k)] = NL
        /\ \A j \in 1..Len(b[k]) : Whole(b)[Upto(b, k - 1) + j] = b[k][j]
    BY LineOfDoc
  <2>2. IsSeq(b[k]) /\ Len(b[k]) \in Nat /\ \A j \in 1..Len(b[k]) : b[k][j] # NL
    BY LineChars DEF IsDoc
  <2>3. PICK m : m = n + k
    OBVIOUS
  <2>4. m - 1 = n + (k - 1) /\ m \in Nat /\ Upto(d, n) \in Nat
    BY <1>1, <2>3
  <2>5. m <= Len(d)
    <3>. SUFFICES ASSUME ~(m <= Len(d)) PROVE FALSE
      OBVIOUS
    <3>1. m - 1 <= Len(d)
      BY <1>2, <2>4
    <3>2. m - 1 = Len(d)
      BY <1>1, <2>4, <3>1
    <3>3. Len(Whole(d)) = Upto(d, n) + Upto(b, k - 1)
      BY <1>1, <1>2, <2>4, <3>2
    <3>4. Upto(b, k - 1) < Len(Whole(b))
      BY <1>1, <2>1, <2>2
    <3>. QED
      BY <1>1, <2>1, <2>4, <3>3, <3>4
  <2>6. m \in 1..Len(d)
    BY <1>1, <2>3, <2>4, <2>5
  <2>7. /\ Upto(d, m) = Upto(d, m - 1) + Len(d[m]) + 1
        /\ Whole(d)[Upto(d, m)] = NL
        /\ \A j \in 1..Len(d[m]) : Whole(d)[Upto(d, m - 1) + j] = d[m][j]
    BY <2>6, LineOfDoc
  <2>8. IsSeq(d[m]) /\ Len(d[m]) \in Nat /\ \A j \in 1..Len(d[m]) : d[m][j] # NL
    BY <2>6, LineChars DEF IsDoc
  <2>9. Upto(d, m - 1) = Upto(d, n) + Upto(b, k - 1)
    BY <1>2, <2>4
  \* The line of d and the line of b start at the same character.
  <2>10. ASSUME NEW j \in 1..Len(b[k]) + 1
         PROVE  Whole(d)[Upto(d, m - 1) + j] = Whole(b)[Upto(b, k - 1) + j]
    <3>1. PICK i : i = Upto(b, k - 1) + j
      OBVIOUS
    <3>2. i \in 1..Len(Whole(b)) /\ Upto(d, n) + i = Upto(d, m - 1) + j
      <4>1. Len(Whole(b)) \in Nat
        BY <1>1
      <4>2. i \in 1..Len(Whole(b))
        BY <2>1, <2>2, <3>1, <4>1
      <4>3. (Upto(d, n) + Upto(b, k - 1)) + j = Upto(d, n) + (Upto(b, k - 1) + j)
        BY <2>1, <2>4
      <4>. QED
        BY <2>9, <3>1, <4>2, <4>3
    <3>3. Whole(d)[Upto(d, n) + i] = Whole(b)[i]
      BY <3>2
    <3>. QED
      BY <3>1, <3>2, <3>3
  <2>11. ~(Len(d[m]) < Len(b[k]))
    <3>. SUFFICES ASSUME Len(d[m]) < Len(b[k]) PROVE FALSE
      OBVIOUS
    <3>1. PICK j : j = Len(d[m]) + 1
      OBVIOUS
    <3>2. j \in 1..Len(b[k]) /\ j \in 1..Len(b[k]) + 1 /\ Upto(d, m - 1) + j = Upto(d, m)
      <4>1. Upto(d, m - 1) \in Nat
        BY <2>6, LineOfDoc
      <4>2. Upto(d, m - 1) + (Len(d[m]) + 1) = Upto(d, m)
        BY <2>7, <2>8, <4>1
      <4>. QED
        BY <2>2, <2>8, <3>1, <4>2
    <3>3. Whole(b)[Upto(b, k - 1) + j] = NL
      BY <2>7, <2>10, <3>2
    <3>4. Whole(b)[Upto(b, k - 1) + j] = b[k][j] /\ b[k][j] # NL
      BY <2>1, <2>2, <3>2
    <3>. QED
      BY <3>3, <3>4
  <2>12. ~(Len(b[k]) < Len(d[m]))
    <3>. SUFFICES ASSUME Len(b[k]) < Len(d[m]) PROVE FALSE
      OBVIOUS
    <3>1. PICK j : j = Len(b[k]) + 1
      OBVIOUS
    <3>2. j \in 1..Len(d[m]) /\ j \in 1..Len(b[k]) + 1 /\ Upto(b, k - 1) + j = Upto(b, k)
      <4>1. Upto(b, k - 1) \in Nat
        BY <2>1
      <4>2. Upto(b, k - 1) + (Len(b[k]) + 1) = Upto(b, k)
        BY <2>1, <2>2, <4>1
      <4>. QED
        BY <2>2, <2>8, <3>1, <4>2
    <3>3. Whole(d)[Upto(d, m - 1) + j] = NL
      BY <2>1, <2>10, <3>2
    <3>4. Whole(d)[Upto(d, m - 1) + j] = d[m][j] /\ d[m][j] # NL
      BY <2>7, <2>8, <3>2
    <3>. QED
      BY <3>3, <3>4
  <2>13. Len(d[m]) = Len(b[k])
    BY <2>2, <2>8, <2>11, <2>12
  <2>14. ASSUME NEW j \in 1..Len(d[m]) PROVE d[m][j] = b[k][j]
    <3>1. j \in 1..Len(b[k]) /\ j \in 1..Len(b[k]) + 1
      BY <2>2, <2>13
    <3>. QED
      BY <2>1, <2>7, <2>10, <3>1
  <2>15. d[m] = b[k]
    BY <2>2, <2>8, <2>13, <2>14, SeqsEqual
  <2>16. Upto(d, m) = Upto(d, n) + Upto(b, k)
    BY <2>1, <2>2, <2>4, <2>7, <2>9, <2>13
  <2>. QED
    BY <2>3, <2>5, <2>15, <2>16
<1>. DEFINE G == {k \in 0..Len(b) : /\ n + k <= Len(d)
                                    /\ Upto(d, n + k) = Upto(d, n) + Upto(b, k)}
<1>3. 0 \in G
  BY <1>1
<1>4. ASSUME NEW k \in 1..Len(b), k - 1 \in G PROVE k \in G
  BY <1>2, <1>4
<1>5. \A k \in 0..Len(b) : k \in G
  <2>. HIDE DEF G
  <2>. QED
    BY <1>1, <1>3, <1>4, InductionUpTo
<1>6. n + Len(b) <= Len(d)
  <2>1. Len(b) \in G
    <3>. HIDE DEF G
    <3>. QED
      BY <1>1, <1>5
  <2>. QED
    BY <2>1
<1>7. \A k \in 1..Len(b) : d[n + k] = b[k]
  <2>1. TAKE k \in 1..Len(b)
  <2>2. k - 1 \in G
    <3>1. k - 1 \in 0..Len(b)
      BY <1>1
    <3>. HIDE DEF G
    <3>. QED
      BY <1>5, <3>1
  <2>3. n + (k - 1) <= Len(d) /\ Upto(d, n + (k - 1)) = Upto(d, n) + Upto(b, k - 1)
    BY <2>2
  <2>. QED
    BY <1>2, <2>3
<1>. QED
  BY <1>6, <1>7

-----------------------------------------------------------------------------
(* Blocks of lines, and their text, where they occur                       *)

LEMMA OccurrenceElements ==
    ASSUME NEW b, NEW t, IsSeq(b), IsSeq(t), NEW i
    PROVE  i \in Occurrences(b, t) <=>
             /\ i \in 1..Len(t) + 1 - Len(b)
             /\ \A j \in 1..Len(b) : t[(i - 1) + j] = b[j]
<1>1. Len(b) \in Nat /\ Len(t) \in Nat
  BY SeqIsFunction
<1>2. i \in Occurrences(b, t) <=>
        i \in 1..Len(t) + 1 - Len(b) /\ Part(t, i, i + Len(b) - 1) = b
  BY DEF Occurrences, Part
<1>. SUFFICES ASSUME i \in 1..Len(t) + 1 - Len(b)
              PROVE  Part(t, i, i + Len(b) - 1) = b
                       <=> \A j \in 1..Len(b) : t[(i - 1) + j] = b[j]
  BY <1>2
<1>. DEFINE n == i + Len(b) - 1
            q == Part(t, i, n)
<1>3. i \in 1..Len(t) + 1 /\ n \in 0..Len(t) /\ i <= n + 1 /\ n - i + 1 = Len(b)
  BY <1>1
<1>. HIDE DEF n
<1>4. IsSeq(q) /\ Len(q) = n - i + 1 /\ \A j \in 1..n - i + 1 : q[j] = t[i + j - 1]
  BY <1>3, SeqPart
<1>. HIDE DEF q
<1>5. \A j \in 1..Len(b) : q[j] = t[(i - 1) + j]
  <2>1. TAKE j \in 1..Len(b)
  <2>2. i + j - 1 = (i - 1) + j
    BY <1>1
  <2>. QED
    BY <1>3, <1>4, <2>2
<1>6. q = b <=> \A j \in 1..Len(b) : q[j] = b[j]
  BY <1>3, <1>4, SeqsEqual
<1>. QED
  BY <1>5, <1>6 DEF q, n

\* A sequence around an occurrence, and with the occurrence replaced.
LEMMA OccurrenceCut ==
    ASSUME NEW b, NEW t, IsSeq(b), IsSeq(t), NEW i \in Occurrences(b, t)
    PROVE  LET p == Part(t, 1, i - 1)
               s == Part(t, i + Len(b), Len(t))
           IN /\ IsSeq(p) /\ Len(p) = i - 1 /\ i - 1 \in 0..Len(t)
              /\ IsSeq(s) /\ i + Len(b) \in 1..Len(t) + 1
              /\ t = Cat(p, Cat(b, s))
              /\ \A r : ReplaceSubSeqAt(i, r, b, t) = Cat(Cat(p, r), s)
<1>. DEFINE p == Part(t, 1, i - 1)
            s == Part(t, i + Len(b), Len(t))
            rest == Part(t, i, Len(t))
<1>1. Len(b) \in Nat /\ Len(t) \in Nat
  BY SeqIsFunction
<1>2. i \in 1..Len(t) + 1 - Len(b) /\ \A j \in 1..Len(b) : t[(i - 1) + j] = b[j]
  BY OccurrenceElements
<1>3. i - 1 \in 0..Len(t) /\ 1 \in 1..Len(t) + 1 /\ 1 <= (i - 1) + 1 /\ (i - 1) + 1 = i
  BY <1>1, <1>2
<1>4. IsSeq(p) /\ Len(p) = i - 1 /\ \A j \in 1..i - 1 : p[j] = t[j]
  <2>1. /\ IsSeq(p) /\ Len(p) = (i - 1) - 1 + 1
        /\ \A j \in 1..(i - 1) - 1 + 1 : p[j] = t[1 + j - 1]
    BY <1>3, SeqPart
  <2>2. (i - 1) - 1 + 1 = i - 1 /\ \A j \in Int : 1 + j - 1 = j
    BY <1>3
  <2>. HIDE DEF p
  <2>. QED
    BY <2>1, <2>2
<1>5. /\ IsSeq(rest) /\ Len(rest) = Len(t) - (i - 1)
      /\ \A j \in 1..Len(t) - (i - 1) : rest[j] = t[(i - 1) + j]
      /\ t = Cat(p, rest)
  BY <1>3, SeqRest, SeqCut
<1>6. i + Len(b) \in 1..Len(t) + 1 /\ (i + Len(b) - 1) + 1 = i + Len(b) /\ i + Len(b) - 1 \in 0..Len(t)
  BY <1>1, <1>2
<1>7. /\ IsSeq(s) /\ Len(s) = Len(t) - (i + Len(b) - 1)
      /\ \A j \in 1..Len(t) - (i + Len(b) - 1) : s[j] = t[(i + Len(b) - 1) + j]
  <2>. DEFINE n == i + Len(b) - 1
  <2>1. n \in 0..Len(t) /\ n + 1 = i + Len(b)
    BY <1>6
  <2>. HIDE DEF n
  <2>2. /\ IsSeq(Part(t, n + 1, Len(t))) /\ Len(Part(t, n + 1, Len(t))) = Len(t) - n
        /\ \A j \in 1..Len(t) - n : Part(t, n + 1, Len(t))[j] = t[n + j]
    BY <2>1, SeqRest
  <2>. QED
    BY <2>1, <2>2 DEF n
<1>8. \A r : ReplaceSubSeqAt(i, r, b, t) = Cat(Cat(p, r), s)
  BY DEF ReplaceSubSeqAt, Cat, Part
<1>. HIDE DEF p, s, rest
<1>9. rest = Cat(b, s)
  <2>1. Len(rest) = Len(b) + Len(s)
    BY <1>1, <1>2, <1>5, <1>7
  <2>2. \A j \in 1..Len(b) : rest[j] = b[j]
    <3>1. TAKE j \in 1..Len(b)
    <3>2. j \in 1..Len(t) - (i - 1)
      BY <1>1, <1>2
    <3>. QED
      BY <1>2, <1>5, <3>2
  <2>3. \A j \in 1..Len(s) : rest[Len(b) + j] = s[j]
    <3>1. TAKE j \in 1..Len(s)
    <3>2. PICK k : k = Len(b) + j
      OBVIOUS
    <3>3. k \in 1..Len(t) - (i - 1) /\ (i - 1) + k = (i + Len(b) - 1) + j
      BY <1>1, <1>2, <1>7, <3>2
    <3>4. rest[k] = t[(i + Len(b) - 1) + j]
      BY <1>5, <3>3
    <3>. QED
      BY <1>7, <3>2, <3>4
  <2>. QED
    BY <1>5, <1>7, <2>1, <2>2, <2>3, SeqJoined
<1>. QED
  BY <1>3, <1>4, <1>5, <1>6, <1>7, <1>8, <1>9 DEF p, s

\* An occurrence of lines in a file: the file around it.
LEMMA LinesCut ==
    ASSUME NEW b, NEW d, IsDoc(b), IsDoc(d), NEW n \in Occurrences(b, d)
    PROVE  LET p == Part(d, 1, n - 1)
               s == Part(d, n + Len(b), Len(d))
           IN /\ IsDoc(p) /\ IsDoc(s) /\ Upto(d, n - 1) = Len(Whole(p))
              /\ n - 1 \in 0..Len(d)
              /\ Whole(d) = Cat(Whole(p), Cat(Whole(b), Whole(s)))
              /\ \A r : ReplaceSubSeqAt(n, r, b, d) = Cat(Cat(p, r), s)
<1>. DEFINE p == Part(d, 1, n - 1)
            s == Part(d, n + Len(b), Len(d))
<1>1. IsSeq(b) /\ Len(b) \in Nat /\ IsSeq(d) /\ Len(d) \in Nat
  BY EndedIsSeq
<1>2. /\ n - 1 \in 0..Len(d) /\ n + Len(b) \in 1..Len(d) + 1
      /\ d = Cat(p, Cat(b, s))
      /\ \A r : ReplaceSubSeqAt(n, r, b, d) = Cat(Cat(p, r), s)
  BY <1>1, OccurrenceCut
<1>3. IsDoc(p)
  <2>1. 1 \in 1..Len(d) + 1 /\ 1 <= (n - 1) + 1
    BY <1>1, <1>2
  <2>. QED
    BY <1>2, <2>1, DocPart
<1>4. IsDoc(s)
  <2>1. Len(d) \in 0..Len(d) /\ n + Len(b) <= Len(d) + 1
    BY <1>1, <1>2
  <2>. QED
    BY <1>2, <2>1, DocPart
<1>5. Upto(d, n - 1) = Len(Whole(p))
  BY DEF Upto
<1>. HIDE DEF p, s
<1>6. Whole(d) = Cat(Whole(p), Cat(Whole(b), Whole(s)))
  BY <1>2, <1>3, <1>4, DocConcat
<1>. QED
  BY <1>2, <1>3, <1>4, <1>5, <1>6 DEF p, s

\* The text of a file that has lines in it has their text where they start.
LEMMA TextOfLines ==
    ASSUME NEW b, NEW d, IsDoc(b), IsDoc(d), b # <<>>, d # <<>>, NEW n \in Occurrences(b, d)
    PROVE  Upto(d, n - 1) + 1 \in Occurrences(Join(b), Join(d))
<1>. DEFINE p == Part(d, 1, n - 1)
            s == Part(d, n + Len(b), Len(d))
            u == Upto(d, n - 1)
            old == Join(b)
            chars == Join(d)
            nl == <<NL>>
            tail == Cat(nl, Whole(s))
<1>1. /\ IsDoc(p) /\ IsDoc(s) /\ u = Len(Whole(p))
      /\ Whole(d) = Cat(Whole(p), Cat(Whole(b), Whole(s)))
  BY LinesCut
<1>2. /\ IsSeq(old) /\ Len(old) \in Nat /\ Cat(old, nl) = Whole(b)
      /\ IsSeq(chars) /\ Len(chars) \in Nat /\ Cat(chars, nl) = Whole(d)
  BY JoinWhole
<1>3. IsSeq(nl) /\ Len(nl) = 1
  BY SeqOne
<1>. HIDE DEF p, s, u, old, chars, nl
<1>4. /\ IsSeq(Whole(p)) /\ u \in Nat /\ IsSeq(Whole(s)) /\ Len(Whole(s)) \in Nat
      /\ Len(Whole(d)) \in Nat
  BY <1>1, EndedIsSeq
<1>5. IsSeq(tail) /\ Len(tail) = 1 + Len(Whole(s))
  BY <1>3, <1>4, SeqConcat
<1>6. Cat(Whole(b), Whole(s)) = Cat(old, tail)
  BY <1>2, <1>3, <1>4, SeqAssociative
<1>. HIDE DEF tail
<1>. DEFINE rest == Cat(old, tail)
<1>7. /\ IsSeq(rest) /\ Len(rest) = Len(old) + Len(tail)
      /\ \A i \in 1..Len(old) + Len(tail) :
            rest[i] = IF i <= Len(old) THEN old[i] ELSE tail[i - Len(old)]
  BY <1>2, <1>5, SeqConcat
<1>8. Whole(d) = Cat(Whole(p), rest)
  BY <1>1, <1>6
<1>. HIDE DEF rest
<1>9. /\ Len(Whole(d)) = u + Len(rest)
      /\ \A i \in 1..u + Len(rest) :
            Whole(d)[i] = IF i <= u THEN Whole(p)[i] ELSE rest[i - u]
  <2>. DEFINE w == Whole(p)
  <2>1. IsSeq(w) /\ IsSeq(rest)
    BY <1>4, <1>7
  <2>. HIDE DEF w
  <2>2. /\ Len(Cat(w, rest)) = Len(w) + Len(rest)
        /\ \A i \in 1..Len(w) + Len(rest) :
              Cat(w, rest)[i] = IF i <= Len(w) THEN w[i] ELSE rest[i - Len(w)]
    BY <2>1, SeqConcat
  <2>3. u = Len(w) /\ Whole(d) = Cat(w, rest)
    BY <1>1, <1>8 DEF w
  <2>. QED
    BY <2>2, <2>3 DEF w
<1>10. /\ Len(Whole(d)) = Len(chars) + 1
       /\ \A i \in 1..Len(chars) : Whole(d)[i] = chars[i]
  <2>1. /\ Len(Cat(chars, nl)) = Len(chars) + Len(nl)
        /\ \A i \in 1..Len(chars) + Len(nl) :
              Cat(chars, nl)[i] = IF i <= Len(chars) THEN chars[i] ELSE nl[i - Len(chars)]
    BY <1>2, <1>3, SeqConcat
  <2>. QED
    BY <1>2, <1>3, <2>1
<1>11. u + Len(old) <= Len(chars)
  BY <1>2, <1>4, <1>5, <1>7, <1>9, <1>10
<1>12. ASSUME NEW j \in 1..Len(old) PROVE chars[((u + 1) - 1) + j] = old[j]
  <2>1. PICK k : k = u + j
    OBVIOUS
  <2>2. /\ k \in 1..Len(chars) /\ k \in 1..u + Len(rest) /\ ~(k <= u) /\ k - u = j
        /\ ((u + 1) - 1) + j = k
    BY <1>2, <1>4, <1>5, <1>7, <1>11, <2>1
  <2>3. Whole(d)[k] = rest[j] /\ Whole(d)[k] = chars[k]
    BY <1>9, <1>10, <2>2
  <2>4. j \in 1..Len(old) + Len(tail) /\ j <= Len(old)
    BY <1>2, <1>4, <1>5
  <2>5. rest[j] = old[j]
    BY <1>7, <2>4
  <2>. QED
    BY <2>2, <2>3, <2>5
<1>13. u + 1 \in 1..Len(chars) + 1 - Len(old)
  BY <1>2, <1>4, <1>11
<1>14. u + 1 \in Occurrences(old, chars)
  BY <1>2, <1>12, <1>13, OccurrenceElements
<1>. QED
  BY <1>14 DEF u, old, chars

\* Text that is met on whole lines only is met where its lines are.
LEMMA LinesOfText ==
    ASSUME NEW b, NEW d, IsDoc(b), IsDoc(d), b # <<>>, d # <<>>,
           NEW i \in Occurrences(Join(b), Join(d)), OnWholeLines(Join(b), Join(d))
    PROVE  \E n \in Occurrences(b, d) : i = Upto(d, n - 1) + 1
<1>. DEFINE old == Join(b)
            chars == Join(d)
            nl == <<NL>>
<1>1. /\ IsSeq(old) /\ Len(old) \in Nat /\ Cat(old, nl) = Whole(b)
      /\ IsSeq(chars) /\ Len(chars) \in Nat /\ Cat(chars, nl) = Whole(d)
  BY JoinWhole
<1>2. IsSeq(nl) /\ Len(nl) = 1 /\ nl[1] = NL
  BY SeqOne
<1>3. /\ i = 1 \/ chars[i - 1] = NL
      /\ i + Len(old) > Len(chars) \/ chars[i + Len(old)] = NL
  BY DEF OnWholeLines
<1>. HIDE DEF old, chars, nl
<1>4. /\ i \in 1..Len(chars) + 1 - Len(old)
      /\ \A j \in 1..Len(old) : chars[(i - 1) + j] = old[j]
  <2>1. i \in Occurrences(old, chars)
    BY DEF old, chars
  <2>. QED
    BY <1>1, <2>1, OccurrenceElements
<1>5. /\ Len(Whole(d)) = Len(chars) + 1
      /\ \A j \in 1..Len(chars) : Whole(d)[j] = chars[j]
      /\ Whole(d)[Len(chars) + 1] = NL
  <2>1. /\ Len(Whole(d)) = Len(chars) + Len(nl)
        /\ \A j \in 1..Len(chars) + Len(nl) :
              Whole(d)[j] = IF j <= Len(chars) THEN chars[j] ELSE nl[j - Len(chars)]
    BY <1>1, <1>2, SeqConcat
  <2>2. Whole(d)[Len(chars) + 1] = nl[(Len(chars) + 1) - Len(chars)]
    BY <1>1, <1>2, <2>1
  <2>. QED
    BY <1>1, <1>2, <2>1, <2>2
<1>6. /\ Len(Whole(b)) = Len(old) + 1
      /\ \A j \in 1..Len(old) : Whole(b)[j] = old[j]
      /\ Whole(b)[Len(old) + 1] = NL
  <2>1. /\ Len(Whole(b)) = Len(old) + Len(nl)
        /\ \A j \in 1..Len(old) + Len(nl) :
              Whole(b)[j] = IF j <= Len(old) THEN old[j] ELSE nl[j - Len(old)]
    BY <1>1, <1>2, SeqConcat
  <2>2. Whole(b)[Len(old) + 1] = nl[(Len(old) + 1) - Len(old)]
    BY <1>1, <1>2, <2>1
  <2>. QED
    BY <1>1, <1>2, <2>1, <2>2
<1>7. PICK k : k = i - 1
  OBVIOUS
<1>8. k \in 0..Len(Whole(d)) /\ i = k + 1 /\ k + Len(old) <= Len(chars) /\ k \in Nat
  BY <1>1, <1>4, <1>5, <1>7
<1>9. k = 0 \/ Whole(d)[k] = NL
  <2>. SUFFICES ASSUME k # 0 PROVE Whole(d)[k] = NL
    OBVIOUS
  <2>1. k \in 1..Len(chars) /\ chars[k] = NL
    BY <1>1, <1>3, <1>7, <1>8
  <2>. QED
    BY <1>5, <2>1
<1>10. PICK m \in 0..Len(d) : k = Upto(d, m)
  BY <1>8, <1>9, CutAtLine
<1>11. k + Len(Whole(b)) <= Len(Whole(d))
  BY <1>1, <1>5, <1>6, <1>8
<1>12. ASSUME NEW j \in 1..Len(Whole(b)) PROVE Whole(d)[k + j] = Whole(b)[j]
  <2>1. CASE j <= Len(old)
    <3>1. j \in 1..Len(old) /\ k + j \in 1..Len(chars)
      BY <1>1, <1>6, <1>8, <2>1
    <3>. QED
      BY <1>4, <1>5, <1>6, <1>7, <3>1
  <2>2. CASE ~(j <= Len(old))
    <3>1. PICK e : e = k + j
      OBVIOUS
    <3>2. j = Len(old) + 1 /\ e = i + Len(old)
      BY <1>1, <1>6, <1>8, <2>2, <3>1
    <3>3. Whole(d)[e] = NL
      <4>1. CASE e > Len(chars)
        <5>1. e = Len(chars) + 1
          BY <1>1, <1>8, <3>1, <3>2, <4>1
        <5>. QED
          BY <1>5, <5>1
      <4>2. CASE ~(e > Len(chars))
        <5>1. e \in 1..Len(chars) /\ chars[e] = NL
          BY <1>1, <1>3, <1>8, <3>2, <4>2
        <5>. QED
          BY <1>5, <5>1
      <4>. QED
        BY <4>1, <4>2
    <3>. QED
      BY <1>6, <3>1, <3>2, <3>3
  <2>. QED
    BY <2>1, <2>2
<1>13. m + Len(b) <= Len(d) /\ \A j \in 1..Len(b) : d[m + j] = b[j]
  BY <1>10, <1>11, <1>12, BlockAtLine
<1>14. IsSeq(b) /\ Len(b) \in Nat /\ IsSeq(d) /\ Len(d) \in Nat
  BY EndedIsSeq
<1>15. PICK n : n = m + 1
  OBVIOUS
<1>16. n \in 1..Len(d) + 1 - Len(b) /\ n - 1 = m
  BY <1>13, <1>14, <1>15
<1>17. n \in Occurrences(b, d)
  BY <1>13, <1>14, <1>16, OccurrenceElements
<1>. QED
  BY <1>8, <1>10, <1>16, <1>17

\* Replacing the text of lines is replacing the lines.
LEMMA TextReplaced ==
    ASSUME NEW a, NEW b, NEW d, IsDoc(a), IsDoc(b), IsDoc(d), a # <<>>, b # <<>>, d # <<>>,
           NEW n \in Occurrences(b, d)
    PROVE  LET e == ReplaceSubSeqAt(n, a, b, d)
           IN /\ IsDoc(e) /\ e # <<>>
              /\ ReplaceSubSeqAt(Upto(d, n - 1) + 1, Join(a), Join(b), Join(d)) = Join(e)
<1>. DEFINE p == Part(d, 1, n - 1)
            s == Part(d, n + Len(b), Len(d))
            u == Upto(d, n - 1)
            old == Join(b)
            new == Join(a)
            chars == Join(d)
            nl == <<NL>>
            i == u + 1
            x == Part(chars, 1, i - 1)
            y == Part(chars, i + Len(old), Len(chars))
            e == ReplaceSubSeqAt(n, a, b, d)
            chars2 == ReplaceSubSeqAt(i, new, old, chars)
<1>1. /\ IsDoc(p) /\ IsDoc(s) /\ u = Len(Whole(p))
      /\ Whole(d) = Cat(Whole(p), Cat(Whole(b), Whole(s)))
      /\ e = Cat(Cat(p, a), s)
  BY LinesCut
<1>2. /\ IsSeq(old) /\ Cat(old, nl) = Whole(b)
      /\ IsSeq(new) /\ Cat(new, nl) = Whole(a)
      /\ IsSeq(chars) /\ Cat(chars, nl) = Whole(d)
  BY JoinWhole
<1>3. IsSeq(nl)
  BY SeqOne
<1>4. i \in Occurrences(old, chars)
  BY TextOfLines
<1>. HIDE DEF p, s, u, old, new, chars, nl, e
<1>5. /\ IsSeq(x) /\ Len(x) = i - 1 /\ IsSeq(y)
      /\ chars = Cat(x, Cat(old, y))
      /\ chars2 = Cat(Cat(x, new), y)
  <2>. HIDE DEF i
  <2>. QED
    BY <1>2, <1>4, OccurrenceCut
<1>6. IsSeq(Whole(p)) /\ u \in Nat /\ IsSeq(Whole(s)) /\ IsSeq(Whole(a))
  BY <1>1, EndedIsSeq
<1>. HIDE DEF x, y, chars2
<1>. DEFINE yn == Cat(y, nl)
            ns == Cat(nl, Whole(s))
<1>7. IsSeq(yn) /\ IsSeq(ns) /\ IsSeq(Cat(old, y)) /\ IsSeq(Cat(x, new))
  BY <1>2, <1>3, <1>5, <1>6, SeqConcat
<1>8. Whole(d) = Cat(x, Cat(old, yn))
  BY <1>2, <1>3, <1>5, <1>7, SeqAssociative
<1>9. Whole(d) = Cat(Whole(p), Cat(old, ns))
  BY <1>1, <1>2, <1>3, <1>6, SeqAssociative
<1>. HIDE DEF yn, ns
<1>10. IsSeq(Cat(old, yn)) /\ IsSeq(Cat(old, ns)) /\ Len(x) = Len(Whole(p))
  BY <1>1, <1>2, <1>5, <1>6, <1>7, SeqConcat
<1>11. x = Whole(p) /\ Cat(old, yn) = Cat(old, ns)
  <2>1. Cat(x, Cat(old, yn)) = Cat(Whole(p), Cat(old, ns))
    BY <1>8, <1>9
  <2>. QED
    BY <1>5, <1>6, <1>10, <2>1, SeqCancel
<1>12. yn = ns
  BY <1>2, <1>7, <1>11, SeqCancel
<1>13. Cat(chars2, nl) = Cat(Whole(p), Cat(Whole(a), Whole(s)))
  <2>1. Cat(chars2, nl) = Cat(Cat(x, new), yn)
    BY <1>3, <1>5, <1>7, SeqAssociative DEF yn
  <2>2. Cat(Cat(x, new), ns) = Cat(x, Cat(new, ns))
    BY <1>2, <1>5, <1>7, SeqAssociative
  <2>3. Cat(new, ns) = Cat(Cat(new, nl), Whole(s))
    BY <1>2, <1>3, <1>6, SeqAssociative DEF ns
  <2>. QED
    BY <1>2, <1>11, <1>12, <2>1, <2>2, <2>3
<1>14. IsDoc(e) /\ Whole(e) = Cat(Whole(p), Cat(Whole(a), Whole(s)))
  <2>1. /\ IsDoc(Cat(p, a)) /\ Whole(Cat(p, a)) = Cat(Whole(p), Whole(a))
    BY <1>1, DocConcat
  <2>2. /\ IsDoc(e) /\ Whole(e) = Cat(Cat(Whole(p), Whole(a)), Whole(s))
    BY <1>1, <2>1, DocConcat
  <2>. QED
    BY <1>6, <2>2, SeqAssociative
<1>15. e # <<>>
  <2>1. IsSeq(a) /\ Len(a) \in Nat /\ Len(a) # 0 /\ IsSeq(p) /\ IsSeq(s) /\ Len(p) \in Nat /\ Len(s) \in Nat
    BY <1>1, EndedIsSeq, SeqEmpty
  <2>2. IsSeq(Cat(p, a)) /\ Len(Cat(p, a)) = Len(p) + Len(a)
    BY <2>1, SeqConcat
  <2>3. Len(e) = Len(p) + Len(a) + Len(s)
    BY <1>1, <2>1, <2>2, SeqConcat
  <2>4. Len(e) # 0
    BY <2>1, <2>3
  <2>. QED
    BY <2>4, SeqEmpty
<1>16. IsSeq(Join(e)) /\ Cat(Join(e), nl) = Whole(e)
  BY <1>14, <1>15, JoinWhole DEF nl
<1>17. IsSeq(chars2)
  BY <1>5, <1>7, SeqConcat
<1>18. chars2 = Join(e)
  BY <1>13, <1>14, <1>16, <1>17, JoinCancel DEF nl
<1>. QED
  BY <1>14, <1>15, <1>18 DEF e, chars2, i, u, new, old, chars

LEMMA FirstIsLeast ==
    ASSUME NEW S \in SUBSET Nat, S # {}
    PROVE  First(S) \in S /\ \A j \in S : First(S) <= j
<1>1. \E i \in S : \A j \in S : i <= j
  BY LeastElement
<1>. QED
  BY <1>1 DEF First

LEMMA OccurrencesAreNaturals ==
    ASSUME NEW b, NEW t, IsSeq(b), IsSeq(t)
    PROVE  Occurrences(b, t) \in SUBSET Nat
<1>1. Len(b) \in Nat /\ Len(t) \in Nat
  BY SeqIsFunction
<1>. QED
  BY <1>1 DEF Occurrences

\* Text that is met on whole lines only: the text is met when the lines are, and
\* replacing it where it is first met replaces the lines where they are first met.
LEMMA FirstReplaced ==
    ASSUME NEW a, NEW b, NEW d, IsDoc(a), IsDoc(b), IsDoc(d), a # <<>>, b # <<>>, d # <<>>,
           OnWholeLines(Join(b), Join(d))
    PROVE  LET at == Occurrences(Join(b), Join(d))
               e == ReplaceSubSeqAt(First(Occurrences(b, d)), a, b, d)
           IN /\ at = {} <=> Occurrences(b, d) = {}
              /\ at # {} => /\ IsDoc(e) /\ e # <<>>
                            /\ ReplaceSubSeqAt(First(at), Join(a), Join(b), Join(d)) = Join(e)
<1>. DEFINE at == Occurrences(Join(b), Join(d))
            on == Occurrences(b, d)
            n == First(on)
            i == First(at)
            e == ReplaceSubSeqAt(n, a, b, d)
<1>1. \A m \in on : Upto(d, m - 1) + 1 \in at
  BY TextOfLines
<1>2. \A k \in at : \E m \in on : k = Upto(d, m - 1) + 1
  BY LinesOfText
<1>3. IsSeq(b) /\ IsSeq(d) /\ IsSeq(Join(b)) /\ IsSeq(Join(d))
  BY EndedIsSeq, JoinWhole
<1>4. at \in SUBSET Nat /\ on \in SUBSET Nat
  BY <1>3, OccurrencesAreNaturals
<1>5. \A m \in on : m - 1 \in 0..Len(d)
  BY LinesCut
<1>. HIDE DEF at, on
<1>6. at = {} <=> on = {}
  BY <1>1, <1>2
<1>7. ASSUME at # {}
      PROVE  i = Upto(d, n - 1) + 1 /\ n \in on
  <2>1. /\ i \in at /\ \A k \in at : i <= k
        /\ n \in on /\ \A m \in on : n <= m
    BY <1>4, <1>6, <1>7, FirstIsLeast
  <2>2. PICK m \in on : i = Upto(d, m - 1) + 1
    BY <1>2, <2>1
  <2>. HIDE DEF n, i
  <2>3. n <= m /\ n \in Nat /\ m \in Nat
    BY <1>4, <2>1
  <2>4. ~(n < m)
    <3>. SUFFICES ASSUME n < m PROVE FALSE
      OBVIOUS
    <3>1. n - 1 \in 0..Len(d) /\ m - 1 \in 0..Len(d) /\ n - 1 < m - 1
      BY <1>5, <2>1, <2>3
    <3>2. Upto(d, n - 1) < Upto(d, m - 1)
      BY <3>1, UptoGrows
    <3>3. i <= Upto(d, n - 1) + 1
      BY <1>1, <2>1
    <3>4. Upto(d, n - 1) \in Nat /\ Upto(d, m - 1) \in Nat
      BY <3>1, UptoEnds
    <3>. QED
      BY <2>2, <3>2, <3>3, <3>4
  <2>5. n = m
    BY <2>3, <2>4
  <2>. QED
    BY <2>1, <2>2, <2>5
<1>8. ASSUME at # {}
      PROVE  /\ IsDoc(e) /\ e # <<>>
             /\ ReplaceSubSeqAt(i, Join(a), Join(b), Join(d)) = Join(e)
  <2>1. n \in Occurrences(b, d) /\ i = Upto(d, n - 1) + 1
    BY <1>7, <1>8 DEF on
  <2>. HIDE DEF n, i
  <2>2. /\ IsDoc(e) /\ e # <<>>
        /\ ReplaceSubSeqAt(Upto(d, n - 1) + 1, Join(a), Join(b), Join(d)) = Join(e)
    BY <2>1, TextReplaced
  <2>. QED
    BY <2>1, <2>2
<1>. QED
  BY <1>6, <1>8 DEF at, on

\* Lines added at the end of a file, and their text after its text.
LEMMA TextAppended ==
    ASSUME NEW a, NEW d, IsDoc(a), IsDoc(d), a # <<>>, d # <<>>
    PROVE  LET e == (IF Last(d) = <<>> THEN Front(d) ELSE d) \o a
           IN /\ IsDoc(e) /\ e # <<>>
              /\ Join(d) \o Separator(Join(d)) \o Join(a) = Join(e)
<1>. DEFINE n == Len(d)
            f == Part(d, 1, n - 1)
            t == d[n]
            g == IF t = <<>> THEN f ELSE d
            e == Cat(g, a)
            nl == <<NL>>
            chars == Join(d)
            sep == Separator(chars)
            new == Join(a)
<1>1. /\ IsSeq(d) /\ n \in Nat /\ n # 0 /\ IsSeq(a) /\ Len(a) \in Nat /\ Len(a) # 0
  BY EndedIsSeq, SeqEmpty
<1>2. IsDoc(f) /\ IsLine(t)
  <2>1. IsLine(t)
    BY <1>1 DEF IsDoc
  <2>2. 1 \in 1..n + 1 /\ n - 1 \in 0..n /\ 1 <= (n - 1) + 1
    BY <1>1
  <2>. HIDE DEF t
  <2>3. IsDoc(f)
    BY <2>2, DocPart
  <2>. QED
    BY <2>1, <2>3
<1>3. d = Cat(f, <<t>>)
  <2>1. n \in 1..n
    BY <1>1
  <2>2. Part(d, 1, n) = Cat(Part(d, 1, n - 1), <<d[n]>>)
    BY <1>1, <2>1, SeqUpTo
  <2>. QED
    BY <1>1, <2>2, SeqWhole
<1>4. /\ IsSeq(chars) /\ Len(chars) \in Nat /\ Cat(chars, nl) = Whole(d)
      /\ IsSeq(new) /\ Cat(new, nl) = Whole(a)
  BY JoinWhole
<1>5. IsSeq(nl)
  BY SeqOne
<1>6. IsSeq(t) /\ Len(t) \in Nat /\ \A j \in 1..Len(t) : t[j] # NL
  BY <1>2, LineChars
<1>7. sep = IF chars = <<>> \/ chars[Len(chars)] = NL THEN <<>> ELSE nl
  BY DEF Separator, Last
<1>. HIDE DEF f, t, chars, new, sep
<1>8. Whole(d) = Cat(Whole(f), Cat(t, nl)) /\ IsSeq(Whole(f)) /\ Len(Whole(f)) \in Nat
  BY <1>2, <1>3, DocOne, DocConcat, EndedIsSeq
<1>. HIDE DEF nl
<1>9. chars = Cat(Whole(f), t)
  <2>1. Cat(Cat(Whole(f), t), nl) = Cat(chars, nl) /\ IsSeq(Cat(Whole(f), t))
    BY <1>4, <1>5, <1>6, <1>8, SeqAssociative, SeqConcat
  <2>. QED
    BY <1>4, <2>1, JoinCancel DEF nl
<1>10. IsDoc(g) /\ Cat(chars, sep) = Whole(g)
  <2>1. CASE t = <<>>
    <3>1. chars = Whole(f)
      BY <1>8, <1>9, <2>1, SeqUnit
    <3>2. chars = <<>> \/ chars[Len(chars)] = NL
      <4>1. IsSeq(f) /\ Len(f) \in Nat /\ Upto(f, Len(f)) = Len(Whole(f))
        BY <1>2, EndedIsSeq, UptoEnds
      <4>2. CASE Len(f) = 0
        <5>1. f = <<>>
          BY <4>1, <4>2, SeqEmpty
        <5>. QED
          BY <3>1, <5>1, DocEmpty
      <4>3. CASE Len(f) # 0
        <5>1. Len(f) \in 1..Len(f)
          BY <4>1, <4>3
        <5>2. Whole(f)[Upto(f, Len(f))] = NL
          BY <1>2, <5>1, LineOfDoc
        <5>. QED
          BY <3>1, <4>1, <5>2
      <4>. QED
        BY <4>2, <4>3
    <3>3. Cat(chars, sep) = chars
      BY <1>4, <1>7, <3>2, SeqUnit
    <3>. QED
      BY <1>2, <2>1, <3>1, <3>3
  <2>2. CASE t # <<>>
    <3>1. Len(t) # 0
      BY <1>6, <2>2, SeqEmpty
    <3>2. /\ Len(chars) = Len(Whole(f)) + Len(t)
          /\ \A i \in 1..Len(Whole(f)) + Len(t) :
                chars[i] = IF i <= Len(Whole(f)) THEN Whole(f)[i] ELSE t[i - Len(Whole(f))]
      BY <1>6, <1>8, <1>9, SeqConcat
    <3>3. /\ Len(chars) \in 1..Len(Whole(f)) + Len(t) /\ ~(Len(chars) <= Len(Whole(f)))
          /\ Len(chars) - Len(Whole(f)) = Len(t) /\ Len(t) \in 1..Len(t)
      BY <1>6, <1>8, <3>1, <3>2
    <3>4. chars[Len(chars)] = t[Len(t)] /\ t[Len(t)] # NL
      BY <1>6, <3>2, <3>3
    <3>5. chars # <<>>
      BY <1>6, <1>8, <3>3, SeqEmpty
    <3>. QED
      BY <1>4, <1>7, <2>2, <3>4, <3>5
  <2>. QED
    BY <2>1, <2>2
<1>11. IsSeq(sep)
  BY <1>5, <1>7, SeqEmpty
<1>. HIDE DEF g
<1>12. IsDoc(e) /\ Whole(e) = Cat(Whole(g), Whole(a))
  BY <1>10, DocConcat
<1>13. e # <<>>
  <2>1. IsSeq(g) /\ Len(g) \in Nat
    BY <1>10, EndedIsSeq
  <2>2. Len(e) = Len(g) + Len(a)
    BY <1>1, <2>1, SeqConcat
  <2>3. Len(e) # 0
    BY <1>1, <2>1, <2>2
  <2>. QED
    BY <2>3, SeqEmpty
<1>. DEFINE chars2 == Cat(Cat(chars, sep), new)
<1>14. IsSeq(Cat(chars, sep)) /\ IsSeq(chars2)
  BY <1>4, <1>11, SeqConcat
<1>15. Cat(chars2, nl) = Whole(e)
  <2>1. Cat(chars2, nl) = Cat(Cat(chars, sep), Cat(new, nl))
    BY <1>4, <1>5, <1>14, SeqAssociative
  <2>. QED
    BY <1>4, <1>10, <1>12, <2>1
<1>16. IsSeq(Join(e)) /\ Cat(Join(e), nl) = Whole(e)
  <2>. HIDE DEF e
  <2>. QED
    BY <1>12, <1>13, JoinWhole DEF nl
<1>17. chars2 = Join(e)
  <2>. HIDE DEF chars2, e
  <2>. QED
    BY <1>14, <1>15, <1>16, JoinCancel DEF nl
<1>18. chars2 = Join(d) \o Separator(Join(d)) \o Join(a)
  BY DEF Cat, chars, sep, new
<1>19. e = (IF Last(d) = <<>> THEN Front(d) ELSE d) \o a
  BY DEF Cat, g, f, t, Part, Last, Front
<1>. QED
  BY <1>12, <1>13, <1>17, <1>18, <1>19

-----------------------------------------------------------------------------
(* Applying hunks                                                          *)

\* While every hunk was one that apply_hunks is meant for, the text is the file's.
TextOK ==
    clear => /\ phase \in {"applying", "applied"} => IsDoc(doc) /\ doc # <<>> /\ text = Join(doc)
             /\ phase = "no_context" => doc = <<>>

IInv == OpsOK /\ TextOK

LEMMA FilesAreDocs ==
    ASSUME NEW f \in Files
    PROVE  IsDoc(f) /\ f # <<>>
<1>1. IsSeq(f) /\ f # <<>> /\ \A t \in ToSet(f) : IsLine(t)
  BY PatchAssumption DEF IsSeq
<1>2. DOMAIN f = 1..Len(f)
  BY <1>1, SeqIsFunction
<1>3. \A i \in 1..Len(f) : f[i] \in ToSet(f)
  BY <1>2 DEF ToSet
<1>. QED
  BY <1>1, <1>3 DEF IsDoc

LEMMA BlocksAreDocs ==
    ASSUME NEW h \in SortedHunk, OneGroup(h)
    PROVE  /\ IsDoc(Before(h)) /\ IsDoc(After(h))
           /\ OldLines(h) = Before(h) /\ NewLines(h) = After(h)
<1>1. h \in Hunk /\ OldLines(h) = Before(h) /\ NewLines(h) = After(h)
  BY DEF SortedHunk, Sorted
<1>2. /\ h.before \in Seq(Texts) /\ h.removed \in Seq(Texts) /\ h.added \in Seq(Texts)
      /\ h.after \in Seq(Texts)
  BY <1>1 DEF Hunk
<1>3. OldLines(h) \in Seq(Texts) /\ NewLines(h) \in Seq(Texts)
  BY <1>2 DEF OldLines, NewLines
<1>4. \A s \in Seq(Texts) : IsDoc(s)
  <2>1. TAKE s \in Seq(Texts)
  <2>2. IsSeq(s) /\ \A i \in 1..Len(s) : s[i] \in Texts
    BY SeqOfSet
  <2>. QED
    BY <2>2, PatchAssumption DEF IsDoc
<1>. QED
  BY <1>1, <1>3, <1>4

LEMMA TextOKApplyHunk ==
    ASSUME IInv, ApplyHunk, clear'
    PROVE  /\ phase' = "applying" => IsDoc(doc') /\ doc' # <<>> /\ text' = Join(doc')
           /\ phase' \in {"applying", "no_context"}
           /\ phase' = "no_context" => doc' = <<>>
<1>. DEFINE h == Head(todo)
            b == Before(h)
            a == After(h)
            old == Join(OldLines(h))
            new == Join(NewLines(h))
            at == Occurrences(old, text)
<1>1. /\ phase = "applying" /\ todo # <<>>
      /\ IF old = <<>>
         THEN text' = text \o Separator(text) \o new /\ UNCHANGED phase
         ELSE IF at = {}
         THEN phase' = "no_context" /\ UNCHANGED text
         ELSE text' = ReplaceSubSeqAt(First(at), new, old, text) /\ UNCHANGED phase
      /\ clear' = (clear /\ Plain(h, text))
      /\ doc' = IF clear' /\ Matches(h, doc) THEN Edited(h, doc) ELSE <<>>
  BY DEF ApplyHunk
<1>2. h \in SortedHunk
  BY <1>1 DEF IInv, OpsOK
<1>3. clear /\ Plain(h, text)
  BY <1>1
<1>. HIDE DEF h
<1>4. IsDoc(doc) /\ doc # <<>> /\ text = Join(doc)
  BY <1>1, <1>3 DEF IInv, TextOK
<1>5. OneGroup(h) /\ a # <<>> /\ (b = <<>> \/ (Join(b) # <<>> /\ OnWholeLines(Join(b), text)))
  BY <1>3 DEF Plain
<1>6. IsDoc(b) /\ IsDoc(a) /\ old = Join(b) /\ new = Join(a)
  BY <1>2, <1>5, BlocksAreDocs
<1>. HIDE DEF a, b, old, new, at
<1>7. CASE b = <<>>
  <2>1. old = <<>>
    BY <1>6, <1>7, DocEmpty
  <2>2. doc' = (IF Last(doc) = <<>> THEN Front(doc) ELSE doc) \o a
    BY <1>1, <1>7 DEF Matches, Edited, a, b
  <2>3. text' = Join(doc) \o Separator(Join(doc)) \o Join(a) /\ phase' = "applying"
    BY <1>1, <1>4, <1>6, <2>1
  <2>. DEFINE e == (IF Last(doc) = <<>> THEN Front(doc) ELSE doc) \o a
  <2>4. IsDoc(e) /\ e # <<>> /\ Join(doc) \o Separator(Join(doc)) \o Join(a) = Join(e)
    BY <1>4, <1>5, <1>6, TextAppended
  <2>. HIDE DEF e
  <2>5. doc' = e
    BY <2>2 DEF e
  <2>. QED
    BY <2>3, <2>4, <2>5
<1>8. CASE b # <<>>
  <2>1. old # <<>> /\ OnWholeLines(Join(b), Join(doc))
    BY <1>4, <1>5, <1>6, <1>8
  <2>. DEFINE on == Occurrences(b, doc)
              e == ReplaceSubSeqAt(First(on), a, b, doc)
  <2>2. at = Occurrences(Join(b), Join(doc))
    BY <1>4, <1>6 DEF at
  <2>3. /\ at = {} <=> on = {}
        /\ at # {} => /\ IsDoc(e) /\ e # <<>>
                      /\ ReplaceSubSeqAt(First(at), Join(a), Join(b), Join(doc)) = Join(e)
    BY <1>4, <1>5, <1>6, <1>8, <2>1, <2>2, FirstReplaced
  <2>4. Matches(h, doc) <=> on # {}
    BY <1>8 DEF Matches, b
  <2>5. on # {} => doc' = e
    BY <1>1, <1>8, <2>4 DEF Edited, a, b
  <2>6. on = {} => doc' = <<>>
    BY <1>1, <2>4
  <2>. HIDE DEF on, e
  <2>7. CASE at = {}
    BY <1>1, <2>1, <2>3, <2>6, <2>7
  <2>8. CASE at # {}
    <3>1. text' = ReplaceSubSeqAt(First(at), Join(a), Join(b), Join(doc)) /\ phase' = "applying"
      BY <1>1, <1>4, <1>6, <2>1, <2>8
    <3>. QED
      BY <2>3, <2>5, <2>8, <3>1
  <2>. QED
    BY <2>7, <2>8
<1>. QED
  BY <1>7, <1>8

LEMMA IInvInit == Init => IInv
<1>. SUFFICES ASSUME Init PROVE IInv
  OBVIOUS
<1>1. OpsOK
  BY OpsOKInit
<1>2. TextOK
  BY DEF Init, TextOK
<1>. QED
  BY <1>1, <1>2 DEF IInv

LEMMA IInvNext == IInv /\ [Next]_vars => IInv'
<1>. SUFFICES ASSUME IInv, [Next]_vars PROVE IInv'
  OBVIOUS
<1>1. OpsOK'
  BY OpsOKNext DEF IInv
<1>2. TextOK
  BY DEF IInv
<1>3. TextOK'
  <2>1. CASE Envelope
    BY <2>1 DEF TextOK, Envelope
  <2>2. CASE End
    BY <2>2 DEF TextOK, End
  <2>3. CASE ReadLine
    <3>1. phase' \in {"parsing", "parse_error"}
      BY <2>3 DEF ReadLine
    <3>. QED
      BY <3>1 DEF TextOK
  <2>4. CASE Open
    <3>1. PICK f \in Files : doc' = f /\ text' = Join(f)
      BY <2>4 DEF Open
    <3>2. IsDoc(doc') /\ doc' # <<>> /\ text' = Join(doc') /\ phase' = "applying"
      BY <2>4, <3>1, FilesAreDocs DEF Open
    <3>. QED
      BY <3>2 DEF TextOK
  <2>5. CASE ApplyHunk
    <3>. SUFFICES ASSUME clear'
                  PROVE  /\ phase' \in {"applying", "applied"} =>
                              IsDoc(doc') /\ doc' # <<>> /\ text' = Join(doc')
                         /\ phase' = "no_context" => doc' = <<>>
      BY DEF TextOK
    <3>1. /\ phase' = "applying" => IsDoc(doc') /\ doc' # <<>> /\ text' = Join(doc')
          /\ phase' \in {"applying", "no_context"}
          /\ phase' = "no_context" => doc' = <<>>
      BY <2>5, TextOKApplyHunk
    <3>. QED
      BY <3>1
  <2>6. CASE Done
    BY <1>2, <2>6 DEF TextOK, Done
  <2>7. CASE UNCHANGED vars
    BY <1>2, <2>7 DEF TextOK, vars
  <2>. QED
    BY <2>1, <2>2, <2>3, <2>4, <2>5, <2>6, <2>7 DEF Next
<1>. QED
  BY <1>1, <1>3 DEF IInv

\* apply_hunks, which looks for a joined block of characters and replaces its first
\* occurrence, edits the lines of the file as the envelope describes it, and fails
\* where they do not match, for any file, any lines and any number of hunks of the
\* kind that Plain describes.
THEOREM WholeLinesEdited == Spec => []EditsWholeLines
<1>1. Spec => []IInv
  BY IInvInit, IInvNext, PTL DEF Spec
<1>2. IInv => EditsWholeLines
  BY DEF IInv, TextOK, EditsWholeLines
<1>. QED
  BY <1>1, <1>2, PTL

=============================================================================
