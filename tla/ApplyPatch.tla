----------------------------- MODULE ApplyPatch -----------------------------
(***************************************************************************)
(* The patch envelope of apply_patch.py: parse_patch, which reads it line  *)
(* by line into operations and hunks, and apply_hunks, which edits the     *)
(* text of one file hunk by hunk.                                          *)
(*                                                                         *)
(* A line is a kind, told by its first characters, and the text that       *)
(* follows them; a text is a sequence of characters.  The scanner's input  *)
(* is chosen as it is read.  Next to the fields that the code keeps, a     *)
(* hunk remembers its lines in the order of the envelope (src), and doc is *)
(* the file edited line by line, as the envelope describes it.             *)
(***************************************************************************)
EXTENDS Naturals, Sequences, SequencesExt

CONSTANTS Texts,    \* what may follow the marker of a hunk line
          Files,    \* the files patched, each a sequence of lines
          NL,       \* the newline character
          MaxLines  \* bound: lines between Begin and End

\* What str.splitlines leaves of an envelope, and splitting a file at its newlines.
IsLine(t) == t \in Seq(ToSet(t)) /\ NL \notin ToSet(t)

ASSUME PatchAssumption ==
    /\ <<>> \in Texts /\ MaxLines \in Nat
    /\ \A t \in Texts : IsLine(t)
    /\ \A f \in Files : f # <<>> /\ f \in Seq(ToSet(f)) /\ \A t \in ToSet(f) : IsLine(t)

VARIABLES
    phase,    \* "envelope", "parsing", "parsed", "applying", "applied", or an error
    section,  \* the header whose body is being read
    ops,      \* the operations found so far
    lines,    \* number of lines read
    todo,     \* hunks of the update not yet applied
    text,     \* the file's text in apply_hunks
    doc,      \* the file as a list of lines (history)
    clear     \* every hunk so far was one apply_hunks is meant for (history)

vars == <<phase, section, ops, lines, todo, text, doc, clear>>

Headers == {"add", "update", "delete"}
HunkKinds == {"plus", "minus", "space"}
LineKinds == Headers \cup {"stars", "at", "other"} \cup HunkKinds
Line == [kind : HunkKinds, text : Texts] \cup [kind : LineKinds \ HunkKinds, text : {<<>>}]
Errors == {"parse_error", "no_context"}

TypeOK ==
    /\ phase \in {"envelope", "parsing", "parsed", "applying", "applied"} \cup Errors
    /\ section \in {"none", "add", "update"}
    /\ \A i \in 1..Len(ops) :
           /\ ops[i].kind \in Headers
           /\ ops[i].kind # "update" => ops[i].hunks = <<>>
           /\ ops[i].kind # "add" => ops[i].body = <<>>
    /\ section # "none" => Last(ops).kind = section
    /\ lines \in 0..MaxLines

Init ==
    /\ phase = "envelope" /\ section = "none" /\ ops = <<>> /\ lines = 0
    /\ todo = <<>> /\ text = <<>> /\ doc = <<>> /\ clear = TRUE

-----------------------------------------------------------------------------
(* parse_patch                                                             *)

\* Surrounding blank lines are dropped; what remains starts with Begin Patch
\* and ends with End Patch.
Envelope ==
    /\ phase = "envelope"
    /\ phase' \in {"parsing", "parse_error"}
    /\ UNCHANGED <<section, ops, lines, todo, text, doc, clear>>

End ==
    /\ phase = "parsing"
    /\ phase' = "parsed"
    /\ UNCHANGED <<section, ops, lines, todo, text, doc, clear>>

NewHunk == [before |-> <<>>, removed |-> <<>>, added |-> <<>>, after |-> <<>>, src |-> <<>>]

\* Context after the first change of a hunk is context_after, wherever it is
\* among the changes that follow.
ContextBefore(h, l) == [h EXCEPT !.before = Append(@, l.text)]       \* mutant
ContextLine(h, l) ==
    IF h.removed # <<>> \/ h.added # <<>>
    THEN [h EXCEPT !.after = Append(@, l.text)]
    ELSE [h EXCEPT !.before = Append(@, l.text)]

HunkLine(h, l) ==
    LET g == [h EXCEPT !.src = Append(@, l)]
    IN CASE l.kind = "plus"  -> [g EXCEPT !.added = Append(@, l.text)]
         [] l.kind = "minus" -> [g EXCEPT !.removed = Append(@, l.text)]
         [] l.kind = "space" -> ContextLine(g, l)

Blank(l) == l.kind = "space" /\ l.text = <<>>

\* A line of the kind that the section it is in allows.
Allowed(l) ==
    \/ l.kind \in Headers
    \/ section = "none" /\ Blank(l)
    \/ section = "add" /\ l.kind = "plus"
    \/ section = "update" /\ l.kind \in HunkKinds \cup {"at"}

HeaderOpens(l) == l.kind                                             \* mutant
SectionOf(l) == IF l.kind = "delete" THEN "none" ELSE l.kind

Header(l) ==
    /\ l.kind \in Headers
    /\ ops' = Append(ops, [kind |-> l.kind, body |-> <<>>, hunks |-> <<>>])
    /\ section' = SectionOf(l)

Body(l) ==
    /\ Allowed(l) /\ l.kind \notin Headers
    /\ UNCHANGED section
    /\ LET n == Len(ops)
           hunks == ops[n].hunks
           known == IF l.kind = "at" \/ hunks = <<>> THEN Append(hunks, NewHunk) ELSE hunks
       IN ops' = CASE section = "none" -> ops
                   [] section = "add" -> [ops EXCEPT ![n].body = Append(@, l.text)]
                   [] section = "update" ->
                        [ops EXCEPT ![n].hunks =
                            IF l.kind = "at" THEN known
                            ELSE [known EXCEPT ![Len(known)] = HunkLine(@, l)]]

\* Any other line, a "*** " line of another kind included, rejects the patch.
ReadLine ==
    /\ phase = "parsing"
    /\ lines < MaxLines
    /\ lines' = lines + 1
    /\ \E l \in Line :
         \/ (Header(l) \/ Body(l)) /\ UNCHANGED phase
         \/ ~Allowed(l) /\ phase' = "parse_error" /\ UNCHANGED <<section, ops>>
    /\ UNCHANGED <<todo, text, doc, clear>>

-----------------------------------------------------------------------------
(* apply_hunks                                                             *)

\* "\n".join
Join(ls) == FlattenSeq([i \in 1..Len(ls) |-> IF i = 1 THEN ls[i] ELSE <<NL>> \o ls[i]])

OldLines(h) == h.before \o h.removed \o h.after
NewLines(h) == h.before \o h.added \o h.after

\* Where sequence b occurs in sequence t: characters in a text, or lines in a file.
Occurrences(b, t) == {i \in 1..Len(t) + 1 - Len(b) : SubSeq(t, i, i + Len(b) - 1) = b}
First(S) == CHOOSE i \in S : \A j \in S : i <= j

\* An insertion with no context goes to the end, on a line of its own.
Separator(t) == IF t = <<>> \/ Last(t) = NL THEN <<>> ELSE <<NL>>

-----------------------------------------------------------------------------
(* The same edit, line by line, as the envelope's docstring describes it   *)

Selected(src, kinds) ==
    FlattenSeq([i \in 1..Len(src) |-> IF src[i].kind \in kinds THEN <<src[i].text>> ELSE <<>>])
Before(h) == Selected(h.src, {"minus", "space"})
After(h) == Selected(h.src, {"plus", "space"})

\* The changes of the hunk are consecutive lines.
OneGroup(h) ==
    \A i, j, k \in 1..Len(h.src) :
        i < j /\ j < k /\ h.src[i].kind # "space" /\ h.src[k].kind # "space"
            => h.src[j].kind # "space"

\* The block occurs in the text on whole lines only.
OnWholeLines(b, t) ==
    \A i \in Occurrences(b, t) :
        /\ i = 1 \/ t[i - 1] = NL
        /\ i + Len(b) > Len(t) \/ t[i + Len(b)] = NL

\* What apply_hunks is meant for: a pure insertion, or one group of changes that
\* leaves some line of a block, where the block is more than one empty line and
\* is not met inside a line.
Plain(h, t) ==
    /\ OneGroup(h)
    /\ After(h) # <<>>
    /\ \/ Before(h) = <<>>
       \/ Join(Before(h)) # <<>> /\ OnWholeLines(Join(Before(h)), t)

\* Appends to the file, or replaces the lines where they are first met.
Matches(h, d) == Before(h) = <<>> \/ Occurrences(Before(h), d) # {}
Edited(h, d) ==
    IF Before(h) = <<>>
    THEN (IF Last(d) = <<>> THEN Front(d) ELSE d) \o After(h)
    ELSE ReplaceSubSeqAt(First(Occurrences(Before(h), d)), After(h), Before(h), d)

-----------------------------------------------------------------------------
Open ==
    /\ phase = "parsed"
    /\ \E i \in 1..Len(ops), f \in Files :
         /\ ops[i].kind = "update"
         /\ todo' = ops[i].hunks
         /\ doc' = f
         /\ text' = Join(f)
    /\ phase' = "applying"
    /\ UNCHANGED <<section, ops, lines, clear>>

ApplyHunk ==
    /\ phase = "applying" /\ todo # <<>>
    /\ LET h == Head(todo)
           old == Join(OldLines(h))
           new == Join(NewLines(h))
           at == Occurrences(old, text)
       IN /\ IF old = <<>>
             THEN text' = text \o Separator(text) \o new /\ UNCHANGED phase
             ELSE IF at = {}
             THEN phase' = "no_context" /\ UNCHANGED text
             ELSE text' = ReplaceSubSeqAt(First(at), new, old, text) /\ UNCHANGED phase
          /\ clear' = (clear /\ Plain(h, text))
          /\ doc' = IF clear' /\ Matches(h, doc) THEN Edited(h, doc) ELSE <<>>
    /\ todo' = Tail(todo)
    /\ UNCHANGED <<section, ops, lines>>

Done ==
    /\ phase = "applying" /\ todo = <<>>
    /\ phase' = "applied"
    /\ UNCHANGED <<section, ops, lines, todo, text, doc, clear>>

Next == Envelope \/ End \/ ReadLine \/ Open \/ ApplyHunk \/ Done
Spec == Init /\ [][Next]_vars

-----------------------------------------------------------------------------
(* Properties                                                              *)

\* Splitting a hunk into four lists, joining them and replacing characters of the
\* file's text gives the file that editing its lines in the envelope's order
\* gives, and fails where that finds no match, for hunks that Plain describes.
EditsWholeLines ==
    clear =>
        /\ phase \in {"applying", "applied"} => doc # <<>> /\ text = Join(doc)
        /\ phase = "no_context" => doc = <<>>

\* Module docstring: a hunk is "unchanged context line", "-removed line" and
\* "+added line" as they stand in the envelope: what it looks for, and what it
\* puts there, has those lines in their order.
HunkKeepsOrder ==
    \A i \in 1..Len(ops) : \A j \in 1..Len(ops[i].hunks) :
        LET h == ops[i].hunks[j]
        IN OldLines(h) = Before(h) /\ NewLines(h) = After(h)

=============================================================================
