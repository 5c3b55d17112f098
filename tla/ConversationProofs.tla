-------------------------- MODULE ConversationProofs --------------------------
(***************************************************************************)
(* Proofs about Conversation, for every set of conversations a session may *)
(* start from, every set of servers and names, every setting of            *)
(* SHIM_COMPACT_EVERY and every bound on turns, calls and lengths.         *)
(***************************************************************************)
EXTENDS Conversation, SequenceFacts

-----------------------------------------------------------------------------
(* What items stand for                                                    *)

Standing(items) == [i \in 1..Len(items) |-> StandsFor(items[i])]

\* What each of the items stands for is a sequence.
WellFormed(items) == IsSeq(items) /\ \A i \in 1..Len(items) : IsSeq(StandsFor(items[i]))

LEMMA StandingIsSeq ==
    ASSUME NEW items, WellFormed(items)
    PROVE  /\ SeqOfSeqs(Standing(items))
           /\ Len(Standing(items)) = Len(items)
           /\ Meaning(items) = FlattenSeq(Standing(items))
           /\ IsSeq(Meaning(items))
<1>. DEFINE seqs == Standing(items)
<1>1. IsSeq(items) /\ Len(items) \in Nat
  BY SeqIsFunction DEF WellFormed
<1>2. IsSeq(seqs) /\ Len(seqs) = Len(items)
  BY <1>1, SeqOfFunction DEF Standing
<1>3. SeqOfSeqs(seqs)
  BY <1>2 DEF SeqOfSeqs, WellFormed, Standing
<1>4. Meaning(items) = FlattenSeq(seqs)
  BY DEF Meaning, Standing
<1>. QED
  BY <1>2, <1>3, <1>4, FlattenIsSeq

\* Items of which none is a summary stand for themselves.
LEMMA MeaningVerbatim ==
    ASSUME NEW items, IsSeq(items), \A i \in 1..Len(items) : items[i].kind # "summary"
    PROVE  WellFormed(items) /\ Meaning(items) = items
<1>1. WellFormed(items)
  BY SeqOne DEF WellFormed, StandsFor
<1>2. Standing(items) = [i \in 1..Len(items) |-> <<items[i]>>]
  BY DEF Standing, StandsFor
<1>. QED
  BY <1>1, <1>2, StandingIsSeq, FlattenOnes

\* What a conversation stands for is what its parts stand for.
LEMMA MeaningConcat ==
    ASSUME NEW s, NEW t, WellFormed(s), WellFormed(t)
    PROVE  WellFormed(Cat(s, t)) /\ Meaning(Cat(s, t)) = Cat(Meaning(s), Meaning(t))
<1>1. IsSeq(s) /\ IsSeq(t) /\ Len(s) \in Nat /\ Len(t) \in Nat
  BY SeqIsFunction DEF WellFormed
<1>. DEFINE st == Cat(s, t)
            joined == Cat(Standing(s), Standing(t))
<1>2. /\ IsSeq(st) /\ Len(st) = Len(s) + Len(t)
      /\ \A i \in 1..Len(s) + Len(t) : st[i] = IF i <= Len(s) THEN s[i] ELSE t[i - Len(s)]
  BY <1>1, SeqConcat
<1>. HIDE DEF st
<1>3. WellFormed(st)
  BY <1>1, <1>2 DEF WellFormed
<1>4. /\ SeqOfSeqs(Standing(s)) /\ Len(Standing(s)) = Len(s)
      /\ SeqOfSeqs(Standing(t)) /\ Len(Standing(t)) = Len(t)
      /\ SeqOfSeqs(Standing(st)) /\ Len(Standing(st)) = Len(s) + Len(t)
  BY <1>2, <1>3, StandingIsSeq
<1>5. /\ IsSeq(joined) /\ Len(joined) = Len(s) + Len(t)
      /\ \A i \in 1..Len(s) + Len(t) :
            joined[i] = IF i <= Len(s) THEN Standing(s)[i] ELSE Standing(t)[i - Len(s)]
  <2>1. IsSeq(Standing(s)) /\ IsSeq(Standing(t))
    BY <1>4 DEF SeqOfSeqs
  <2>2. /\ IsSeq(joined) /\ Len(joined) = Len(Standing(s)) + Len(Standing(t))
        /\ \A i \in 1..Len(Standing(s)) + Len(Standing(t)) :
              joined[i] = IF i <= Len(Standing(s)) THEN Standing(s)[i]
                          ELSE Standing(t)[i - Len(Standing(s))]
    BY <2>1, SeqConcat
  <2>. HIDE DEF joined
  <2>. QED
    BY <1>4, <2>2
<1>. HIDE DEF joined
<1>6. ASSUME NEW i \in 1..Len(s) + Len(t)
      PROVE  joined[i] = Standing(st)[i]
  <2>1. Standing(st)[i] = StandsFor(st[i])
    BY <1>2 DEF Standing
  <2>2. CASE i <= Len(s)
    <3>1. Standing(s)[i] = StandsFor(s[i])
      BY <1>1, <2>2 DEF Standing
    <3>. QED
      BY <1>1, <1>2, <1>5, <2>1, <2>2, <3>1
  <2>3. CASE i > Len(s)
    <3>1. Standing(t)[i - Len(s)] = StandsFor(t[i - Len(s)])
      BY <1>1, <2>3 DEF Standing
    <3>2. ~(i <= Len(s))
      BY <1>1, <2>3
    <3>. QED
      BY <1>2, <1>5, <2>1, <3>1, <3>2
  <2>. QED
    BY <1>1, <2>2, <2>3
<1>7. joined = Standing(st)
  BY <1>4, <1>5, <1>6, SeqsEqual DEF SeqOfSeqs
<1>8. FlattenSeq(Standing(st)) = Cat(FlattenSeq(Standing(s)), FlattenSeq(Standing(t)))
  BY <1>4, <1>7, FlattenConcat DEF joined
<1>9. /\ Meaning(st) = FlattenSeq(Standing(st))
      /\ Meaning(s) = FlattenSeq(Standing(s))
      /\ Meaning(t) = FlattenSeq(Standing(t))
  BY <1>3, StandingIsSeq
<1>. QED
  BY <1>3, <1>8, <1>9 DEF st

\* The summaries of a compacted part stand for that part.
LEMMA MeaningSummaries ==
    ASSUME NEW roles, IsSeq(roles), Len(roles) > 0, NEW prefix, WellFormed(prefix)
    PROVE  /\ WellFormed(Summaries(roles, prefix))
           /\ Len(Summaries(roles, prefix)) = Len(roles)
           /\ \A i \in 1..Len(roles) : Summaries(roles, prefix)[i].kind = "summary"
           /\ Meaning(Summaries(roles, prefix)) = Meaning(prefix)
<1>. DEFINE s == Summaries(roles, prefix)
<1>1. Len(roles) \in Nat
  BY SeqIsFunction
<1>2. IsSeq(s) /\ Len(s) = Len(roles)
  BY <1>1, SeqOfFunction DEF Summaries
<1>3. \A i \in 1..Len(s) : /\ s[i].kind = "summary"
                           /\ StandsFor(s[i]) = IF i = 1 THEN Meaning(prefix) ELSE <<>>
  BY <1>1, <1>2 DEF Summaries, StandsFor
<1>. HIDE DEF s
<1>4. IsSeq(Meaning(prefix))
  BY StandingIsSeq
<1>5. WellFormed(s)
  BY <1>2, <1>3, <1>4, SeqEmpty DEF WellFormed
<1>6. /\ SeqOfSeqs(Standing(s)) /\ Len(Standing(s)) = Len(s)
      /\ Meaning(s) = FlattenSeq(Standing(s))
  BY <1>5, StandingIsSeq
<1>7. \A i \in 1..Len(s) : Standing(s)[i] = IF i = 1 THEN Meaning(prefix) ELSE <<>>
  BY <1>3 DEF Standing
<1>8. FlattenSeq(Standing(s)) = Meaning(prefix)
  <2>1. /\ Len(Standing(s)) > 0 /\ Standing(s)[1] = Meaning(prefix)
        /\ \A i \in 2..Len(Standing(s)) : Standing(s)[i] = <<>>
    BY <1>1, <1>2, <1>6, <1>7
  <2>. QED
    BY <1>6, <2>1, FlattenFirst
<1>. QED
  BY <1>2, <1>3, <1>5, <1>6, <1>8 DEF s

\* The answer of the compact route without what is dropped is a sequence.
LEMMA CleanedIsSeq ==
    ASSUME NEW answer \in CompactAnswers
    PROVE  IsSeq(Cleaned(answer))
<1>. DEFINE seqs == [i \in 1..Len(answer) |->
                       IF answer[i] = "other" THEN <<>> ELSE <<answer[i]>>]
<1>1. PICK n \in 0..2 : answer \in [1..n -> {"user", "assistant", "other"}]
  BY Zenon DEF CompactAnswers
<1>2. Len(answer) \in Nat
  BY <1>1, SeqOfFunction
<1>3. IsSeq(seqs) /\ Len(seqs) = Len(answer)
  BY <1>2, SeqOfFunction
<1>4. SeqOfSeqs(seqs)
  BY <1>3, SeqEmpty, SeqOne DEF SeqOfSeqs
<1>5. Cleaned(answer) = FlattenSeq(seqs)
  BY DEF Cleaned
<1>. HIDE DEF seqs
<1>. QED
  BY <1>4, <1>5, FlattenIsSeq

-----------------------------------------------------------------------------
(* The inductive invariant                                                 *)

Sequences ==
    /\ IsSeq(calls) /\ IsSeq(turn_input) /\ IsSeq(stored)
    /\ IsSeq(history) /\ IsSeq(said)

Phasing ==
    /\ phase = "boot" => turn = 0
    /\ phase \in {"tools", "compact"} => turn > 0
    /\ phase = "compact" => every > 0

\* The calls of the last response, which only names offered can have.
CallsMade ==
    /\ exposed \subseteq DOMAIN RawSize
    /\ \A i \in 1..Len(calls) : /\ calls[i].kind = "call" /\ calls[i].id = <<turn, i>>
                                /\ calls[i].name \in DOMAIN RawSize

\* A tool that a running server offers under a name.
OffersAs(server, tool, name) ==
    /\ server \in up
    /\ tool \in ToSet(Servers[server].tools)
    /\ Servers[server].allowed # {} => tool \in Servers[server].allowed
    /\ Exposed(Servers[server], tool) = name

\* Until the loop ends, the router knows every name offered.
Routing ==
    /\ phase # "done" => DOMAIN router = exposed
    /\ \A name \in DOMAIN router :
          router[name][1] # 0 /\ OffersAs(router[name][1], router[name][2], name)

\* The next input has the results of the last calls.
Results ==
    phase \in {"turn", "compact"} /\ turn > 0 =>
        /\ Len(turn_input) = Len(calls)
        /\ \A i \in 1..Len(calls) : /\ turn_input[i].id = calls[i].id
                                    /\ turn_input[i].from = Target(calls[i].name)

\* What MAG has stored or the client keeps stands for all that was said.
Whole ==
    /\ \A i \in 1..Len(said) : said[i].kind # "summary"
    /\ every > 0 => WellFormed(history) /\ Meaning(history) = said
    /\ every = 0 /\ phase \in {"boot", "turn"} => Context = said
    /\ every = 0 /\ phase = "tools" => stored # <<>> /\ Last(stored) = said

\* The history is summaries and then what was said from the first item on, or from
\* the last user message on.
Shape(h, k, j) ==
    /\ Len(h) = k + Len(said) - j + 1
    /\ \A i \in 1..k : h[i].kind = "summary"
    /\ \A i \in k + 1..Len(h) : h[i] = said[i - k + j - 1]
    /\ \/ k = 0 /\ j = 1
       \/ /\ j <= Len(said) /\ said[j].kind = "user"
          /\ \A i \in j + 1..Len(said) : said[i].kind # "user"

Shaped == every > 0 => \E k \in 0..Len(history), j \in 1..Len(said) + 1 : Shape(history, k, j)

\* Calls and outputs: those of each turn are told apart, an output follows its call,
\* a call without an output is one of the last response, and no user message comes
\* after the first of them.
IsPart(item) == item.kind \in {"call", "output"}

Ids == \A i \in 1..Len(said) : IsPart(said[i]) => said[i].id[1] \in 1..turn

Unique == \A i, k \in 1..Len(said) :
    IsPart(said[i]) /\ said[i].kind = said[k].kind /\ said[i].id = said[k].id => i = k

UsersFirst == \A i, k \in 1..Len(said) : said[i].kind = "user" /\ IsPart(said[k]) => i < k

OutputsFollow == \A k \in 1..Len(said) : said[k].kind = "output" =>
    /\ \E i \in 1..Len(said) : i < k /\ said[i].kind = "call" /\ said[i].id = said[k].id
    /\ phase = "tools" => said[k].id[1] < turn

CallsFollowed == \A i \in 1..Len(said) : said[i].kind = "call" =>
    \/ \E k \in 1..Len(said) : i < k /\ said[k].kind = "output" /\ said[k].id = said[i].id
    \/ phase = "tools" /\ i > Len(said) - Len(calls)

CallsLast == phase = "tools" =>
    /\ Len(calls) <= Len(said)
    /\ \A m \in 1..Len(calls) : said[Len(said) - Len(calls) + m] = calls[m]

Paired == Ids /\ Unique /\ UsersFirst /\ OutputsFollow /\ CallsFollowed /\ CallsLast

IInv ==
    /\ TypeOK /\ Sequences /\ Phasing /\ CallsMade /\ Routing /\ Results
    /\ Whole /\ Shaped /\ Paired /\ OutputsCapped

-----------------------------------------------------------------------------
(* What each action adds to what was said                                  *)

\* What an inference adds: perhaps a message, then the calls.
Output(output, made, n) ==
    /\ IsSeq(output) /\ IsSeq(made)
    /\ Len(made) \in 0..MaxCalls /\ Len(made) <= Len(output)
    /\ \A i \in 1..Len(made) :
          /\ made[i].kind = "call" /\ made[i].id = <<n, i>>
          /\ made[i].name \in exposed \cup LocalTools
          /\ output[Len(output) - Len(made) + i] = made[i]
    /\ \A i \in 1..Len(output) - Len(made) : output[i].kind = "assistant"

LEMMA InferOutput ==
    ASSUME Infer
    PROVE  \E output :
             /\ Output(output, calls', turn')
             /\ said' = Cat(said, output)
             /\ stored' = IF every > 0 THEN stored ELSE Append(stored, Cat(Context, output))
             /\ history' = IF every > 0 THEN Cat(history, output) ELSE history
             /\ phase' = IF Len(calls') = 0 THEN "done" ELSE "tools"
             /\ router' = IF Len(calls') = 0 THEN <<>> ELSE router
<1>0. PICK says \in BOOLEAN, n \in 0..MaxCalls :
        \E names \in [1..n -> exposed \cup LocalTools] :
          LET made == [i \in 1..n |-> [kind |-> "call", id |-> <<turn', i>>, name |-> names[i]]]
              output == (IF says THEN <<[kind |-> "assistant", id |-> <<turn', 0>>]>> ELSE <<>>) \o made
          IN /\ calls' = made
             /\ said' = said \o output
             /\ stored' = Stored(output)
             /\ history' = Kept(output)
             /\ phase' = IF n = 0 THEN "done" ELSE "tools"
             /\ router' = IF n = 0 THEN <<>> ELSE router
  BY DEF Infer
<1>1. PICK names \in [1..n -> exposed \cup LocalTools] :
        LET made == [i \in 1..n |-> [kind |-> "call", id |-> <<turn', i>>, name |-> names[i]]]
            output == (IF says THEN <<[kind |-> "assistant", id |-> <<turn', 0>>]>> ELSE <<>>) \o made
        IN /\ calls' = made
           /\ said' = said \o output
           /\ stored' = Stored(output)
           /\ history' = Kept(output)
           /\ phase' = IF n = 0 THEN "done" ELSE "tools"
           /\ router' = IF n = 0 THEN <<>> ELSE router
  BY <1>0
<1>. DEFINE made == [i \in 1..n |-> [kind |-> "call", id |-> <<turn', i>>, name |-> names[i]]]
            message == [kind |-> "assistant", id |-> <<turn', 0>>]
            first == IF says THEN <<message>> ELSE <<>>
            output == Cat(first, made)
<1>2. IsSeq(made) /\ Len(made) = n
  BY ConversationAssumption, SeqOfFunction
<1>3. IsSeq(first) /\ Len(first) \in 0..1 /\ \A i \in 1..Len(first) : first[i].kind = "assistant"
  <2>1. IsSeq(<<message>>) /\ Len(<<message>>) = 1 /\ <<message>>[1] = message
    BY SeqOne
  <2>2. IsSeq(<<>>) /\ Len(<<>>) = 0
    BY SeqEmpty
  <2>3. message.kind = "assistant"
    OBVIOUS
  <2>. HIDE DEF message
  <2>. QED
    BY <2>1, <2>2, <2>3
<1>4. \A i \in 1..n : /\ made[i].kind = "call" /\ made[i].id = <<turn', i>>
                      /\ made[i].name \in exposed \cup LocalTools
  OBVIOUS
<1>5. /\ calls' = made /\ said' = Cat(said, output)
      /\ stored' = Stored(output) /\ history' = Kept(output)
      /\ phase' = IF n = 0 THEN "done" ELSE "tools"
      /\ router' = IF n = 0 THEN <<>> ELSE router
  BY <1>1 DEF Cat
<1>. HIDE DEF made, first
<1>6. Output(output, made, turn')
  <2>1. /\ IsSeq(output) /\ Len(output) = Len(first) + Len(made)
        /\ \A i \in 1..Len(first) + Len(made) :
              output[i] = IF i <= Len(first) THEN first[i] ELSE made[i - Len(first)]
    BY <1>2, <1>3, SeqConcat
  <2>. HIDE DEF output
  <2>2. n \in Nat /\ Len(first) \in Nat
    BY <1>3
  <2>3. ASSUME NEW i \in 1..n PROVE output[Len(output) - Len(made) + i] = made[i]
    <3>1. /\ Len(first) + i \in 1..Len(first) + Len(made) /\ ~(Len(first) + i <= Len(first))
          /\ Len(first) + i - Len(first) = i
          /\ Len(output) - Len(made) + i = Len(first) + i
      BY <1>2, <2>1, <2>2
    <3>. QED
      BY <2>1, <3>1
  <2>4. ASSUME NEW i \in 1..Len(output) - Len(made) PROVE output[i].kind = "assistant"
    BY <1>2, <1>3, <2>1, <2>2
  <2>. QED
    BY <1>2, <1>4, <2>1, <2>2, <2>3, <2>4 DEF Output
<1>. HIDE DEF output
<1>7. stored' = IF every > 0 THEN stored ELSE Append(stored, Cat(Context, output))
  BY <1>5 DEF Stored, Cat
<1>8. history' = IF every > 0 THEN Cat(history, output) ELSE history
  BY <1>5 DEF Kept, Cat
<1>. QED
  BY <1>2, <1>5, <1>6, <1>7, <1>8

\* What the tools add: the output of each call, in the order of the calls.
Outputs(results) ==
    /\ IsSeq(results) /\ Len(results) = Len(calls)
    /\ \A i \in 1..Len(calls) :
          /\ results[i].kind = "output" /\ results[i].id = calls[i].id
          /\ results[i].from = Target(calls[i].name)
          /\ results[i].size = Capped(RawSize[calls[i].name])

LEMMA ToolsOutput ==
    ASSUME IsSeq(calls), ToolsDone
    PROVE  \E results :
             /\ Outputs(results)
             /\ said' = Cat(said, results)
             /\ turn_input' = results
             /\ history' = IF every > 0 THEN Cat(history, results) ELSE history
<1>. DEFINE results == [i \in 1..Len(calls) |->
                          [kind |-> "output", id |-> calls[i].id,
                           from |-> Target(calls[i].name), size |-> Capped(RawSize[calls[i].name])]]
<1>1. Outputs(results)
  BY SeqIsFunction, SeqOfFunction DEF Outputs
<1>2. turn_input' = results /\ said' = Cat(said, results) /\ history' = Kept(results)
  BY DEF ToolsDone, NextInput, Cat
<1>. HIDE DEF results
<1>3. history' = IF every > 0 THEN Cat(history, results) ELSE history
  BY <1>2 DEF Kept, Cat
<1>. QED
  BY <1>1, <1>2, <1>3

\* What a compaction does to the history: nothing, or the part before the cut becomes
\* summaries.
Replaced(roles) ==
    /\ IsSeq(roles) /\ Len(roles) > 0 /\ Cut(history) >= 2
    /\ history' = Cat(Summaries(roles, Part(history, 1, Cut(history))),
                      Part(history, Cut(history) + 1, Len(history)))

LEMMA CompactHistory ==
    ASSUME IsSeq(history), Cut(history) \in 0..Len(history), Compact
    PROVE  \/ UNCHANGED history
           \/ \E roles : Replaced(roles)
<1>. DEFINE cut == Cut(history)
            prefix == Part(history, 1, cut)
            tail == Part(history, cut + 1, Len(history))
<1>1. Len(prefix) = cut
  <2>1. Len(history) \in Nat
    BY SeqIsFunction
  <2>2. 1 \in 1..Len(history) + 1 /\ 1 <= cut + 1
    BY <2>1
  <2>3. Len(prefix) = cut - 1 + 1
    BY <2>2, SeqPart
  <2>. QED
    BY <2>3
<1>2. IF Len(prefix) < 2 THEN UNCHANGED <<history, missed>>
      ELSE \E answer \in CompactAnswers :
             LET roles == Cleaned(answer)
             IN IF roles = <<>> THEN missed' = TRUE /\ UNCHANGED history
                ELSE history' = Cat(Summaries(roles, prefix), tail) /\ UNCHANGED missed
  BY DEF Compact, Cat, Part
<1>. HIDE DEF prefix, tail
<1>3. CASE Len(prefix) < 2
  BY <1>2, <1>3
<1>4. CASE ~(Len(prefix) < 2)
  <2>1. PICK answer \in CompactAnswers :
          IF Cleaned(answer) = <<>> THEN missed' = TRUE /\ UNCHANGED history
          ELSE history' = Cat(Summaries(Cleaned(answer), prefix), tail) /\ UNCHANGED missed
    BY <1>2, <1>4
  <2>2. CASE Cleaned(answer) = <<>>
    BY <2>1, <2>2
  <2>3. CASE Cleaned(answer) # <<>>
    <3>1. IsSeq(Cleaned(answer))
      BY CleanedIsSeq
    <3>2. Len(Cleaned(answer)) > 0
      BY <2>3, <3>1, SeqEmpty, SeqIsFunction
    <3>3. cut >= 2
      BY <1>1, <1>4
    <3>4. Replaced(Cleaned(answer))
      BY <2>1, <2>3, <3>1, <3>2, <3>3 DEF Replaced, prefix, tail
    <3>. QED
      BY <3>4
  <2>. QED
    BY <2>2, <2>3
<1>. QED
  BY <1>3, <1>4

-----------------------------------------------------------------------------
(* The boot of the MCP servers                                             *)

\* The tool that is offered under a name, which one is: there is a last one.
LEMMA NamedIsOffered ==
    ASSUME NEW s \in ToSet(Servers), NEW j \in Offered(s)
    PROVE  /\ Named(s, Exposed(s, s.tools[j])) \in Offered(s)
           /\ Exposed(s, s.tools[Named(s, Exposed(s, s.tools[j]))]) = Exposed(s, s.tools[j])
<1>. DEFINE name == Exposed(s, s.tools[j])
            T == {i \in Offered(s) : Exposed(s, s.tools[i]) = name}
<1>1. IsSeq(s.tools)
  BY ToolsAssumption DEF IsSeq
<1>2. Len(s.tools) \in Nat /\ T \in SUBSET (0..Len(s.tools)) /\ T # {}
  BY <1>1, SeqIsFunction DEF Offered
<1>3. \E m \in T : \A k \in T : k <= m
  <2>. HIDE DEF T
  <2>. QED
    BY <1>2, GreatestElement
<1>4. \E m \in Offered(s) :
        Exposed(s, s.tools[m]) = name /\ \A k \in Offered(s) : Exposed(s, s.tools[k]) = name => k <= m
  BY <1>3
<1>. HIDE DEF name
<1>5. /\ Named(s, name) \in Offered(s)
      /\ Exposed(s, s.tools[Named(s, name)]) = name
  BY <1>4 DEF Named
<1>. QED
  BY <1>5 DEF name

\* A server that starts adds its names, each of which leads to it; other names lead
\* where they did.
LEMMA Boots ==
    ASSUME tried < Len(Servers), tried \in Nat, BootServer
    PROVE  \/ UNCHANGED <<up, exposed, router>>
           \/ LET s == Servers[tried']
                  names == {Exposed(s, s.tools[i]) : i \in Offered(s)}
              IN /\ up' = up \cup {tried'}
                 /\ exposed' = exposed \cup names
                 /\ names \subseteq DOMAIN RawSize
                 /\ DOMAIN router' = names \cup DOMAIN router
                 /\ \A name \in DOMAIN router \ names : router'[name] = router[name]
                 /\ \A name \in names :
                      /\ router'[name][1] = tried'
                      /\ router'[name][2] \in ToSet(s.tools)
                      /\ s.allowed # {} => router'[name][2] \in s.allowed
                      /\ Exposed(s, router'[name][2]) = name
<1>. DEFINE s == Servers[tried']
            names == {Exposed(s, s.tools[i]) : i \in Offered(s)}
<1>1. tried' = tried + 1 /\ s \in ToSet(Servers)
  <2>1. IsSeq(Servers)
    BY ToolsAssumption DEF IsSeq
  <2>2. tried' = tried + 1
    BY DEF BootServer
  <2>. QED
    BY <2>1, <2>2, SeqIsFunction DEF ToSet
<1>2. \/ UNCHANGED <<up, exposed, router>>
      \/ /\ up' = up \cup {tried'} /\ exposed' = exposed \cup names
         /\ router' = [name \in names \cup DOMAIN router |->
                         IF name \in names THEN <<tried', s.tools[Named(s, name)]>>
                         ELSE router[name]]
  BY DEF BootServer
<1>3. SUFFICES ASSUME up' = up \cup {tried'}, exposed' = exposed \cup names,
                      router' = [name \in names \cup DOMAIN router |->
                                   IF name \in names THEN <<tried', s.tools[Named(s, name)]>>
                                   ELSE router[name]]
               PROVE  /\ names \subseteq DOMAIN RawSize
                      /\ DOMAIN router' = names \cup DOMAIN router
                      /\ \A name \in DOMAIN router \ names : router'[name] = router[name]
                      /\ \A name \in names :
                           /\ router'[name][1] = tried'
                           /\ router'[name][2] \in ToSet(s.tools)
                           /\ s.allowed # {} => router'[name][2] \in s.allowed
                           /\ Exposed(s, router'[name][2]) = name
  BY <1>2
<1>4. /\ DOMAIN router' = names \cup DOMAIN router
      /\ \A name \in names : router'[name] = <<tried', s.tools[Named(s, name)]>>
      /\ \A name \in DOMAIN router \ names : router'[name] = router[name]
  <2>. HIDE DEF names
  <2>. QED
    BY <1>3
<1>5. ASSUME NEW name \in names
      PROVE  /\ name \in DOMAIN RawSize
             /\ router'[name][1] = tried'
             /\ router'[name][2] \in ToSet(s.tools)
             /\ s.allowed # {} => router'[name][2] \in s.allowed
             /\ Exposed(s, router'[name][2]) = name
  <2>1. PICK j \in Offered(s) : name = Exposed(s, s.tools[j])
    OBVIOUS
  <2>2. Named(s, name) \in Offered(s) /\ Exposed(s, s.tools[Named(s, name)]) = name
    <3>. HIDE DEF s
    <3>. QED
      BY <1>1, <2>1, NamedIsOffered
  <2>3. router'[name] = <<tried', s.tools[Named(s, name)]>>
    BY <1>4
  <2>. HIDE DEF s
  <2>4. s.tools[j] \in ToSet(s.tools) /\ s.tools[Named(s, name)] \in ToSet(s.tools)
    BY <2>1, <2>2 DEF Offered, ToSet
  <2>. QED
    BY <1>1, <2>1, <2>2, <2>3, <2>4, ToolsAssumption DEF Offered
<1>. QED
  BY <1>4, <1>5

-----------------------------------------------------------------------------
(* Types                                                                   *)

\* The cut is right before the last user message, if there is one.
LEMMA CutBeforeLastUser ==
    ASSUME NEW h, IsSeq(h)
    PROVE  /\ Cut(h) \in 0..Len(h)
           /\ \/ Cut(h) = 0 /\ \A i \in 1..Len(h) : ~ByUser(h[i])
              \/ /\ Cut(h) + 1 \in 1..Len(h) /\ ByUser(h[Cut(h) + 1])
                 /\ \A i \in 1..Len(h) : ByUser(h[i]) => i <= Cut(h) + 1
<1>. DEFINE users == {i \in 1..Len(h) : ByUser(h[i])}
<1>1. Len(h) \in Nat
  BY SeqIsFunction
<1>2. CASE users = {}
  BY <1>1, <1>2 DEF Cut
<1>3. CASE users # {}
  <2>1. \E i \in users : \A j \in users : i >= j
    <3>1. users \in SUBSET (0..Len(h))
      BY <1>1
    <3>2. users \subseteq Nat
      BY <1>1
    <3>. HIDE DEF users
    <3>3. PICK m \in users : \A k \in users : k <= m
      BY <1>1, <1>3, <3>1, GreatestElement
    <3>. QED
      BY <3>2, <3>3
  <2>. DEFINE last == CHOOSE i \in users : \A j \in users : i >= j
  <2>2. last \in users /\ \A j \in users : last >= j
    BY <2>1
  <2>3. Cut(h) = last - 1
    BY <1>3 DEF Cut
  <2>. HIDE DEF last
  <2>. QED
    BY <1>1, <2>2, <2>3
<1>. QED
  BY <1>2, <1>3

LEMMA TypesInit ==
    ASSUME Init
    PROVE  TypeOK /\ Sequences /\ Phasing
<1>1. IsSeq(said)
  BY InputsAssumption, SeqOfSet DEF Init
<1>2. IsSeq(<<>>) /\ Len(<<>>) = 0
  BY SeqEmpty
<1>3. MaxTurns \in Nat /\ MaxCalls \in Nat /\ Len(Servers) \in Nat
  BY ConversationAssumption, ToolsAssumption
<1>4. TypeOK
  <2>1. /\ every \in CompactSettings /\ phase = "boot" /\ up = {} /\ tried = 0
        /\ exposed = {} /\ turn = 0 /\ Len(calls) = 0
        /\ stored = <<>> /\ Len(stored) = 0
    BY <1>2 DEF Init
  <2>2. DOMAIN router = {}
    BY DEF Init
  <2>3. missed \in BOOLEAN
    BY DEF Init
  <2>. QED
    BY <1>3, <2>1, <2>2, <2>3 DEF TypeOK, Phases
<1>. QED
  BY <1>1, <1>2, <1>4 DEF Init, Sequences, Phasing

LEMMA TypesNext ==
    ASSUME TypeOK, Sequences, Phasing, CallsMade, [Next]_vars
    PROVE  (TypeOK /\ Sequences /\ Phasing)'
<1>. USE DEF TypeOK, Phases, Phasing
<1>0. /\ MaxTurns \in Nat /\ MaxCalls \in Nat /\ Len(Servers) \in Nat /\ every \in Nat
      /\ IsSeq(<<>>) /\ Len(<<>>) = 0
  BY ConversationAssumption, ToolsAssumption, SeqEmpty
<1>1. ASSUME BootServer
      PROVE  (TypeOK /\ Sequences /\ Phasing)'
  <2>1. tried' = tried + 1 /\ tried' \in 0..Len(Servers)
    BY <1>0, <1>1 DEF BootServer
  <2>2. UNCHANGED <<every, phase, turn, calls, turn_input, stored, history, said, missed>>
    BY <1>1 DEF BootServer
  <2>3. up' \subseteq 1..tried' /\ DOMAIN router' \subseteq exposed'
    BY <1>0, <1>1, <2>1 DEF BootServer
  <2>4. Sequences'
    BY <2>2 DEF Sequences
  <2>5. phase' = "boot" => turn' = 0
    BY <2>2
  <2>. QED
    BY <2>1, <2>2, <2>3, <2>4, <2>5
<1>2. ASSUME Booted
      PROVE  (TypeOK /\ Sequences /\ Phasing)'
  BY <1>2 DEF Booted, boot, Sequences
<1>3. ASSUME Infer
      PROVE  (TypeOK /\ Sequences /\ Phasing)'
  <2>1. PICK output :
             /\ Output(output, calls', turn')
             /\ said' = Cat(said, output)
             /\ stored' = IF every > 0 THEN stored ELSE Append(stored, Cat(Context, output))
             /\ history' = IF every > 0 THEN Cat(history, output) ELSE history
             /\ phase' = IF Len(calls') = 0 THEN "done" ELSE "tools"
             /\ router' = IF Len(calls') = 0 THEN <<>> ELSE router
    BY <1>3, InferOutput
  <2>2. /\ turn' = turn + 1 /\ turn' \in 1..MaxTurns
        /\ UNCHANGED <<every, up, tried, exposed, turn_input, missed>>
    BY <1>0, <1>3 DEF Infer
  <2>3. IsSeq(calls') /\ Len(calls') \in 0..MaxCalls /\ IsSeq(output)
    BY <2>1 DEF Output
  <2>4. IsSeq(said') /\ IsSeq(history')
    BY <2>1, <2>3, SeqConcat DEF Sequences
  <2>5. /\ IsSeq(stored')
        /\ every > 0 => stored' = stored
        /\ every = 0 => Len(stored') = Len(stored) + 1
    <3>1. CASE every > 0
      BY <1>0, <2>1, <3>1 DEF Sequences
    <3>2. CASE every = 0
      <4>1. stored' = Append(stored, Cat(Context, output))
        BY <2>1, <3>2
      <4>. QED
        BY <3>2, <4>1, SeqAppend DEF Sequences
    <3>. QED
      BY <1>0, <3>1, <3>2
  <2>6. DOMAIN router' \subseteq exposed'
    <3>1. DOMAIN <<>> = {}
      OBVIOUS
    <3>. QED
      BY <2>1, <2>2, <3>1
  <2>7. Sequences'
    BY <2>2, <2>3, <2>4, <2>5 DEF Sequences
  <2>8. phase' \in {"done", "tools"}
    BY <2>1
  <2>. QED
    BY <1>0, <2>2, <2>3, <2>5, <2>6, <2>7, <2>8
<1>4. ASSUME ToolsDone
      PROVE  (TypeOK /\ Sequences /\ Phasing)'
  <2>1. PICK results :
             /\ Outputs(results)
             /\ said' = Cat(said, results)
             /\ turn_input' = results
             /\ history' = IF every > 0 THEN Cat(history, results) ELSE history
    BY <1>4, ToolsOutput DEF Sequences
  <2>2. /\ phase = "tools" /\ phase' = IF Due(turn) THEN "compact" ELSE "turn"
        /\ UNCHANGED <<every, up, tried, exposed, router, turn, calls, stored, missed>>
    BY <1>4 DEF ToolsDone, boot
  <2>3. IsSeq(said') /\ IsSeq(history') /\ IsSeq(turn_input')
    BY <2>1, SeqConcat DEF Sequences, Outputs
  <2>4. Sequences'
    BY <2>2, <2>3 DEF Sequences
  <2>. QED
    BY <2>2, <2>4 DEF Due
<1>5. ASSUME Compact
      PROVE  (TypeOK /\ Sequences /\ Phasing)'
  <2>1. /\ phase = "compact" /\ phase' = "turn"
        /\ UNCHANGED <<every, up, tried, exposed, router, turn, calls, turn_input, stored, said>>
    BY <1>5 DEF Compact, boot
  <2>2. missed' \in BOOLEAN
    BY <1>5 DEF Compact
  <2>3. IsSeq(history')
    <3>1. IsSeq(history) /\ Cut(history) \in 0..Len(history) /\ Len(history) \in Nat
      BY CutBeforeLastUser, SeqIsFunction DEF Sequences
    <3>2. CASE UNCHANGED history
      BY <3>1, <3>2
    <3>3. CASE \E roles : Replaced(roles)
      <4>1. PICK roles : Replaced(roles)
        BY <3>3
      <4>2. IsSeq(Summaries(roles, Part(history, 1, Cut(history))))
        BY <4>1, SeqIsFunction, SeqOfFunction DEF Replaced, Summaries
      <4>3. IsSeq(Part(history, Cut(history) + 1, Len(history)))
        <5>1. /\ Cut(history) + 1 \in 1..Len(history) + 1 /\ Len(history) \in 0..Len(history)
              /\ Cut(history) + 1 <= Len(history) + 1
          BY <3>1
        <5>. QED
          BY <3>1, <5>1, SeqPart
      <4>. QED
        BY <4>1, <4>2, <4>3, SeqConcat DEF Replaced
    <3>. QED
      BY <1>5, <3>1, <3>2, <3>3, CompactHistory
  <2>4. Sequences'
    BY <2>1, <2>3 DEF Sequences
  <2>. QED
    BY <2>1, <2>2, <2>4
<1>6. ASSUME MaxTurnsReached
      PROVE  (TypeOK /\ Sequences /\ Phasing)'
  <2>1. /\ phase' = "done" /\ router' = <<>>
        /\ UNCHANGED <<every, up, tried, exposed, turn, calls, turn_input, stored, history, said, missed>>
    BY <1>6 DEF MaxTurnsReached
  <2>2. DOMAIN router' = {}
    BY <2>1
  <2>. QED
    BY <2>1, <2>2 DEF Sequences
<1>7. ASSUME UNCHANGED vars
      PROVE  (TypeOK /\ Sequences /\ Phasing)'
  BY <1>7 DEF vars, boot, Sequences
<1>. QED
  BY <1>1, <1>2, <1>3, <1>4, <1>5, <1>6, <1>7 DEF Next

-----------------------------------------------------------------------------
(* Calls, the router and the results                                       *)

LEMMA CallsMadeNext ==
    ASSUME TypeOK, Sequences, CallsMade, [Next]_vars
    PROVE  CallsMade'
<1>. USE DEF CallsMade
<1>1. CASE BootServer
  <2>1. tried \in Nat /\ tried < Len(Servers) /\ UNCHANGED <<turn, calls>>
    BY <1>1 DEF BootServer, TypeOK
  <2>2. exposed' \subseteq DOMAIN RawSize
    BY <1>1, <2>1, Boots
  <2>. QED
    BY <2>1, <2>2
<1>2. CASE Infer
  <2>1. PICK output : Output(output, calls', turn')
    BY <1>2, InferOutput
  <2>2. exposed' = exposed
    BY <1>2 DEF Infer
  <2>. QED
    BY <2>1, <2>2, ToolsAssumption DEF Output
<1>3. CASE UNCHANGED <<turn, calls, exposed>>
  BY <1>3
<1>. QED
  BY <1>1, <1>2, <1>3 DEF Next, Booted, ToolsDone, Compact, MaxTurnsReached, boot, vars

LEMMA RoutingNext ==
    ASSUME TypeOK, Sequences, Routing, [Next]_vars
    PROVE  Routing'
<1>. USE DEF Routing
<1>0. DOMAIN <<>> = {}
  OBVIOUS
<1>1. CASE BootServer
  <2>1. tried \in Nat /\ tried < Len(Servers) /\ phase = "boot" /\ phase' = phase /\ tried' = tried + 1
    BY <1>1 DEF BootServer, TypeOK
  <2>2. CASE UNCHANGED <<up, exposed, router>>
    BY <2>1, <2>2 DEF OffersAs
  <2>3. CASE ~UNCHANGED <<up, exposed, router>>
    <3>. DEFINE s == Servers[tried']
    <3>1. /\ up' = up \cup {tried'}
          /\ exposed' = exposed \cup {Exposed(s, s.tools[k]) : k \in Offered(s)}
          /\ DOMAIN router' = {Exposed(s, s.tools[k]) : k \in Offered(s)} \cup DOMAIN router
          /\ \A name \in DOMAIN router' :
               \/ name \in DOMAIN router /\ router'[name] = router[name]
               \/ /\ router'[name][1] = tried'
                  /\ router'[name][2] \in ToSet(s.tools)
                  /\ s.allowed # {} => router'[name][2] \in s.allowed
                  /\ Exposed(s, router'[name][2]) = name
      BY <1>1, <2>1, <2>3, Boots
    <3>. HIDE DEF s
    <3>2. DOMAIN router' = exposed'
      BY <2>1, <3>1
    <3>3. ASSUME NEW name \in DOMAIN router'
          PROVE  LET server == router'[name][1]
                     tool == router'[name][2]
                 IN /\ server # 0 /\ server \in up'
                    /\ tool \in ToSet(Servers[server].tools)
                    /\ Servers[server].allowed # {} => tool \in Servers[server].allowed
                    /\ Exposed(Servers[server], tool) = name
      <4>1. CASE name \in DOMAIN router /\ router'[name] = router[name]
        BY <3>1, <4>1 DEF OffersAs
      <4>2. CASE ~(name \in DOMAIN router /\ router'[name] = router[name])
        BY <2>1, <3>1, <4>2 DEF OffersAs, s
      <4>. QED
        BY <4>1, <4>2
    <3>. QED
      BY <3>2, <3>3 DEF OffersAs
  <2>. QED
    BY <2>2, <2>3
<1>2. CASE Infer
  <2>1. /\ phase = "turn" /\ UNCHANGED <<up, exposed>>
        /\ \/ router' = router
           \/ router' = <<>> /\ phase' = "done"
    <3>1. phase' = IF Len(calls') = 0 THEN "done" ELSE "tools"
      BY <1>2, InferOutput
    <3>2. router' = IF Len(calls') = 0 THEN <<>> ELSE router
      BY <1>2, InferOutput
    <3>. QED
      BY <1>2, <3>1, <3>2 DEF Infer
  <2>2. CASE router' = router
    BY <2>1, <2>2 DEF OffersAs
  <2>3. CASE router' = <<>> /\ phase' = "done"
    BY <1>0, <2>3
  <2>. QED
    BY <2>1, <2>2, <2>3
<1>3. CASE MaxTurnsReached
  <2>1. phase' = "done" /\ router' = <<>>
    BY <1>3 DEF MaxTurnsReached
  <2>. QED
    BY <1>0, <2>1
<1>4. CASE UNCHANGED <<up, exposed, router>> /\ (phase' # "done" => phase # "done")
  BY <1>4 DEF OffersAs
<1>. QED
  BY <1>1, <1>2, <1>3, <1>4 DEF Next, Booted, ToolsDone, Compact, boot, vars

LEMMA ResultsNext ==
    ASSUME TypeOK, Sequences, Phasing, Results, [Next]_vars
    PROVE  Results'
<1>. USE DEF Results
<1>1. CASE Infer
  <2>1. phase' = IF Len(calls') = 0 THEN "done" ELSE "tools"
    BY <1>1, InferOutput
  <2>. QED
    BY <2>1
<1>2. CASE ToolsDone
  <2>1. PICK results : Outputs(results) /\ turn_input' = results
    BY <1>2, ToolsOutput DEF Sequences
  <2>2. UNCHANGED <<router, calls>>
    BY <1>2 DEF ToolsDone, boot
  <2>. QED
    BY <2>1, <2>2 DEF Outputs, Target
<1>3. CASE BootServer \/ Booted \/ MaxTurnsReached
  BY <1>3 DEF BootServer, Booted, MaxTurnsReached, Phasing
<1>4. CASE Compact
  <2>1. /\ phase = "compact" /\ UNCHANGED <<router, turn, calls, turn_input>>
    BY <1>4 DEF Compact, boot
  <2>. QED
    BY <2>1 DEF Target
<1>5. CASE UNCHANGED vars
  BY <1>5 DEF vars, boot, Target
<1>. QED
  BY <1>1, <1>2, <1>3, <1>4, <1>5 DEF Next

\* The cap: what is cut is as long as twice a half and the notice.
LEMMA CappedBounded ==
    ASSUME NEW n \in Nat
    PROVE  Capped(n) <= Limit + Marker
<1>1. MaxToolOutput \in Nat /\ Marker \in Nat
  BY ConversationAssumption
<1>2. MaxToolOutput \div 2 \in Nat /\ 2 * (MaxToolOutput \div 2) <= MaxToolOutput
  BY <1>1
<1>3. 2 * Half <= Limit
  BY <1>1, <1>2 DEF Half, Limit
<1>. QED
  BY <1>1, <1>2, <1>3 DEF Capped, Limit, Half

LEMMA CappedNext ==
    ASSUME Sequences, CallsMade, OutputsCapped, [Next]_vars
    PROVE  OutputsCapped'
<1>1. ASSUME NEW more, IsSeq(more), said' = Cat(said, more),
             \A i \in 1..Len(more) : more[i].kind = "output" => more[i].size <= Limit + Marker
      PROVE  OutputsCapped'
  <2>1. /\ IsSeq(said') /\ Len(said') = Len(said) + Len(more)
        /\ \A i \in 1..Len(said) + Len(more) :
              said'[i] = IF i <= Len(said) THEN said[i] ELSE more[i - Len(said)]
    BY <1>1, SeqConcat DEF Sequences
  <2>2. /\ DOMAIN said' = 1..Len(said) + Len(more) /\ DOMAIN said = 1..Len(said)
        /\ Len(said) \in Nat /\ Len(more) \in Nat
    BY <1>1, <2>1, SeqIsFunction DEF Sequences
  <2>3. ASSUME NEW i \in DOMAIN said', said'[i].kind = "output"
        PROVE  said'[i].size <= Limit + Marker
    <3>1. CASE i <= Len(said)
      BY <2>1, <2>2, <2>3, <3>1 DEF OutputsCapped
    <3>2. CASE ~(i <= Len(said))
      <4>1. i - Len(said) \in 1..Len(more)
        BY <2>2, <3>2
      <4>. QED
        BY <1>1, <2>1, <2>2, <2>3, <3>2, <4>1
    <3>. QED
      BY <3>1, <3>2
  <2>. QED
    BY <2>3 DEF OutputsCapped, Limit
<1>2. CASE Infer
  <2>1. PICK output : Output(output, calls', turn') /\ said' = Cat(said, output)
    BY <1>2, InferOutput
  <2>2. ASSUME NEW i \in 1..Len(output) PROVE output[i].kind # "output"
    <3>1. Len(output) \in Nat /\ Len(calls') \in Nat /\ Len(calls') <= Len(output)
      BY <2>1, SeqIsFunction DEF Output
    <3>2. CASE i <= Len(output) - Len(calls')
      BY <2>1, <3>1, <3>2 DEF Output
    <3>3. CASE ~(i <= Len(output) - Len(calls'))
      <4>. DEFINE k == i - (Len(output) - Len(calls'))
      <4>1. k \in 1..Len(calls') /\ Len(output) - Len(calls') + k = i
        BY <3>1, <3>3
      <4>. HIDE DEF k
      <4>. QED
        BY <2>1, <4>1 DEF Output
    <3>. QED
      BY <3>2, <3>3
  <2>. QED
    BY <1>1, <2>1, <2>2 DEF Output
<1>3. CASE ToolsDone
  <2>1. PICK results : Outputs(results) /\ said' = Cat(said, results)
    BY <1>3, ToolsOutput DEF Sequences
  <2>2. ASSUME NEW i \in 1..Len(results) PROVE results[i].size <= Limit + Marker
    <3>1. i \in 1..Len(calls) /\ results[i].size = Capped(RawSize[calls[i].name])
      BY <2>1 DEF Outputs
    <3>2. RawSize[calls[i].name] \in Nat
      BY <3>1, ToolsAssumption DEF CallsMade
    <3>. QED
      BY <3>1, <3>2, CappedBounded
  <2>. QED
    BY <1>1, <2>1, <2>2 DEF Outputs
<1>4. CASE UNCHANGED said
  BY <1>4 DEF OutputsCapped, Limit
<1>. QED
  BY <1>2, <1>3, <1>4 DEF Next, BootServer, Booted, Compact, MaxTurnsReached, vars

-----------------------------------------------------------------------------
(* The conversation is kept whole                                          *)

\* What is said goes on: the items there were, then more.
LEMMA Grown ==
    ASSUME NEW old, NEW more, IsSeq(old), IsSeq(more), NEW new, new = Cat(old, more)
    PROVE  /\ Len(old) \in Nat /\ Len(more) \in Nat
           /\ IsSeq(new) /\ Len(new) = Len(old) + Len(more)
           /\ \A i \in 1..Len(old) : new[i] = old[i]
           /\ \A k \in 1..Len(more) : new[Len(old) + k] = more[k]
           /\ \A i \in 1..Len(new) :
                 i \in 1..Len(old) \/ \E k \in 1..Len(more) : i = Len(old) + k
<1>1. Len(old) \in Nat /\ Len(more) \in Nat
  BY SeqIsFunction
<1>2. /\ IsSeq(new) /\ Len(new) = Len(old) + Len(more)
      /\ \A i \in 1..Len(old) + Len(more) :
            new[i] = IF i <= Len(old) THEN old[i] ELSE more[i - Len(old)]
  BY SeqConcat
<1>3. \A i \in 1..Len(old) : new[i] = old[i]
  BY <1>1, <1>2
<1>4. ASSUME NEW k \in 1..Len(more) PROVE new[Len(old) + k] = more[k]
  <2>1. /\ Len(old) + k \in 1..Len(old) + Len(more) /\ ~(Len(old) + k <= Len(old))
        /\ Len(old) + k - Len(old) = k
    BY <1>1
  <2>. QED
    BY <1>2, <2>1
<1>5. ASSUME NEW i \in 1..Len(new), i \notin 1..Len(old)
      PROVE  \E k \in 1..Len(more) : i = Len(old) + k
  <2>1. i - Len(old) \in 1..Len(more) /\ i = Len(old) + (i - Len(old))
    BY <1>1, <1>2, <1>5
  <2>. QED
    BY <2>1
<1>. QED
  BY <1>1, <1>2, <1>3, <1>4, <1>5

\* Where the calls are in what an inference adds.
LEMMA OutputItems ==
    ASSUME NEW output, NEW made, NEW n, Output(output, made, n)
    PROVE  /\ Len(output) \in Nat /\ Len(made) \in Nat /\ Len(made) <= Len(output)
           /\ \A i \in 1..Len(output) :
                \/ output[i].kind = "assistant"
                \/ \E k \in 1..Len(made) : i = Len(output) - Len(made) + k /\ output[i] = made[k]
<1>1. Len(output) \in Nat /\ Len(made) \in Nat /\ Len(made) <= Len(output)
  BY SeqIsFunction DEF Output
<1>2. ASSUME NEW i \in 1..Len(output), ~(i <= Len(output) - Len(made))
      PROVE  \E k \in 1..Len(made) : i = Len(output) - Len(made) + k /\ output[i] = made[k]
  <2>. DEFINE k == i - (Len(output) - Len(made))
  <2>1. k \in 1..Len(made) /\ i = Len(output) - Len(made) + k
    BY <1>1, <1>2
  <2>. HIDE DEF k
  <2>. QED
    BY <2>1 DEF Output
<1>. QED
  BY <1>1, <1>2 DEF Output

LEMMA OutputKinds ==
    ASSUME NEW output, NEW made, NEW n, Output(output, made, n)
    PROVE  \A i \in 1..Len(output) : output[i].kind \in {"assistant", "call"}
<1>. SUFFICES ASSUME NEW i \in 1..Len(output)
              PROVE  output[i].kind \in {"assistant", "call"}
  OBVIOUS
<1>1. CASE output[i].kind = "assistant"
  BY <1>1
<1>2. CASE \E k \in 1..Len(made) : output[i] = made[k]
  <2>1. PICK k \in 1..Len(made) : output[i] = made[k]
    BY <1>2
  <2>2. made[k].kind = "call"
    BY DEF Output
  <2>. QED
    BY <2>1, <2>2
<1>. QED
  BY <1>1, <1>2, OutputItems

LEMMA WholeInit ==
    ASSUME Init
    PROVE  Whole
<1>1. IsSeq(said) /\ Len(said) \in Nat /\ \A i \in 1..Len(said) : said[i] \in InputItems
  BY InputsAssumption, SeqOfSet, SeqIsFunction DEF Init
<1>2. \A i \in 1..Len(said) : said[i].kind # "summary"
  BY <1>1, InputsAssumption
<1>3. WellFormed(history) /\ Meaning(history) = said
  BY <1>1, <1>2, MeaningVerbatim DEF Init
<1>4. every = 0 => Context = said
  <2>1. every = 0 => Context = Cat(<<>>, said)
    BY DEF Init, Context, Cat
  <2>. QED
    BY <1>1, <2>1, SeqUnit
<1>5. phase = "boot"
  BY DEF Init
<1>. QED
  BY <1>2, <1>3, <1>4, <1>5 DEF Whole

LEMMA WholeNext ==
    ASSUME TypeOK, Sequences, Phasing, Whole, [Next]_vars
    PROVE  Whole'
<1>0. every \in Nat
  BY ConversationAssumption DEF TypeOK
<1>1. ASSUME NEW more, IsSeq(more), \A i \in 1..Len(more) : more[i].kind # "summary",
             said' = Cat(said, more),
             history' = IF every > 0 THEN Cat(history, more) ELSE history
      PROVE  /\ \A i \in 1..Len(said') : said'[i].kind # "summary"
             /\ every > 0 => WellFormed(history') /\ Meaning(history') = said'
  <2>1. ASSUME NEW i \in 1..Len(said')
        PROVE  said'[i].kind # "summary"
    <3>1. CASE i \in 1..Len(said)
      <4>1. said'[i] = said[i]
        BY <1>1, <3>1, Grown DEF Sequences
      <4>. QED
        BY <3>1, <4>1 DEF Whole
    <3>2. CASE i \notin 1..Len(said)
      <4>1. PICK k \in 1..Len(more) : i = Len(said) + k
        BY <1>1, <3>2, Grown DEF Sequences
      <4>2. said'[Len(said) + k] = more[k]
        BY <1>1, Grown DEF Sequences
      <4>. QED
        BY <1>1, <4>1, <4>2
    <3>. QED
      BY <3>1, <3>2
  <2>2. WellFormed(more) /\ Meaning(more) = more
    BY <1>1, MeaningVerbatim
  <2>3. CASE every > 0
    <3>1. WellFormed(history) /\ Meaning(history) = said
      BY <2>3 DEF Whole
    <3>2. history' = Cat(history, more)
      BY <1>1, <2>3
    <3>. QED
      BY <1>1, <2>1, <2>2, <3>1, <3>2, MeaningConcat
  <2>. QED
    BY <2>1, <2>3
<1>2. CASE Infer
  <2>1. PICK output :
             /\ Output(output, calls', turn')
             /\ said' = Cat(said, output)
             /\ stored' = IF every > 0 THEN stored ELSE Append(stored, Cat(Context, output))
             /\ history' = IF every > 0 THEN Cat(history, output) ELSE history
             /\ phase' = IF Len(calls') = 0 THEN "done" ELSE "tools"
             /\ router' = IF Len(calls') = 0 THEN <<>> ELSE router
    BY <1>2, InferOutput
  <2>2. phase = "turn" /\ every' = every
    BY <1>2 DEF Infer
  <2>3. IsSeq(output) /\ \A i \in 1..Len(output) : output[i].kind # "summary"
    BY <2>1, OutputKinds DEF Output
  <2>4. every = 0 => stored' # <<>> /\ Last(stored') = said'
    <3>1. CASE every = 0
      <4>1. Context = said
        BY <2>2, <3>1 DEF Whole
      <4>2. stored' = Append(stored, said')
        BY <2>1, <3>1, <4>1
      <4>. QED
        BY <4>2, SeqAppend DEF Sequences
    <3>. QED
      BY <3>1
  <2>5. /\ \A i \in 1..Len(said') : said'[i].kind # "summary"
        /\ every > 0 => WellFormed(history') /\ Meaning(history') = said'
    BY <1>1, <2>1, <2>3
  <2>6. phase' \in {"done", "tools"}
    BY <2>1
  <2>. QED
    BY <2>2, <2>4, <2>5, <2>6 DEF Whole
<1>3. CASE ToolsDone
  <2>1. PICK results :
             /\ Outputs(results)
             /\ said' = Cat(said, results)
             /\ turn_input' = results
             /\ history' = IF every > 0 THEN Cat(history, results) ELSE history
    BY <1>3, ToolsOutput DEF Sequences
  <2>2. phase = "tools" /\ every' = every /\ stored' = stored /\ phase' \in {"compact", "turn"}
    BY <1>3 DEF ToolsDone
  <2>3. IsSeq(results) /\ \A i \in 1..Len(results) : results[i].kind # "summary"
    BY <2>1 DEF Outputs
  <2>4. every = 0 => Context' = said'
    <3>1. every = 0 => Context' = Cat(Last(stored), results)
      BY <1>0, <2>1, <2>2 DEF Context, Cat, Whole
    <3>. QED
      BY <2>1, <2>2, <3>1 DEF Whole
  <2>5. /\ \A i \in 1..Len(said') : said'[i].kind # "summary"
        /\ every > 0 => WellFormed(history') /\ Meaning(history') = said'
    BY <1>1, <2>1, <2>3
  <2>. QED
    BY <2>2, <2>4, <2>5 DEF Whole
<1>4. CASE Compact
  <2>1. phase = "compact" /\ phase' = "turn" /\ UNCHANGED <<every, said>>
    BY <1>4 DEF Compact
  <2>2. every > 0
    BY <2>1 DEF Phasing
  <2>3. /\ WellFormed(history) /\ Meaning(history) = said
        /\ IsSeq(history) /\ Len(history) \in Nat /\ Cut(history) \in 0..Len(history)
    BY <2>2, CutBeforeLastUser, SeqIsFunction DEF Whole, Sequences
  <2>4. CASE UNCHANGED history
    BY <2>1, <2>2, <2>3, <2>4 DEF Whole
  <2>5. CASE \E roles : Replaced(roles)
    <3>1. PICK roles : Replaced(roles)
      BY <2>5
    <3>. DEFINE cut == Cut(history)
                prefix == Part(history, 1, cut)
                tail == Part(history, cut + 1, Len(history))
                short == Summaries(roles, prefix)
    <3>2. IsSeq(prefix) /\ Len(prefix) = cut /\ \A i \in 1..cut : prefix[i] = history[i]
      <4>1. IsSeq(prefix) /\ Len(prefix) = cut - 1 + 1
            /\ \A i \in 1..cut - 1 + 1 : prefix[i] = history[1 + i - 1]
        BY <2>3, SeqPart
      <4>. HIDE DEF prefix
      <4>. QED
        BY <2>3, <4>1
    <3>3. /\ IsSeq(tail) /\ Len(tail) = Len(history) - cut
          /\ \A i \in 1..Len(history) - cut : tail[i] = history[cut + i]
      BY <2>3, SeqRest
    <3>4. history = Cat(prefix, tail)
      BY <2>3, SeqCut
    <3>5. history' = Cat(short, tail)
      BY <3>1 DEF Replaced
    <3>. HIDE DEF prefix, tail
    <3>6. WellFormed(prefix) /\ WellFormed(tail)
      <4>1. \A i \in 1..cut : IsSeq(StandsFor(prefix[i]))
        BY <2>3, <3>2 DEF WellFormed
      <4>2. ASSUME NEW i \in 1..Len(history) - cut
            PROVE  IsSeq(StandsFor(tail[i]))
        <5>1. cut + i \in 1..Len(history)
          BY <2>3
        <5>2. tail[i] = history[cut + i]
          BY <3>3
        <5>. QED
          BY <2>3, <5>1, <5>2 DEF WellFormed
      <4>. QED
        BY <3>2, <3>3, <4>1, <4>2 DEF WellFormed
    <3>7. WellFormed(short) /\ Meaning(short) = Meaning(prefix)
      BY <3>1, <3>6, MeaningSummaries DEF Replaced
    <3>. HIDE DEF short
    <3>8. WellFormed(history') /\ Meaning(history') = Meaning(history)
      BY <3>4, <3>5, <3>6, <3>7, MeaningConcat
    <3>. QED
      BY <2>1, <2>2, <2>3, <3>8 DEF Whole
  <2>. QED
    BY <1>4, <2>3, <2>4, <2>5, CompactHistory
<1>5. CASE /\ UNCHANGED <<every, turn_input, stored, history, said>>
           /\ phase' = "tools" => phase = "tools"
           /\ phase' \in {"boot", "turn"} => phase \in {"boot", "turn"}
  BY <1>5 DEF Whole, Context
<1>6. CASE BootServer \/ Booted \/ MaxTurnsReached \/ UNCHANGED vars
  BY <1>5, <1>6 DEF BootServer, Booted, MaxTurnsReached, vars
<1>. QED
  BY <1>2, <1>3, <1>4, <1>6 DEF Next

-----------------------------------------------------------------------------
(* Each call has its output                                                *)

LEMMA PairedInit ==
    ASSUME Init
    PROVE  Paired
<1>1. IsSeq(said) /\ \A i \in 1..Len(said) : said[i] \in InputItems
  BY InputsAssumption, SeqOfSet DEF Init
<1>2. \A i \in 1..Len(said) : said[i].kind # "call" /\ said[i].kind # "output"
  BY <1>1, InputsAssumption
<1>3. phase = "boot"
  BY DEF Init
<1>. QED
  BY <1>2, <1>3 DEF Paired, Ids, Unique, UsersFirst, OutputsFollow, CallsFollowed, CallsLast, IsPart

LEMMA PairedInfer ==
    ASSUME TypeOK, Sequences, Paired, Infer
    PROVE  Paired'
<1>. USE DEF IsPart
<1>1. PICK output :
           /\ Output(output, calls', turn')
           /\ said' = Cat(said, output)
           /\ phase' = IF Len(calls') = 0 THEN "done" ELSE "tools"
  BY InferOutput
<1>2. phase = "turn" /\ turn' = turn + 1 /\ turn \in Nat
  BY DEF Infer, TypeOK
<1>3. /\ Len(said) \in Nat /\ Len(output) \in Nat /\ Len(calls') \in Nat
      /\ Len(calls') <= Len(output) /\ Len(said') = Len(said) + Len(output)
      /\ \A i \in 1..Len(said) : said'[i] = said[i] /\ i \in 1..Len(said')
      /\ \A k \in 1..Len(output) : said'[Len(said) + k] = output[k]
  BY <1>1, Grown, OutputItems DEF Sequences, Output
<1>4. \A m \in 1..Len(calls') :
        calls'[m].kind = "call" /\ calls'[m].id = <<turn', m>> /\ calls'[m].id[1] = turn'
  BY <1>1 DEF Output
<1>5. ASSUME NEW i \in 1..Len(said'), i \notin 1..Len(said)
      PROVE  /\ i > Len(said)
             /\ \/ said'[i].kind = "assistant"
                \/ \E m \in 1..Len(calls') :
                      i = Len(said') - Len(calls') + m /\ said'[i] = calls'[m]
  <2>1. i > Len(said)
    BY <1>3, <1>5
  <2>2. PICK k \in 1..Len(output) : i = Len(said) + k
    BY <1>1, <1>5, Grown DEF Sequences, Output
  <2>3. said'[i] = output[k]
    BY <1>3, <2>2
  <2>4. CASE \E m \in 1..Len(calls') : k = Len(output) - Len(calls') + m /\ output[k] = calls'[m]
    <3>1. PICK m \in 1..Len(calls') : k = Len(output) - Len(calls') + m /\ output[k] = calls'[m]
      BY <2>4
    <3>2. i = Len(said') - Len(calls') + m
      BY <1>3, <2>2, <3>1
    <3>. QED
      BY <2>1, <2>3, <3>1, <3>2
  <2>5. \/ output[k].kind = "assistant"
        \/ \E m \in 1..Len(calls') : k = Len(output) - Len(calls') + m /\ output[k] = calls'[m]
    BY <1>1, OutputItems
  <2>. QED
    BY <2>1, <2>3, <2>4, <2>5
<1>6. Ids'
  <2>1. ASSUME NEW i \in 1..Len(said'), IsPart(said'[i])
        PROVE  said'[i].id[1] \in 1..turn'
    <3>1. CASE i \in 1..Len(said)
      <4>1. said[i].id[1] \in 1..turn
        BY <1>3, <2>1, <3>1 DEF Paired, Ids
      <4>. QED
        BY <1>2, <1>3, <3>1, <4>1
    <3>2. CASE i \notin 1..Len(said)
      <4>1. PICK m \in 1..Len(calls') : said'[i] = calls'[m]
        BY <1>5, <2>1, <3>2
      <4>2. said'[i].id[1] = turn'
        BY <1>4, <4>1
      <4>. QED
        BY <1>2, <4>2
    <3>. QED
      BY <3>1, <3>2
  <2>. QED
    BY <2>1 DEF Ids
<1>7. ASSUME NEW i \in 1..Len(said'), IsPart(said'[i]), i \notin 1..Len(said)
      PROVE  \E m \in 1..Len(calls') :
                /\ i = Len(said') - Len(calls') + m
                /\ said'[i].kind = "call" /\ said'[i].id = <<turn', m>> /\ said'[i].id[1] = turn'
  <2>1. PICK m \in 1..Len(calls') : i = Len(said') - Len(calls') + m /\ said'[i] = calls'[m]
    BY <1>5, <1>7
  <2>. QED
    BY <1>4, <2>1
<1>8. Unique'
  <2>1. ASSUME NEW i \in 1..Len(said'), NEW k \in 1..Len(said'), IsPart(said'[i]),
               said'[i].kind = said'[k].kind, said'[i].id = said'[k].id
        PROVE  i = k
    <3>0. IsPart(said'[k])
      BY <2>1
    <3>1. CASE i \in 1..Len(said) /\ k \in 1..Len(said)
      <4>1. IsPart(said[i]) /\ said[i].kind = said[k].kind /\ said[i].id = said[k].id
        BY <1>3, <2>1, <3>1
      <4>. QED
        BY <3>1, <4>1 DEF Paired, Unique
    <3>2. ASSUME NEW x \in 1..Len(said), NEW y \in 1..Len(said'), y \notin 1..Len(said),
                 IsPart(said'[x]), IsPart(said'[y])
          PROVE  said'[x].id # said'[y].id
      <4>1. said'[y].id[1] = turn'
        BY <1>7, <3>2
      <4>2. said'[x].id[1] \in 1..turn
        BY <1>3, <3>2 DEF Paired, Ids
      <4>3. said'[x].id[1] # said'[y].id[1]
        BY <1>2, <4>1, <4>2
      <4>. QED
        BY <4>3
    <3>3. CASE i \notin 1..Len(said) /\ k \notin 1..Len(said)
      <4>1. PICK m \in 1..Len(calls') :
              i = Len(said') - Len(calls') + m /\ said'[i].id = <<turn', m>>
        BY <1>7, <2>1, <3>3
      <4>2. PICK n \in 1..Len(calls') :
              k = Len(said') - Len(calls') + n /\ said'[k].id = <<turn', n>>
        BY <1>7, <3>0, <3>3
      <4>3. m = n
        BY <2>1, <4>1, <4>2
      <4>. QED
        BY <4>1, <4>2, <4>3
    <3>. QED
      BY <2>1, <3>0, <3>1, <3>2, <3>3
  <2>. QED
    BY <2>1 DEF Unique
<1>9. UsersFirst'
  <2>1. ASSUME NEW i \in 1..Len(said'), NEW k \in 1..Len(said'),
               said'[i].kind = "user", IsPart(said'[k])
        PROVE  i < k
    <3>1. i \in 1..Len(said)
      <4>1. CASE i \notin 1..Len(said)
        BY <1>4, <1>5, <2>1, <4>1
      <4>. QED
        BY <4>1
    <3>2. CASE k \in 1..Len(said)
      BY <1>3, <2>1, <3>1, <3>2 DEF Paired, UsersFirst
    <3>3. CASE k \notin 1..Len(said)
      BY <1>3, <1>5, <3>1, <3>3
    <3>. QED
      BY <3>2, <3>3
  <2>. QED
    BY <2>1 DEF UsersFirst
<1>10. OutputsFollow'
  <2>1. ASSUME NEW k \in 1..Len(said'), said'[k].kind = "output"
        PROVE  /\ \E i \in 1..Len(said') :
                     i < k /\ said'[i].kind = "call" /\ said'[i].id = said'[k].id
               /\ said'[k].id[1] < turn'
    <3>1. k \in 1..Len(said)
      BY <1>7, <2>1
    <3>2. said[k].kind = "output" /\ said'[k] = said[k]
      BY <1>3, <2>1, <3>1
    <3>3. PICK i \in 1..Len(said) : i < k /\ said[i].kind = "call" /\ said[i].id = said[k].id
      BY <3>1, <3>2 DEF Paired, OutputsFollow
    <3>4. said[k].id[1] \in 1..turn
      BY <3>1, <3>2 DEF Paired, Ids
    <3>5. i \in 1..Len(said') /\ said'[i] = said[i]
      BY <1>3
    <3>. QED
      BY <1>2, <3>2, <3>3, <3>4, <3>5
  <2>. QED
    BY <2>1 DEF OutputsFollow
<1>11. CallsFollowed'
  <2>1. ASSUME NEW i \in 1..Len(said'), said'[i].kind = "call"
        PROVE  \/ \E k \in 1..Len(said') :
                     i < k /\ said'[k].kind = "output" /\ said'[k].id = said'[i].id
               \/ phase' = "tools" /\ i > Len(said') - Len(calls')
    <3>1. CASE i \in 1..Len(said)
      <4>1. said[i].kind = "call" /\ said'[i] = said[i]
        BY <1>3, <2>1, <3>1
      <4>2. PICK k \in 1..Len(said) : i < k /\ said[k].kind = "output" /\ said[k].id = said[i].id
        BY <1>2, <3>1, <4>1 DEF Paired, CallsFollowed
      <4>3. k \in 1..Len(said') /\ said'[k] = said[k]
        BY <1>3
      <4>. QED
        BY <4>1, <4>2, <4>3
    <3>2. CASE i \notin 1..Len(said)
      <4>1. PICK m \in 1..Len(calls') : i = Len(said') - Len(calls') + m
        BY <1>7, <2>1, <3>2
      <4>2. phase' = "tools"
        BY <1>1, <1>3, <4>1
      <4>3. i > Len(said') - Len(calls')
        BY <1>3, <4>1
      <4>. QED
        BY <4>2, <4>3
    <3>. QED
      BY <3>1, <3>2
  <2>. QED
    BY <2>1 DEF CallsFollowed
<1>12. CallsLast'
  <2>1. Len(calls') <= Len(said')
    BY <1>3
  <2>2. ASSUME NEW m \in 1..Len(calls')
        PROVE  said'[Len(said') - Len(calls') + m] = calls'[m]
    <3>1. /\ Len(output) - Len(calls') + m \in 1..Len(output)
          /\ Len(said') - Len(calls') + m = Len(said) + (Len(output) - Len(calls') + m)
      BY <1>3
    <3>2. output[Len(output) - Len(calls') + m] = calls'[m]
      BY <1>1 DEF Output
    <3>. QED
      BY <1>3, <3>1, <3>2
  <2>. QED
    BY <2>1, <2>2 DEF CallsLast
<1>. QED
  BY <1>6, <1>8, <1>9, <1>10, <1>11, <1>12 DEF Paired

LEMMA PairedTools ==
    ASSUME TypeOK, Sequences, Phasing, CallsMade, Paired, ToolsDone
    PROVE  Paired'
<1>. USE DEF IsPart
<1>1. PICK results : Outputs(results) /\ said' = Cat(said, results)
  BY ToolsOutput DEF Sequences
<1>2. /\ phase = "tools" /\ phase' # "tools" /\ turn' = turn /\ turn \in Nat /\ turn > 0
  BY DEF ToolsDone, TypeOK, Phasing
<1>3. /\ Len(said) \in Nat /\ Len(calls) \in Nat /\ Len(said') = Len(said) + Len(calls)
      /\ \A i \in 1..Len(said) : said'[i] = said[i] /\ i \in 1..Len(said')
      /\ \A m \in 1..Len(calls) : said'[Len(said) + m] = results[m] /\ Len(said) + m \in 1..Len(said')
      /\ \A i \in 1..Len(said') : i \in 1..Len(said) \/ \E m \in 1..Len(calls) : i = Len(said) + m
  <2>1. IsSeq(results) /\ Len(results) = Len(calls) /\ IsSeq(said)
    BY <1>1 DEF Outputs, Sequences
  <2>. QED
    BY <1>1, <2>1, Grown
<1>4. \A m \in 1..Len(calls) :
        /\ said'[Len(said) + m].kind = "output" /\ said'[Len(said) + m].id = <<turn, m>>
        /\ said'[Len(said) + m].id[1] = turn
  <2>1. ASSUME NEW m \in 1..Len(calls)
        PROVE  said'[Len(said) + m].kind = "output" /\ said'[Len(said) + m].id = <<turn, m>>
    <3>1. said'[Len(said) + m] = results[m]
      BY <1>3
    <3>2. results[m].kind = "output" /\ results[m].id = calls[m].id
      BY <1>1 DEF Outputs
    <3>3. calls[m].id = <<turn, m>>
      BY DEF CallsMade
    <3>. QED
      BY <3>1, <3>2, <3>3
  <2>. QED
    BY <2>1
<1>5. \A m \in 1..Len(calls) :
        /\ Len(said) - Len(calls) + m \in 1..Len(said)
        /\ said[Len(said) - Len(calls) + m].kind = "call"
        /\ said[Len(said) - Len(calls) + m].id = <<turn, m>>
  BY <1>2, <1>3 DEF CallsMade, Paired, CallsLast
<1>6. Ids'
  <2>1. ASSUME NEW i \in 1..Len(said'), IsPart(said'[i])
        PROVE  said'[i].id[1] \in 1..turn
    <3>1. CASE i \in 1..Len(said)
      BY <1>3, <2>1, <3>1 DEF Paired, Ids
    <3>2. CASE i \notin 1..Len(said)
      <4>1. PICK m \in 1..Len(calls) : i = Len(said) + m
        BY <1>3, <3>2
      <4>2. said'[i].id[1] = turn
        BY <1>4, <4>1
      <4>. QED
        BY <1>2, <4>2
    <3>. QED
      BY <3>1, <3>2
  <2>. QED
    BY <1>2, <2>1 DEF Ids
<1>7. Unique'
  <2>1. ASSUME NEW i \in 1..Len(said'), NEW k \in 1..Len(said'), IsPart(said'[i]),
               said'[i].kind = said'[k].kind, said'[i].id = said'[k].id
        PROVE  i = k
    <3>1. CASE i \in 1..Len(said) /\ k \in 1..Len(said)
      <4>1. IsPart(said[i]) /\ said[i].kind = said[k].kind /\ said[i].id = said[k].id
        BY <1>3, <2>1, <3>1
      <4>. QED
        BY <3>1, <4>1 DEF Paired, Unique
    <3>2. ASSUME NEW x \in 1..Len(said), NEW m \in 1..Len(calls),
                 said'[x].kind = said'[Len(said) + m].kind
          PROVE  said'[x].id # said'[Len(said) + m].id
      <4>1. said[x].kind = "output" /\ said'[x] = said[x]
        BY <1>3, <1>4, <3>2
      <4>2. said[x].id[1] < turn /\ said[x].id[1] \in 1..turn
        BY <1>2, <4>1 DEF Paired, Ids, OutputsFollow
      <4>3. said'[Len(said) + m].id[1] = turn
        BY <1>4
      <4>4. said[x].id[1] # said'[Len(said) + m].id[1]
        BY <1>2, <4>2, <4>3
      <4>. QED
        BY <4>1, <4>4
    <3>3. CASE i \notin 1..Len(said) /\ k \notin 1..Len(said)
      <4>1. PICK m \in 1..Len(calls) : i = Len(said) + m
        BY <1>3, <3>3
      <4>2. PICK n \in 1..Len(calls) : k = Len(said) + n
        BY <1>3, <3>3
      <4>3. said'[i].id = <<turn, m>> /\ said'[k].id = <<turn, n>>
        BY <1>4, <4>1, <4>2
      <4>4. <<turn, m>> = <<turn, n>>
        BY <2>1, <4>3
      <4>. QED
        BY <4>1, <4>2, <4>4
    <3>4. CASE i \in 1..Len(said) /\ k \notin 1..Len(said)
      BY <1>3, <2>1, <3>2, <3>4
    <3>5. CASE i \notin 1..Len(said) /\ k \in 1..Len(said)
      BY <1>3, <2>1, <3>2, <3>5
    <3>. QED
      BY <3>1, <3>3, <3>4, <3>5
  <2>. QED
    BY <2>1 DEF Unique
<1>8. UsersFirst'
  <2>1. ASSUME NEW i \in 1..Len(said'), NEW k \in 1..Len(said'),
               said'[i].kind = "user", IsPart(said'[k])
        PROVE  i < k
    <3>1. i \in 1..Len(said)
      BY <1>3, <1>4, <2>1
    <3>2. CASE k \in 1..Len(said)
      BY <1>3, <2>1, <3>1, <3>2 DEF Paired, UsersFirst
    <3>3. CASE k \notin 1..Len(said)
      BY <1>3, <3>1, <3>3
    <3>. QED
      BY <3>2, <3>3
  <2>. QED
    BY <2>1 DEF UsersFirst
<1>9. OutputsFollow'
  <2>1. ASSUME NEW k \in 1..Len(said'), said'[k].kind = "output"
        PROVE  \E i \in 1..Len(said') :
                  i < k /\ said'[i].kind = "call" /\ said'[i].id = said'[k].id
    <3>1. CASE k \in 1..Len(said)
      <4>1. said[k].kind = "output" /\ said'[k] = said[k]
        BY <1>3, <2>1, <3>1
      <4>2. PICK i \in 1..Len(said) : i < k /\ said[i].kind = "call" /\ said[i].id = said[k].id
        BY <3>1, <4>1 DEF Paired, OutputsFollow
      <4>3. i \in 1..Len(said') /\ said'[i] = said[i]
        BY <1>3
      <4>. QED
        BY <4>1, <4>2, <4>3
    <3>2. CASE k \notin 1..Len(said)
      <4>1. PICK m \in 1..Len(calls) : k = Len(said) + m
        BY <1>3, <3>2
      <4>. DEFINE i == Len(said) - Len(calls) + m
      <4>2. i \in 1..Len(said) /\ said[i].kind = "call" /\ said[i].id = <<turn, m>>
        BY <1>5
      <4>3. i < k
        BY <1>3, <4>1
      <4>. HIDE DEF i
      <4>4. said'[k].id = <<turn, m>> /\ said'[i] = said[i] /\ i \in 1..Len(said')
        BY <1>3, <1>4, <4>1, <4>2
      <4>. QED
        BY <4>2, <4>3, <4>4
    <3>. QED
      BY <3>1, <3>2
  <2>. QED
    BY <1>2, <2>1 DEF OutputsFollow
<1>10. CallsFollowed'
  <2>1. ASSUME NEW i \in 1..Len(said'), said'[i].kind = "call"
        PROVE  \E k \in 1..Len(said') :
                  i < k /\ said'[k].kind = "output" /\ said'[k].id = said'[i].id
    <3>1. i \in 1..Len(said) /\ said[i].kind = "call" /\ said'[i] = said[i]
      BY <1>3, <1>4, <2>1
    <3>2. CASE \E k \in 1..Len(said) :
                 i < k /\ said[k].kind = "output" /\ said[k].id = said[i].id
      <4>1. PICK k \in 1..Len(said) : i < k /\ said[k].kind = "output" /\ said[k].id = said[i].id
        BY <3>2
      <4>2. k \in 1..Len(said') /\ said'[k] = said[k]
        BY <1>3
      <4>. QED
        BY <3>1, <4>1, <4>2
    <3>3. CASE i > Len(said) - Len(calls)
      <4>. DEFINE m == i - (Len(said) - Len(calls))
      <4>1. m \in 1..Len(calls) /\ i = Len(said) - Len(calls) + m
        BY <1>2, <1>3, <3>1, <3>3 DEF Paired, CallsLast
      <4>. HIDE DEF m
      <4>2. said[i].id = <<turn, m>>
        BY <1>5, <4>1
      <4>3. /\ Len(said) + m \in 1..Len(said') /\ i < Len(said) + m
            /\ said'[Len(said) + m].kind = "output" /\ said'[Len(said) + m].id = <<turn, m>>
        BY <1>3, <1>4, <3>1, <4>1
      <4>. QED
        BY <3>1, <4>2, <4>3
    <3>. QED
      BY <3>1, <3>2, <3>3 DEF Paired, CallsFollowed
  <2>. QED
    BY <2>1 DEF CallsFollowed
<1>. QED
  BY <1>2, <1>6, <1>7, <1>8, <1>9, <1>10 DEF Paired, CallsLast

LEMMA PairedNext ==
    ASSUME TypeOK, Sequences, Phasing, CallsMade, Paired, [Next]_vars
    PROVE  Paired'
<1>1. CASE UNCHANGED <<turn, calls, said>> /\ phase # "tools" /\ phase' # "tools"
  BY <1>1 DEF Paired, Ids, Unique, UsersFirst, OutputsFollow, CallsFollowed, CallsLast, IsPart
<1>2. CASE BootServer \/ Booted \/ Compact \/ MaxTurnsReached
  BY <1>1, <1>2 DEF BootServer, Booted, Compact, MaxTurnsReached, boot
<1>3. CASE UNCHANGED vars
  BY <1>3 DEF vars, Paired, Ids, Unique, UsersFirst, OutputsFollow, CallsFollowed, CallsLast, IsPart
<1>. QED
  BY <1>2, <1>3, PairedInfer, PairedTools DEF Next

-----------------------------------------------------------------------------
(* What a compaction leaves of the history                                 *)

LEMMA ShapedInit ==
    ASSUME Init
    PROVE  Shaped
<1>1. IsSeq(said) /\ history = said
  BY InputsAssumption, SeqOfSet DEF Init
<1>2. Len(said) \in Nat
  BY <1>1, SeqIsFunction
<1>3. Shape(history, 0, 1)
  BY <1>1, <1>2 DEF Shape
<1>. QED
  BY <1>1, <1>2, <1>3 DEF Shaped

\* What an inference or the tools add is no message of the user.
LEMMA ShapeGrows ==
    ASSUME NEW more, IsSeq(more), Sequences,
           said' = Cat(said, more), history' = Cat(history, more),
           \A i \in 1..Len(more) : more[i].kind # "user",
           NEW k \in 0..Len(history), NEW j \in 1..Len(said) + 1, Shape(history, k, j)
    PROVE  k \in 0..Len(history') /\ j \in 1..Len(said') + 1 /\ Shape(history, k, j)'
<1>1. /\ Len(said) \in Nat /\ Len(more) \in Nat /\ Len(said') = Len(said) + Len(more)
      /\ \A i \in 1..Len(said) : said'[i] = said[i]
      /\ \A i \in 1..Len(more) : said'[Len(said) + i] = more[i]
      /\ \A i \in 1..Len(said') : i \in 1..Len(said) \/ \E m \in 1..Len(more) : i = Len(said) + m
  BY Grown DEF Sequences
<1>2. /\ Len(history) \in Nat /\ Len(history') = Len(history) + Len(more)
      /\ \A i \in 1..Len(history) : history'[i] = history[i]
      /\ \A i \in 1..Len(more) : history'[Len(history) + i] = more[i]
      /\ \A i \in 1..Len(history') :
            i \in 1..Len(history) \/ \E m \in 1..Len(more) : i = Len(history) + m
  BY Grown DEF Sequences
<1>3. Len(history) = k + Len(said) - j + 1
  BY DEF Shape
<1>4. ASSUME NEW i \in k + 1..Len(history')
      PROVE  history'[i] = said'[i - k + j - 1]
  <2>1. CASE i \in 1..Len(history)
    <3>1. i - k + j - 1 \in 1..Len(said) /\ i \in k + 1..Len(history)
      BY <1>1, <1>2, <1>3, <2>1
    <3>2. history[i] = said[i - k + j - 1]
      BY <3>1 DEF Shape
    <3>. QED
      BY <1>1, <1>2, <2>1, <3>1, <3>2
  <2>2. CASE i \notin 1..Len(history)
    <3>1. PICK m \in 1..Len(more) : i = Len(history) + m
      BY <1>2, <2>2
    <3>2. i - k + j - 1 = Len(said) + m
      <4>1. Len(said) \in Nat /\ k \in Nat /\ j \in Nat /\ m \in Nat
        BY <1>1, <1>2
      <4>2. i = k + Len(said) - j + 1 + m
        BY <1>3, <3>1
      <4>. QED
        BY <4>1, <4>2
    <3>3. history'[i] = more[m]
      BY <1>2, <3>1
    <3>4. said'[Len(said) + m] = more[m]
      BY <1>1
    <3>. QED
      BY <3>2, <3>3, <3>4
  <2>. QED
    BY <2>1, <2>2
<1>5. \A i \in 1..k : history'[i].kind = "summary"
  BY <1>2 DEF Shape
<1>6. \/ k = 0 /\ j = 1
      \/ /\ j <= Len(said') /\ said'[j].kind = "user"
         /\ \A i \in j + 1..Len(said') : said'[i].kind # "user"
  <2>1. SUFFICES ASSUME ~(k = 0 /\ j = 1)
                 PROVE  /\ j <= Len(said') /\ said'[j].kind = "user"
                        /\ \A i \in j + 1..Len(said') : said'[i].kind # "user"
    OBVIOUS
  <2>2. /\ j <= Len(said) /\ said[j].kind = "user"
        /\ \A i \in j + 1..Len(said) : said[i].kind # "user"
    BY <2>1 DEF Shape
  <2>3. ASSUME NEW i \in j + 1..Len(said') PROVE said'[i].kind # "user"
    <3>1. CASE i \in 1..Len(said)
      BY <1>1, <2>2, <3>1
    <3>2. CASE i \notin 1..Len(said)
      <4>1. i \in 1..Len(said')
        BY <1>1
      <4>2. PICK m \in 1..Len(more) : i = Len(said) + m
        BY <1>1, <3>2, <4>1
      <4>3. said'[i] = more[m]
        BY <1>1, <4>2
      <4>. QED
        BY <4>3
    <3>. QED
      BY <3>1, <3>2
  <2>. QED
    BY <1>1, <2>2, <2>3
<1>7. Len(history') = k + Len(said') - j + 1
  BY <1>1, <1>2, <1>3
<1>. QED
  BY <1>1, <1>2, <1>4, <1>5, <1>6, <1>7 DEF Shape

\* The last user message of the history, before which it is cut, is the last one said.
LEMMA CutAtTask ==
    ASSUME Sequences, NEW k \in 0..Len(history), NEW j \in 1..Len(said) + 1, Shape(history, k, j),
           \A i \in 1..Len(said) : said[i].kind # "summary", Cut(history) >= 2
    PROVE  \E task \in 1..Len(said) :
              /\ said[task].kind = "user"
              /\ \A i \in task + 1..Len(said) : said[i].kind # "user"
              /\ Len(history) - Cut(history) = Len(said) - task + 1
              /\ \A m \in 1..Len(history) - Cut(history) :
                    history[Cut(history) + m] = said[task + m - 1]
<1>. DEFINE cut == Cut(history)
<1>1. Len(said) \in Nat /\ Len(history) \in Nat
  BY SeqIsFunction DEF Sequences
<1>2. /\ cut \in 0..Len(history)
      /\ cut + 1 \in 1..Len(history) /\ ByUser(history[cut + 1])
      /\ \A i \in 1..Len(history) : ByUser(history[i]) => i <= cut + 1
  BY <1>1, CutBeforeLastUser DEF Sequences
<1>. HIDE DEF cut
<1>3. Len(history) = k + Len(said) - j + 1
  BY DEF Shape
<1>4. \A i \in k + 1..Len(history) : history[i] = said[i - k + j - 1]
  BY DEF Shape
<1>5. ASSUME k = 0, j = 1
      PROVE  /\ cut + 1 \in 1..Len(said) /\ said[cut + 1].kind = "user"
             /\ \A i \in cut + 1 + 1..Len(said) : said[i].kind # "user"
             /\ Len(history) - cut = Len(said) - (cut + 1) + 1
             /\ \A m \in 1..Len(history) - cut : history[cut + m] = said[cut + 1 + m - 1]
  <2>1. Len(history) = Len(said)
    BY <1>1, <1>3, <1>5
  <2>2. ASSUME NEW i \in 1..Len(said) PROVE history[i] = said[i]
    <3>1. history[i] = said[i - 0 + 1 - 1]
      BY <1>4, <1>5, <2>1
    <3>2. i - 0 + 1 - 1 = i
      OBVIOUS
    <3>. QED
      BY <3>1, <3>2
  <2>3. said[cut + 1].kind = "user"
    BY <1>2, <2>1, <2>2 DEF ByUser
  <2>4. ASSUME NEW i \in cut + 1 + 1..Len(said) PROVE said[i].kind # "user"
    <3>1. i \in 1..Len(said) /\ ~(i <= cut + 1)
      BY <1>1, <1>2
    <3>. QED
      BY <1>2, <2>1, <2>2, <3>1 DEF ByUser
  <2>5. ASSUME NEW m \in 1..Len(history) - cut PROVE history[cut + m] = said[cut + 1 + m - 1]
    <3>1. cut + m \in 1..Len(said) /\ cut + 1 + m - 1 = cut + m
      BY <1>1, <1>2, <2>1
    <3>. QED
      BY <2>2, <3>1
  <2>. QED
    BY <1>1, <1>2, <2>1, <2>3, <2>4, <2>5
<1>6. ASSUME j <= Len(said), said[j].kind = "user",
             \A i \in j + 1..Len(said) : said[i].kind # "user"
      PROVE  /\ Len(history) - cut = Len(said) - j + 1
             /\ \A m \in 1..Len(history) - cut : history[cut + m] = said[j + m - 1]
  <2>1. k + 1 \in k + 1..Len(history) /\ k + 1 \in 1..Len(history) /\ k + 1 - k + j - 1 = j
    BY <1>1, <1>3, <1>6
  <2>2. history[k + 1] = said[j]
    BY <1>4, <2>1
  <2>3. k + 1 <= cut + 1
    BY <1>2, <1>6, <2>1, <2>2 DEF ByUser
  <2>4. ASSUME cut > k PROVE FALSE
    <3>1. PICK c : c = cut + 1
      OBVIOUS
    <3>2. /\ c \in k + 1..Len(history)
          /\ c - k + j - 1 \in j + 1..Len(said) /\ c - k + j - 1 \in 1..Len(said)
      BY <1>1, <1>2, <1>3, <2>4, <3>1
    <3>3. history[c] = said[c - k + j - 1]
      BY <1>4, <3>2
    <3>4. history[c].kind # "user" /\ history[c].kind # "summary"
      BY <1>6, <3>2, <3>3
    <3>. QED
      BY <1>2, <3>1, <3>4 DEF ByUser
  <2>5. cut = k
    BY <1>2, <2>3, <2>4
  <2>6. ASSUME NEW m \in 1..Len(history) - cut PROVE history[cut + m] = said[j + m - 1]
    <3>1. PICK c : c = cut + m
      OBVIOUS
    <3>2. c \in k + 1..Len(history) /\ c - k + j - 1 = j + m - 1
      BY <1>1, <1>2, <2>5, <3>1
    <3>3. history[c] = said[c - k + j - 1]
      BY <1>4, <3>2
    <3>. QED
      BY <3>1, <3>2, <3>3
  <2>. QED
    BY <1>3, <2>5, <2>6
<1>7. CASE k = 0 /\ j = 1
  BY <1>5, <1>7 DEF cut
<1>8. CASE ~(k = 0 /\ j = 1)
  <2>1. j <= Len(said) /\ said[j].kind = "user" /\ \A i \in j + 1..Len(said) : said[i].kind # "user"
    BY <1>8 DEF Shape
  <2>2. j \in 1..Len(said)
    BY <2>1
  <2>. QED
    BY <1>6, <2>1, <2>2 DEF cut
<1>. QED
  BY <1>7, <1>8

LEMMA ShapedNext ==
    ASSUME TypeOK, Sequences, Phasing, Whole, Shaped, [Next]_vars
    PROVE  Shaped'
<1>0. every \in Nat
  BY ConversationAssumption DEF TypeOK
<1>1. ASSUME NEW more, IsSeq(more), \A i \in 1..Len(more) : more[i].kind # "user",
             every' = every, said' = Cat(said, more),
             history' = IF every > 0 THEN Cat(history, more) ELSE history
      PROVE  Shaped'
  <2>1. CASE every > 0
    <3>1. PICK k \in 0..Len(history), j \in 1..Len(said) + 1 : Shape(history, k, j)
      BY <2>1 DEF Shaped
    <3>2. history' = Cat(history, more)
      BY <1>1, <2>1
    <3>3. k \in 0..Len(history') /\ j \in 1..Len(said') + 1 /\ Shape(history, k, j)'
      BY <1>1, <3>1, <3>2, ShapeGrows
    <3>. QED
      BY <3>3 DEF Shaped
  <2>. QED
    BY <1>1, <2>1 DEF Shaped
<1>2. CASE Infer
  <2>1. PICK output :
             /\ Output(output, calls', turn')
             /\ said' = Cat(said, output)
             /\ history' = IF every > 0 THEN Cat(history, output) ELSE history
    BY <1>2, InferOutput
  <2>2. IsSeq(output) /\ \A i \in 1..Len(output) : output[i].kind # "user"
    BY <2>1, OutputKinds DEF Output
  <2>3. every' = every
    BY <1>2 DEF Infer
  <2>. QED
    BY <1>1, <2>1, <2>2, <2>3
<1>3. CASE ToolsDone
  <2>1. PICK results :
             /\ Outputs(results)
             /\ said' = Cat(said, results)
             /\ history' = IF every > 0 THEN Cat(history, results) ELSE history
    BY <1>3, ToolsOutput DEF Sequences
  <2>2. IsSeq(results) /\ \A i \in 1..Len(results) : results[i].kind # "user"
    BY <2>1 DEF Outputs
  <2>3. every' = every
    BY <1>3 DEF ToolsDone
  <2>. QED
    BY <1>1, <2>1, <2>2, <2>3
<1>4. CASE Compact
  <2>1. phase = "compact" /\ UNCHANGED <<every, said>>
    BY <1>4 DEF Compact
  <2>2. /\ every > 0 /\ IsSeq(history) /\ Len(history) \in Nat
        /\ IsSeq(said) /\ Len(said) \in Nat /\ Cut(history) \in 0..Len(history)
    BY <2>1, CutBeforeLastUser, SeqIsFunction DEF Phasing, Sequences
  <2>3. CASE UNCHANGED history
    <3>1. PICK k \in 0..Len(history), j \in 1..Len(said) + 1 : Shape(history, k, j)
      BY <2>2 DEF Shaped
    <3>2. Shape(history, k, j)'
      BY <2>1, <2>3, <3>1 DEF Shape
    <3>. QED
      BY <2>1, <2>3, <3>2 DEF Shaped
  <2>4. CASE \E roles : Replaced(roles)
    <3>1. PICK roles : Replaced(roles)
      BY <2>4
    <3>2. PICK k \in 0..Len(history), j \in 1..Len(said) + 1 : Shape(history, k, j)
      BY <2>2 DEF Shaped
    <3>3. PICK task \in 1..Len(said) :
              /\ said[task].kind = "user"
              /\ \A i \in task + 1..Len(said) : said[i].kind # "user"
              /\ Len(history) - Cut(history) = Len(said) - task + 1
              /\ \A m \in 1..Len(history) - Cut(history) :
                    history[Cut(history) + m] = said[task + m - 1]
      BY <3>1, <3>2, CutAtTask DEF Replaced, Whole
    <3>. DEFINE cut == Cut(history)
                short == Summaries(roles, Part(history, 1, cut))
                tail == Part(history, cut + 1, Len(history))
                r == Len(roles)
    <3>4. r \in Nat /\ IsSeq(short) /\ Len(short) = r /\ \A i \in 1..r : short[i].kind = "summary"
      BY <3>1, SeqIsFunction, SeqOfFunction DEF Replaced, Summaries
    <3>5. /\ IsSeq(tail) /\ Len(tail) = Len(history) - cut
          /\ \A i \in 1..Len(history) - cut : tail[i] = history[cut + i]
      BY <2>2, SeqRest
    <3>6. history' = Cat(short, tail)
      BY <3>1 DEF Replaced
    <3>. HIDE DEF short, tail, r
    <3>7. /\ Len(history') = r + (Len(said) - task + 1)
          /\ \A i \in 1..r : history'[i] = short[i]
          /\ \A m \in 1..Len(tail) : history'[r + m] = tail[m]
      <4>1. /\ Len(history') = Len(short) + Len(tail)
            /\ \A i \in 1..Len(short) : history'[i] = short[i]
            /\ \A m \in 1..Len(tail) : history'[Len(short) + m] = tail[m]
        <5>1. IsSeq(short) /\ IsSeq(tail) /\ history' = Cat(short, tail)
          BY <3>4, <3>5, <3>6
        <5>. QED
          BY <5>1, Grown
      <4>2. Len(tail) = Len(said) - task + 1
        BY <3>3, <3>5 DEF cut
      <4>. QED
        BY <3>4, <4>1, <4>2
    <3>8. ASSUME NEW i \in r + 1..Len(history')
          PROVE  history'[i] = said'[i - r + task - 1]
      <4>1. PICK m : m = i - r
        OBVIOUS
      <4>2. m \in 1..Len(history) - cut /\ i = r + m /\ i - r + task - 1 = task + m - 1
        BY <3>3, <3>4, <3>7, <4>1
      <4>3. history'[r + m] = tail[m]
        BY <3>5, <3>7, <4>2
      <4>4. tail[m] = said[task + m - 1]
        BY <3>3, <3>5, <4>2
      <4>. QED
        BY <2>1, <4>2, <4>3, <4>4
    <3>9. Len(history') = r + Len(said') - task + 1
      BY <2>1, <2>2, <3>4, <3>7
    <3>10. /\ task <= Len(said') /\ said'[task].kind = "user"
           /\ \A i \in task + 1..Len(said') : said'[i].kind # "user"
      BY <2>1, <3>3
    <3>11. \A i \in 1..r : history'[i].kind = "summary"
      BY <3>4, <3>7
    <3>12. Shape(history, r, task)'
      BY <3>8, <3>9, <3>10, <3>11 DEF Shape
    <3>13. r \in 0..Len(history') /\ task \in 1..Len(said') + 1
      BY <2>1, <2>2, <3>4, <3>7
    <3>. QED
      BY <3>12, <3>13 DEF Shaped
  <2>. QED
    BY <1>4, <2>2, <2>3, <2>4, CompactHistory
<1>5. CASE UNCHANGED <<every, history, said>>
  BY <1>5 DEF Shaped, Shape
<1>6. CASE BootServer \/ Booted \/ MaxTurnsReached \/ UNCHANGED vars
  BY <1>5, <1>6 DEF BootServer, Booted, MaxTurnsReached, vars
<1>. QED
  BY <1>2, <1>3, <1>4, <1>6 DEF Next

-----------------------------------------------------------------------------
(* The invariant holds                                                     *)

LEMMA IInvInit ==
    ASSUME Init
    PROVE  IInv
<1>1. IsSeq(<<>>) /\ Len(<<>>) = 0
  BY SeqEmpty
<1>2. phase = "boot" /\ exposed = {} /\ calls = <<>> /\ Len(calls) = 0 /\ turn = 0
  BY <1>1 DEF Init
<1>3. DOMAIN router = {}
  BY DEF Init
<1>4. IsSeq(said) /\ \A i \in 1..Len(said) : said[i] \in InputItems
  BY InputsAssumption, SeqOfSet DEF Init
<1>5. OutputsCapped
  BY <1>4, InputsAssumption, SeqIsFunction DEF OutputsCapped
<1>6. CallsMade /\ Routing /\ Results
  BY <1>2, <1>3 DEF CallsMade, Routing, Results
<1>. QED
  BY <1>5, <1>6, TypesInit, WholeInit, ShapedInit, PairedInit DEF IInv

LEMMA IInvNext ==
    ASSUME IInv, [Next]_vars
    PROVE  IInv'
  BY TypesNext, CallsMadeNext, RoutingNext, ResultsNext, WholeNext, ShapedNext, PairedNext,
     CappedNext DEF IInv

\* The inductive invariant: the phases, the router and the results of the last calls,
\* and how the history and the stored conversations relate to all that was said.
THEOREM Invariant == Spec => []IInv
<1>1. Init => IInv
  BY IInvInit
<1>2. IInv /\ [Next]_vars => IInv'
  BY IInvNext
<1>. QED
  BY <1>1, <1>2, PTL DEF Spec

\* The variables have their types; with a client's history nothing is stored by MAG,
\* with chaining one conversation for each response.
THEOREM Types == Spec => []TypeOK
<1>1. IInv => TypeOK
  BY DEF IInv
<1>. QED
  BY <1>1, Invariant, PTL

\* Whichever way the conversation is kept and however often it was compacted, MAG
\* reads in each inference all of it, in its order, nothing twice.
THEOREM WholeConversation == Spec => []ReadsWholeConversation
<1>1. ASSUME IInv PROVE ReadsWholeConversation
  <2>. SUFFICES ASSUME phase = "turn" PROVE Meaning(Context) = said
    BY DEF ReadsWholeConversation
  <2>1. every \in Nat
    BY <1>1, ConversationAssumption DEF IInv, TypeOK
  <2>2. CASE every > 0
    BY <1>1, <2>2 DEF IInv, Whole, Context
  <2>3. CASE every = 0
    <3>1. Context = said
      BY <1>1, <2>3 DEF IInv, Whole
    <3>. QED
      BY <1>1, <3>1, MeaningVerbatim DEF IInv, Sequences, Whole
  <2>. QED
    BY <2>1, <2>2, <2>3
<1>. QED
  BY <1>1, Invariant, PTL

\* A call is answered by a running server that lists and is allowed the tool, under
\* the name called; by the shim's own tools only if no server offers the name.
THEOREM RightTool == Spec => []AnsweredByItsTool
<1>1. ASSUME IInv PROVE AnsweredByItsTool
  <2>. SUFFICES ASSUME phase = "turn", turn > 0, NEW i \in DOMAIN calls
                PROVE  LET server == turn_input[i].from[1]
                           tool == turn_input[i].from[2]
                           s == Servers[server]
                       IN /\ turn_input[i].id = calls[i].id
                          /\ IF server = 0 THEN calls[i].name \notin exposed
                             ELSE /\ server \in up
                                  /\ tool \in ToSet(s.tools)
                                  /\ s.allowed # {} => tool \in s.allowed
                                  /\ Exposed(s, tool) = calls[i].name
    BY DEF AnsweredByItsTool
  <2>1. i \in 1..Len(calls)
    BY <1>1, SeqIsFunction DEF IInv, Sequences
  <2>2. turn_input[i].id = calls[i].id /\ turn_input[i].from = Target(calls[i].name)
    BY <1>1, <2>1 DEF IInv, Results
  <2>3. DOMAIN router = exposed
    BY <1>1 DEF IInv, Routing
  <2>4. CASE calls[i].name \in exposed
    <3>1. turn_input[i].from = router[calls[i].name]
      BY <2>2, <2>3, <2>4 DEF Target
    <3>2. /\ turn_input[i].from[1] # 0
          /\ OffersAs(turn_input[i].from[1], turn_input[i].from[2], calls[i].name)
      BY <1>1, <2>3, <2>4, <3>1 DEF IInv, Routing
    <3>. QED
      BY <2>2, <3>2 DEF OffersAs
  <2>5. CASE calls[i].name \notin exposed
    <3>1. turn_input[i].from = <<0, calls[i].name>>
      BY <2>2, <2>3, <2>5 DEF Target
    <3>2. turn_input[i].from[1] = 0
      BY <3>1
    <3>. QED
      BY <2>2, <2>5, <3>2
  <2>. QED
    BY <2>4, <2>5
<1>. QED
  BY <1>1, Invariant, PTL

\* No tool result that MAG is sent is longer than the cap and the notice, whatever
\* the tools return.
THEOREM ResultsCapped == Spec => []OutputsCapped
<1>1. IInv => OutputsCapped
  BY DEF IInv
<1>. QED
  BY <1>1, Invariant, PTL

-----------------------------------------------------------------------------
(* What MAG reads has the task and its calls                               *)

\* What MAG reads is as the history is: all of what was said when it is stored by MAG.
LEMMA ContextShape ==
    ASSUME IInv, phase = "turn"
    PROVE  /\ IsSeq(Context) /\ IsSeq(said) /\ Len(said) \in Nat
           /\ \E k \in 0..Len(Context), j \in 1..Len(said) + 1 : Shape(Context, k, j)
<1>1. every \in Nat /\ IsSeq(history) /\ IsSeq(said) /\ Len(said) \in Nat
  BY ConversationAssumption, SeqIsFunction DEF IInv, TypeOK, Sequences
<1>2. CASE every > 0
  BY <1>1, <1>2 DEF IInv, Shaped, Context
<1>3. CASE every = 0
  <2>1. Context = said
    BY <1>3 DEF IInv, Whole
  <2>2. Shape(said, 0, 1)
    BY <1>1 DEF Shape
  <2>. QED
    BY <1>1, <2>1, <2>2
<1>. QED
  BY <1>1, <1>2, <1>3

\* Where an item of a context is in what was said, and the other way round.
LEMMA ContextItems ==
    ASSUME NEW h, IsSeq(h), Len(said) \in Nat,
           NEW k \in 0..Len(h), NEW j \in 1..Len(said) + 1, Shape(h, k, j)
    PROVE  /\ \A i \in 1..Len(h) : \/ h[i].kind = "summary"
                                   \/ /\ i - k + j - 1 \in j..Len(said)
                                      /\ h[i] = said[i - k + j - 1]
           /\ \A n \in j..Len(said) : /\ n - j + 1 + k \in 1..Len(h)
                                      /\ h[n - j + 1 + k] = said[n]
<1>1. Len(h) \in Nat /\ Len(h) = k + Len(said) - j + 1
  BY SeqIsFunction DEF Shape
<1>2. ASSUME NEW i \in 1..Len(h), h[i].kind # "summary"
      PROVE  i - k + j - 1 \in j..Len(said) /\ h[i] = said[i - k + j - 1]
  <2>1. i \in k + 1..Len(h)
    BY <1>1, <1>2 DEF Shape
  <2>2. h[i] = said[i - k + j - 1]
    BY <2>1 DEF Shape
  <2>3. i - k + j - 1 \in j..Len(said)
    BY <1>1, <2>1
  <2>. QED
    BY <2>2, <2>3
<1>3. ASSUME NEW n \in j..Len(said)
      PROVE  n - j + 1 + k \in 1..Len(h) /\ h[n - j + 1 + k] = said[n]
  <2>1. PICK c : c = n - j + 1 + k
    OBVIOUS
  <2>2. c \in k + 1..Len(h) /\ c \in 1..Len(h) /\ c - k + j - 1 = n
    BY <1>1, <2>1
  <2>3. h[c] = said[c - k + j - 1]
    BY <2>2 DEF Shape
  <2>. QED
    BY <2>1, <2>2, <2>3
<1>. QED
  BY <1>2, <1>3

\* The last of the user messages, when there are some.
LEMMA LastUser ==
    ASSUME Len(said) \in Nat, NEW users, users = {i \in 1..Len(said) : said[i].kind = "user"},
           users # {}
    PROVE  LET task == CHOOSE x \in users : \A y \in users : x >= y
           IN task \in users /\ \A y \in users : task >= y
<1>1. users \in SUBSET (0..Len(said))
  OBVIOUS
<1>2. \E x \in users : \A y \in users : y <= x
  BY <1>1, GreatestElement
<1>3. \E x \in users : \A y \in users : x >= y
  BY <1>1, <1>2
<1>. QED
  BY <1>3

\* The last user message and everything since is sent as it was said, never as a
\* summary.
THEOREM TaskVerbatim == Spec => []ActiveTaskVerbatim
<1>1. ASSUME IInv PROVE ActiveTaskVerbatim
  <2>. DEFINE users == {i \in 1..Len(said) : said[i].kind = "user"}
              task == IF users # {} THEN CHOOSE x \in users : \A y \in users : x >= y ELSE 0
              n == IF task = 0 THEN 1 ELSE task
  <2>1. task = SelectLastInSeq(said, LAMBDA item : item.kind = "user")
    BY DEF SelectLastInSeq, Max
  <2>. SUFFICES ASSUME phase = "turn" PROVE IsSuffix(SubSeq(said, n, Len(said)), Context)
    BY <2>1 DEF ActiveTaskVerbatim
  <2>2. /\ IsSeq(Context) /\ IsSeq(said) /\ Len(said) \in Nat /\ Len(Context) \in Nat
        /\ \E k \in 0..Len(Context), j \in 1..Len(said) + 1 : Shape(Context, k, j)
    BY <1>1, ContextShape, SeqIsFunction
  <2>3. PICK k \in 0..Len(Context), j \in 1..Len(said) + 1 : Shape(Context, k, j)
    BY <2>2
  <2>4. n \in j..Len(said) + 1
    <3>1. users # {} => n \in users /\ \A y \in users : n >= y
      <4>1. users # {} => task \in users /\ \A y \in users : task >= y
        BY <2>2, LastUser
      <4>2. task \in users => n = task
        <5>. HIDE DEF task
        <5>1. task \in users => task # 0
          OBVIOUS
        <5>. QED
          BY <5>1
      <4>. HIDE DEF users, task, n
      <4>. QED
        BY <4>1, <4>2
    <3>2. users = {} => n = 1
      <4>. HIDE DEF users
      <4>. QED
        OBVIOUS
    <3>. HIDE DEF n, task
    <3>3. CASE k = 0 /\ j = 1
      BY <2>2, <3>1, <3>2, <3>3
    <3>4. CASE j \in users
      BY <2>2, <3>1, <3>4
    <3>. QED
      BY <2>2, <2>3, <3>3, <3>4 DEF Shape
  <2>. HIDE DEF n
  <2>. DEFINE rest == Part(said, n, Len(said))
  <2>5. IsSeq(rest) /\ Len(rest) = Len(said) - n + 1 /\ \A i \in 1..Len(said) - n + 1 : rest[i] = said[n + i - 1]
    BY <2>2, <2>4, SeqPart
  <2>. HIDE DEF rest
  <2>6. Len(Context) = k + Len(said) - j + 1
    BY <2>3 DEF Shape
  <2>. DEFINE m == k + (n - j)
  <2>7. m \in 0..Len(Context) /\ Len(rest) = Len(Context) - m
    BY <2>2, <2>4, <2>5, <2>6
  <2>8. ASSUME NEW i \in 1..Len(rest) PROVE rest[i] = Context[m + i]
    <3>1. PICK c : c = n + i - 1
      OBVIOUS
    <3>2. c \in j..Len(said) /\ c - j + 1 + k = m + i
      BY <2>2, <2>4, <2>5, <3>1
    <3>3. Context[c - j + 1 + k] = said[c]
      BY <2>2, <2>3, <3>2, ContextItems
    <3>. QED
      BY <2>5, <3>1, <3>2, <3>3
  <2>. HIDE DEF m
  <2>9. IsSuffix(rest, Context)
    BY <2>2, <2>5, <2>7, <2>8, SeqSuffix
  <2>. QED
    BY <2>9, Zenon DEF rest, Part
<1>. QED
  BY <1>1, Invariant, PTL

\* A request has each call together with its one output, which follows it.
THEOREM CallsHaveOutputs == Spec => []CallsAnswered
<1>1. ASSUME IInv PROVE CallsAnswered
  <2>. DEFINE context == Context
              Items(kind) == {i \in DOMAIN context : context[i].kind = kind}
              Answers(i) == {k \in Items("output") : context[k].id = context[i].id}
  <2>. SUFFICES ASSUME phase = "turn"
                PROVE  /\ \A i \in Items("call") : \E k \in Answers(i) : k > i /\ Answers(i) = {k}
                       /\ \A k \in Items("output") : \E i \in Items("call") : k \in Answers(i)
    BY DEF CallsAnswered
  <2>1. /\ IsSeq(context) /\ IsSeq(said) /\ Len(said) \in Nat /\ Len(context) \in Nat
        /\ DOMAIN context = 1..Len(context)
        /\ \E k \in 0..Len(context), j \in 1..Len(said) + 1 : Shape(context, k, j)
    BY <1>1, ContextShape, SeqIsFunction
  <2>. HIDE DEF context
  <2>2. PICK b \in 0..Len(context), j \in 1..Len(said) + 1 : Shape(context, b, j)
    BY <2>1
  <2>. DEFINE At(i) == i - b + j - 1
              Sent(n) == n - j + 1 + b
  <2>3. ASSUME NEW i \in 1..Len(context), IsPart(context[i])
        PROVE  /\ At(i) \in j..Len(said) /\ At(i) \in 1..Len(said)
               /\ context[i] = said[At(i)] /\ Sent(At(i)) = i
    <3>1. context[i].kind # "summary"
      BY <2>3 DEF IsPart
    <3>2. At(i) \in j..Len(said) /\ context[i] = said[At(i)]
      BY <2>1, <2>2, <3>1, ContextItems
    <3>. QED
      BY <2>1, <3>2
  <2>4. ASSUME NEW n \in 1..Len(said), IsPart(said[n])
        PROVE  n \in j..Len(said)
    <3>1. CASE j = 1
      BY <2>1, <3>1
    <3>2. CASE j <= Len(said) /\ said[j].kind = "user"
      <4>1. j < n
        BY <1>1, <2>1, <2>4, <3>2 DEF IInv, Paired, UsersFirst
      <4>. QED
        BY <2>1, <4>1
    <3>. QED
      BY <2>2, <3>1, <3>2 DEF Shape
  <2>5. ASSUME NEW n \in 1..Len(said), IsPart(said[n])
        PROVE  Sent(n) \in 1..Len(context) /\ context[Sent(n)] = said[n] /\ At(Sent(n)) = n
    <3>1. n \in j..Len(said)
      BY <2>4, <2>5
    <3>2. Sent(n) \in 1..Len(context) /\ context[Sent(n)] = said[n]
      BY <2>1, <2>2, <3>1, ContextItems
    <3>. QED
      BY <2>1, <3>2
  <2>6. ASSUME NEW i \in Items("call")
        PROVE  \E k \in Answers(i) : k > i /\ Answers(i) = {k}
    <3>1. i \in 1..Len(context) /\ context[i].kind = "call" /\ IsPart(context[i])
      BY <2>1 DEF IsPart
    <3>2. At(i) \in 1..Len(said) /\ context[i] = said[At(i)] /\ Sent(At(i)) = i
      BY <2>3, <3>1
    <3>. DEFINE c == At(i)
    <3>3. c \in 1..Len(said) /\ said[c].kind = "call" /\ context[i] = said[c] /\ Sent(c) = i
      BY <3>1, <3>2
    <3>. HIDE DEF c
    <3>4. PICK n \in 1..Len(said) : c < n /\ said[n].kind = "output" /\ said[n].id = said[c].id
      BY <1>1, <3>3 DEF IInv, Paired, CallsFollowed
    <3>5. Sent(n) \in 1..Len(context) /\ context[Sent(n)] = said[n]
      BY <2>5, <3>4 DEF IsPart
    <3>6. Sent(n) > i
      BY <2>1, <3>3, <3>4
    <3>7. Sent(n) \in Answers(i)
      <4>. HIDE DEF Sent
      <4>. QED
        BY <2>1, <3>3, <3>4, <3>5
    <3>8. ASSUME NEW k \in Answers(i) PROVE k = Sent(n)
      <4>1. k \in 1..Len(context) /\ context[k].kind = "output" /\ context[k].id = context[i].id
        BY <2>1
      <4>2. At(k) \in 1..Len(said) /\ context[k] = said[At(k)] /\ Sent(At(k)) = k
        BY <2>3, <4>1 DEF IsPart
      <4>. DEFINE a == At(k)
      <4>3. a \in 1..Len(said) /\ context[k] = said[a] /\ Sent(a) = k
        BY <4>2
      <4>. HIDE DEF a
      <4>4. said[a].kind = "output" /\ said[a].id = said[n].id
        BY <3>3, <3>4, <4>1, <4>3
      <4>5. a = n
        BY <1>1, <3>4, <4>3, <4>4 DEF IInv, Paired, Unique, IsPart
      <4>. QED
        BY <4>3, <4>5
    <3>. HIDE DEF Answers, Sent
    <3>. QED
      BY <3>6, <3>7, <3>8
  <2>7. ASSUME NEW k \in Items("output")
        PROVE  \E i \in Items("call") : k \in Answers(i)
    <3>1. k \in 1..Len(context) /\ context[k].kind = "output" /\ IsPart(context[k])
      BY <2>1 DEF IsPart
    <3>2. At(k) \in 1..Len(said) /\ context[k] = said[At(k)]
      BY <2>3, <3>1
    <3>. DEFINE c == At(k)
    <3>3. c \in 1..Len(said) /\ said[c].kind = "output" /\ context[k] = said[c]
      BY <3>1, <3>2
    <3>. HIDE DEF c
    <3>4. PICK n \in 1..Len(said) : n < c /\ said[n].kind = "call" /\ said[n].id = said[c].id
      BY <1>1, <3>3 DEF IInv, Paired, OutputsFollow
    <3>5. Sent(n) \in 1..Len(context) /\ context[Sent(n)] = said[n]
      BY <2>5, <3>4 DEF IsPart
    <3>. HIDE DEF Sent
    <3>6. Sent(n) \in Items("call") /\ k \in Answers(Sent(n))
      BY <2>1, <3>1, <3>3, <3>4, <3>5
    <3>. QED
      BY <3>6
  <2>. QED
    BY <2>6, <2>7
<1>. QED
  BY <1>1, Invariant, PTL

=============================================================================
