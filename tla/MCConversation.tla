--------------------------- MODULE MCConversation ---------------------------
(* Two servers whose exposed names agree on one tool; sessions that start from *)
(* one message, from a conversation, and from items of which none is a message *)
(* of the user's.                                                              *)
EXTENDS Conversation

Item(role, n) == [kind |-> role, id |-> <<0, n>>]
Opening == <<Item("user", 1)>>
Continued == <<Item("user", 1), Item("assistant", 2), Item("user", 3)>>
OpeningOnly == {Opening}
MCInputs == {Opening, Continued, <<Item("assistant", 1), Item("given", 2)>>}

MCServers == << [label |-> "l1", tools |-> <<"t1", "t2">>, allowed |-> {"t1"}],
                [label |-> "l2", tools |-> <<"t1", "t2">>, allowed |-> {}] >>
MCExposedName ==
    (<<"l1", "t1">> :> "n1") @@ (<<"l1", "t2">> :> "n3") @@
    (<<"l2", "t1">> :> "n1") @@ (<<"l2", "t2">> :> "n2")
MCRawSize == ("n1" :> 4) @@ ("n2" :> 9) @@ ("n3" :> 1) @@ ("shell" :> 5)
=============================================================================
