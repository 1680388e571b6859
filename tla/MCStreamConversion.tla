--------------------------- MODULE MCStreamConversion ---------------------------
(***************************************************************************)
(* What one chunk may hold: any one token of content, pairs that hold a     *)
(* whole tag or the end of a tag with what follows it; a piece of           *)
(* reasoning, alone and with content; a list of tool calls, empty, with one *)
(* call, with two, and with content.                                        *)
(***************************************************************************)
EXTENDS StreamConversion

Says(t, d)  == [thought |-> t, content |-> d, calls |-> <<>>, hasCalls |-> FALSE]
Calling(d, c) == [thought |-> <<>>, content |-> d, calls |-> c, hasCalls |-> TRUE]

MCContents == BoundedSeq(Tokens, 1)
              \cup {<<"<thi", "nk>">>, <<"nk>", "a">>, <<"nk>", "blank">>}
ACall(k, id, name, args) == [index |-> k, id |-> id, name |-> name, args |-> args]

\* Of a second call, one piece of each kind: it only has to be told from the first.
MCCalls == {c \in Calls : /\ c.name # "none" => c.id
                          /\ c.index > 0 => c.args = <<"x">> /\ (c.id => c.name # "none")}

MCChunks ==
    {Says(<<>>, d) : d \in MCContents}
    \cup {Says(<<"r">>, d) : d \in {<<>>, <<"a">>}}
    \cup {Calling(<<>>, <<c>>) : c \in MCCalls}
    \cup {Calling(<<>>, <<>>), Calling(<<"nk>">>, <<ACall(0, TRUE, "plain", <<>>)>>),
          Calling(<<"a">>, <<ACall(1, FALSE, "none", <<"x">>), ACall(0, TRUE, "plain", <<"x">>)>>)}
=============================================================================
