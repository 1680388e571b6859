---------------------------- MODULE StreamConversion ----------------------------
(***************************************************************************)
(* The conversion of a streamed Chat answer into Responses events, as the   *)
(* protocol proxy does it (protocol_proxy.rs: ChatSseToResponsesConverter   *)
(* and ChatSseState; launcher.rs drives it): items for the reasoning, the   *)
(* text and the tool calls, an inline <think> block cut at any point by the *)
(* chunks, errors of the upstream and of the connection, and the end.       *)
(*                                                                         *)
(* Text is a sequence of tokens; both tags have two, so that a chunk may    *)
(* end inside a tag.  Arguments of a tool call are fragments "x"; of its    *)
(* name only counts whether it is that of a custom tool, whose input is not *)
(* streamed in fragments but sent in one piece when the call is finished.   *)
(***************************************************************************)
EXTENDS Naturals, Sequences, FiniteSets, SequencesExt, FiniteSetsExt

CONSTANTS
    LastTool,     \* the largest index of a tool call
    Chunks,       \* what one chunk may hold: some of Messages
    MaxChunks     \* bound on the blocks of a stream

ASSUME StreamAssumption == LastTool \in Nat /\ MaxChunks \in Nat

Tools == 0 .. LastTool   \* indices of tool calls

VARIABLES
    answer,   \* the converter's state, and what it has sent
    over,     \* the connection has ended
    chunks,   \* chunks so far
    content,  \* ghost: the content up to the first boundary, in one piece
    follows,  \* ghost: the content that followed it
    cut       \* ghost: whether a boundary (tool calls or [DONE]) has been met

ghosts == <<content, follows, cut>>
streamVars == <<answer, over, chunks, ghosts>>

-----------------------------------------------------------------------------
(* Inline thinking: a leading <think>...</think> is reasoning.              *)
Tokens == {"<thi", "</thi", "nk>", "a", "blank"}
Open   == <<"<thi", "nk>">>
Close  == <<"</thi", "nk>">>

AllBlank(t)  == \A i \in DOMAIN t : t[i] = "blank"
TrimStart(t) == LET n == CHOOSE n \in 0 .. Len(t) :
                            /\ AllBlank(SubSeq(t, 1, n))
                            /\ n < Len(t) => t[n + 1] # "blank"
                IN  SubSeq(t, n + 1, Len(t))
Trim(t) == Reverse(TrimStart(Reverse(TrimStart(t))))

(* leading_think_prefix_decision *)
Decision(t) ==
    LET u == TrimStart(t)
    IN  IF IsPrefix(Open, u) THEN "reasoning"
        ELSE IF IsPrefix(u, Open) THEN "more" ELSE "text"

(* split_leading_think_block: where the answer begins, or 0.                *)
Body(t)     == SubSeq(TrimStart(t), Len(Open) + 1, Len(TrimStart(t)))
Closings(t) == {i \in 1 .. Len(Body(t)) - 1 : SubSeq(Body(t), i, i + 1) = Close}
HasThink(t) == IsPrefix(Open, TrimStart(t)) /\ Closings(t) # {}
Thought(t)  == Trim(SubSeq(Body(t), 1, Min(Closings(t)) - 1))
Answer(t)   == TrimStart(SubSeq(Body(t), Min(Closings(t)) + 2, Len(Body(t))))

-----------------------------------------------------------------------------
(* Items.  "added" and "done" count the events sent for an item, "said" is  *)
(* what it holds and "streamed" what its deltas have carried.               *)
Reasoning == <<"reasoning">>
Text      == <<"text">>
Call(k)   == <<"call", k>>
Kinds     == {Reasoning, Text} \cup {Call(k) : k \in Tools}
NoItem    == [index |-> 0, added |-> 0, done |-> 0, said |-> <<>>, streamed |-> <<>>]

(* A call is known once it has an id or a name, and custom if the name that *)
(* it was last given is that of a custom tool.  "as" is a ghost: what the   *)
(* call has been since it is known.                                         *)
Unheard == [seen |-> FALSE, known |-> FALSE, custom |-> FALSE, as |-> "nothing"]
Been(t) == LET now == IF t.custom THEN "custom" ELSE "plain"
           IN  IF ~t.known THEN "nothing"
               ELSE IF t.as \in {"nothing", now} THEN now ELSE "both"
Initial ==
    [started |-> FALSE, completed |-> FALSE, failed |-> FALSE, next |-> 0,
     mode |-> "detecting", buffer |-> <<>>,
     item |-> [k \in Kinds |-> NoItem],
     tool |-> [k \in Tools |-> Unheard],
     listed |-> {}, verdicts |-> <<>>, reported |-> <<>>]

\* Mutant: the index is not taken.
AddingInPlace(x, k) ==
    LET i == x.item[k]
    IN  [x EXCEPT !.item[k] = [i EXCEPT !.index = x.next, !.added = i.added + 1]]
(* next_output_index and response.output_item.added *)
Adding(x, k) ==
    LET i == x.item[k]
    IN  [x EXCEPT !.next = x.next + 1,
                  !.item[k] = [i EXCEPT !.index = x.next, !.added = i.added + 1]]
Added(x, k) == IF x.item[k].added > 0 THEN x ELSE Adding(x, k)

(* push_reasoning_delta_into and push_text_delta_into *)
Delta(x, k, d) ==
    LET y == Added(x, k)
        i == y.item[k]
    IN  [y EXCEPT !.item[k] = [i EXCEPT !.said = i.said \o d, !.streamed = i.streamed \o d]]

(* finalize_reasoning_into, finalize_text_into and the end of a tool call   *)
Finished(x, k) ==
    LET i == x.item[k]
    IN  IF i.added = 0 \/ i.done > 0 THEN x
        ELSE [x EXCEPT !.item[k] = [i EXCEPT !.done = i.done + 1],
                       !.listed = x.listed \cup {i.index}]

Started(x) ==
    IF x.started THEN x
    ELSE [x EXCEPT !.started = TRUE, !.verdicts = Append(x.verdicts, "created")]

TextDelta(x, d) == IF d = <<>> THEN x ELSE Delta(x, Text, d)
ReasoningDelta(x, d) == IF d = <<>> THEN x ELSE Finished(Delta(x, Reasoning, d), Reasoning)
TextAfterReasoning(x, d) == Delta(Finished(x, Reasoning), Text, d)

\* Mutant: the answer that follows the block in the same chunk is dropped.
SplitLosingTheRest(x) == ReasoningDelta([x EXCEPT !.mode = "text", !.buffer = <<>>], Thought(x.buffer))
(* drain_complete_inline_think_into *)
Split(x) == TextDelta(ReasoningDelta([x EXCEPT !.mode = "text", !.buffer = <<>>],
                                     Thought(x.buffer)), Answer(x.buffer))
Drained(x) == IF HasThink(x.buffer) THEN Split(x) ELSE x

(* push_content_delta_into *)
ContentDelta(x, d) ==
    LET y == [x EXCEPT !.buffer = x.buffer \o d]
    IN  CASE x.mode = "text"      -> TextAfterReasoning(x, d)
          [] x.mode = "reasoning" -> Drained(y)
          [] OTHER ->
               CASE Decision(y.buffer) = "more"      -> y
                 [] Decision(y.buffer) = "reasoning" -> Drained([y EXCEPT !.mode = "reasoning"])
                 [] OTHER -> TextAfterReasoning([y EXCEPT !.mode = "text", !.buffer = <<>>], y.buffer)

(* flush_inline_think_at_boundary_into *)
Flushed(x) ==
    LET y == [x EXCEPT !.mode = "text", !.buffer = <<>>]
    IN  IF x.mode = "text" \/ x.buffer = <<>> THEN y
        ELSE IF x.mode = "detecting" THEN TextAfterReasoning(y, x.buffer)
        ELSE IF HasThink(x.buffer) THEN Split(x)
        ELSE ReasoningDelta(y, Trim(Body(x.buffer)))

-----------------------------------------------------------------------------
(* push_tool_call_delta_into: the item is added once the call has an id or  *)
(* a name; fragments that came before are streamed with it.                 *)
Names == {"none", "plain", "custom"}
Calls == [index : Tools, id : BOOLEAN, name : Names, args : {<<>>, <<"x">>}]

Named(t, c) ==
    [t EXCEPT !.seen = TRUE,
              !.known = t.known \/ c.id \/ c.name # "none",
              !.custom = IF c.name = "none" THEN t.custom ELSE c.name = "custom"]
Heard(t, c) == LET u == Named(t, c) IN [u EXCEPT !.as = Been(u)]
ToolHeard(x, c) ==
    LET k == Call(c.index)
        i == x.item[k]
    IN  [x EXCEPT !.tool[c.index] = Heard(x.tool[c.index], c),
                  !.item[k] = [i EXCEPT !.said = i.said \o c.args]]
Streamed(x, k, args) ==
    LET i == x.item[k]
    IN  [x EXCEPT !.item[k] = [i EXCEPT !.streamed = i.streamed \o args]]

(* push_tool_call_delta_sse: nothing for a custom tool.                     *)
ArgumentsDelta(x, n, args) == IF x.tool[n].custom THEN x ELSE Streamed(x, Call(n), args)

\* Mutant: fragments that came before the name are not streamed with it.
ToolDeltaWithoutPending(x, c) ==
    LET k == Call(c.index)
        y == ToolHeard(x, c)
    IN  IF x.item[k].added > 0 THEN ArgumentsDelta(y, c.index, c.args)
        ELSE IF y.tool[c.index].known THEN ArgumentsDelta(Adding(y, k), c.index, c.args) ELSE y
ToolDelta(x, c) ==
    LET k == Call(c.index)
        y == ToolHeard(x, c)
    IN  IF x.item[k].added > 0 THEN ArgumentsDelta(y, c.index, c.args)
        ELSE IF y.tool[c.index].known THEN ArgumentsDelta(Adding(y, k), c.index, y.item[k].said)
        ELSE y

(* The calls of one chunk, one after the other.                              *)
CallsHeard(x, calls) ==
    LET heard[n \in 0 .. Len(calls)] == IF n = 0 THEN x ELSE ToolDelta(heard[n - 1], calls[n])
    IN  heard[Len(calls)]

(* finalize_tools_into, in the order of the indices; push_tool_call_done_sse *)
(* sends the whole input of a custom tool as a delta.  It is rebuilt from    *)
(* the arguments, which stand for it here.                                   *)
InputDelta(x, n) == IF x.tool[n].custom THEN Streamed(x, Call(n), x.item[Call(n)].said) ELSE x
\* Mutant: the input of a custom tool is in the finished item only.
ToolFinishedSilently(x, n) ==
    IF ~x.tool[n].seen \/ x.item[Call(n)].done > 0 THEN x ELSE Finished(Added(x, Call(n)), Call(n))
ToolFinished(x, n) ==
    IF ~x.tool[n].seen \/ x.item[Call(n)].done > 0 THEN x
    ELSE InputDelta(Finished(Added(x, Call(n)), Call(n)), n)
ToolsFinished(x) ==
    LET upTo[n \in 0 .. LastTool + 1] == IF n = 0 THEN x ELSE ToolFinished(upTo[n - 1], n - 1)
    IN  upTo[LastTool + 1]

(* finalize_into and the list it sends *)
Listed(x) == [i \in 1 .. Cardinality(x.listed) |->
                 CHOOSE n \in x.listed : Cardinality({m \in x.listed : m < n}) = i - 1]
Closed(x) == [x EXCEPT !.completed = TRUE, !.reported = Listed(x),
                       !.verdicts = Append(x.verdicts, "completed")]
\* Mutant: the text is closed before the buffered text is flushed.
ItemsFinishedEarly(x) ==
    ToolsFinished(Finished(Flushed(Finished(Started(x), Text)), Reasoning))
ItemsFinished(x) ==
    ToolsFinished(Finished(Finished(Flushed(Started(x)), Reasoning), Text))
Finalized(x) == IF x.completed THEN x ELSE Closed(ItemsFinished(x))

(* failed_into *)
Failed(x) == [x EXCEPT !.completed = TRUE, !.failed = TRUE,
                       !.verdicts = Append(x.verdicts, "failed")]

-----------------------------------------------------------------------------
StreamInit ==
    /\ answer = Initial
    /\ over = FALSE /\ chunks = 0
    /\ content = <<>> /\ follows = <<>> /\ cut = FALSE

(* Blocks go on being handled after the verdict: nothing looks at completed *)
(* there, and a read after a failed one still handles its first block.  One *)
(* block past the verdict is enough to see what it does.                    *)
Receiving == /\ ~over /\ chunks < MaxChunks
             /\ chunks' = IF answer.completed THEN MaxChunks ELSE chunks + 1

(* A chunk: a piece of reasoning and of content, and a list of tool calls,  *)
(* which may be there and empty.  "r" is what a reasoning field carries.    *)
Messages == [thought : {<<>>, <<"r">>}, content : Seq(Tokens), calls : Seq(Calls), hasCalls : BOOLEAN]

ASSUME ChunksAreMessages == Chunks \subseteq Messages

(* handle_chat_chunk_into: reasoning, then content, then tool calls.        *)
AfterThought(x, m) == IF m.thought = <<>> THEN x ELSE Delta(x, Reasoning, m.thought)
AfterContent(x, m) == IF m.content = <<>> THEN x ELSE ContentDelta(x, m.content)
AfterCalls(x, m)   == IF m.hasCalls THEN CallsHeard(Finished(Flushed(x), Reasoning), m.calls)
                      ELSE x
Chunk ==
    /\ Receiving
    /\ \E m \in Chunks :
          /\ answer' = AfterCalls(AfterContent(AfterThought(Started(answer), m), m), m)
          /\ content' = IF cut THEN content ELSE content \o m.content
          /\ follows' = IF cut THEN follows \o m.content ELSE follows
          /\ cut' = (cut \/ m.hasCalls)
    /\ UNCHANGED over

(* "data: [DONE]", and an error of the upstream.                            *)
SaysDone ==
    /\ Receiving
    /\ answer' = Finalized(answer)
    /\ cut' = (cut \/ ~answer.completed)
    /\ UNCHANGED <<over, content, follows>>
SaysError == Receiving /\ answer' = Failed(answer) /\ UNCHANGED <<over, ghosts>>

(* The connection breaks, or ends: what is left in the buffer is dropped.   *)
Breaks == ~over /\ over' = TRUE /\ answer' = Failed(answer) /\ UNCHANGED <<chunks, ghosts>>
Ends   == /\ ~over /\ over' = TRUE
          /\ answer' = IF answer.failed THEN answer ELSE Finalized(answer)
          /\ UNCHANGED <<chunks, ghosts>>

StreamNext == Chunk \/ SaysDone \/ SaysError \/ Breaks \/ Ends
StreamSpec == StreamInit /\ [][StreamNext]_streamVars

-----------------------------------------------------------------------------
StreamTypes ==
    /\ answer.next \in 0 .. Cardinality(Kinds)
    /\ answer.mode \in {"detecting", "reasoning", "text"}
    /\ answer.buffer \in Seq(Tokens)
    /\ \A k \in Kinds : /\ answer.item[k].index \in 0 .. Cardinality(Kinds)
                        /\ answer.item[k].added \in 0 .. 1
                        /\ answer.item[k].done \in 0 .. answer.item[k].added
    /\ over \in BOOLEAN /\ cut \in BOOLEAN
    /\ chunks \in 0 .. MaxChunks

(* Every item has an index of its own, counted from 0 in the order in which *)
(* the items were added: a client finds an item by its index.               *)
IndicesAreItems ==
    /\ StreamTypes
    /\ LET shown == {k \in Kinds : answer.item[k].added > 0}
       IN  /\ {answer.item[k].index : k \in shown} = 0 .. answer.next - 1
           /\ Cardinality(shown) = answer.next

(* An answer is complete at most once and never after it has failed, and    *)
(* then every item that was added is done and the answer's list holds each  *)
(* of them, in the order of their indices, and the deltas of each tool call *)
(* have carried its arguments, those of a custom tool too.  A call that has *)
(* been both, as when its id comes before the name of a custom tool, is     *)
(* left out: fragments were streamed, and then its whole input once more.   *)
CompletedIsWhole ==
    [][Len(answer'.verdicts) > Len(answer.verdicts) /\ Last(answer'.verdicts) = "completed" =>
          /\ \A i \in DOMAIN answer.verdicts : answer.verdicts[i] \notin {"completed", "failed"}
          /\ \A k \in Kinds : answer'.item[k].done = answer'.item[k].added
          /\ answer'.reported = [i \in 1 .. answer'.next |-> i - 1]
          /\ \A k \in Tools : answer'.tool[k].seen => answer'.item[Call(k)].done = 1
          /\ \A k \in Tools : answer'.tool[k].as \in {"plain", "custom"} =>
                answer'.item[Call(k)].streamed = answer'.item[Call(k)].said]_streamVars

(* Cutting the content into chunks does not change what it says: what is    *)
(* shown as text and as inline reasoning is what the whole content splits   *)
(* into, up to blanks before the answer, and the inline reasoning stands in  *)
(* one piece between what reasoning fields carried.                          *)
WholeThought(t) == IF HasThink(t) THEN Thought(t)
                   ELSE IF Decision(t) = "reasoning" THEN Trim(Body(t)) ELSE <<>>
WholeAnswer(t)  == IF HasThink(t) THEN Answer(t)
                   ELSE IF Decision(t) = "reasoning" THEN <<>> ELSE t
Pieces(n) == [k \in 1 .. n |-> "r"]   \* n pieces of a reasoning field

ChunksDoNotMatter ==
    answer.mode = "text" =>
        /\ TrimStart(answer.item[Text].said) = TrimStart(WholeAnswer(content) \o follows)
        /\ LET said == answer.item[Reasoning].said
           IN  \E i, j \in 0 .. Len(said) : said = Pieces(i) \o WholeThought(content) \o Pieces(j)

(* While the answer lasts, the arguments of a function call that has an id  *)
(* or a name have all been streamed, those that came before it too, and of  *)
(* the input of a custom tool nothing has: a client that adds up the deltas *)
(* has neither a part of it nor, once it is finished, any of it twice.      *)
ArgumentsAreStreamed ==
    \A k \in Tools :
        ~answer.completed =>
            /\ answer.tool[k].as = "plain" =>
                  answer.item[Call(k)].streamed = answer.item[Call(k)].said
            /\ answer.tool[k].as = "custom" => answer.item[Call(k)].streamed = <<>>
=============================================================================
