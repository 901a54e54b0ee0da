---------------------------- MODULE MC_ParserPipeline ----------------------------
(* Instances of ParserPipeline for TLC. *)
EXTENDS PipelineReading

F == "f"
S == "str"
N == "num"
O == "obj"
W == "arguments"

Param(p, value, gap) == [key |-> p, text |-> value, gap |-> gap]
Call(lead, params, gap) == [name |-> F, lead |-> lead, params |-> params, gap |-> gap]

\* One call, with a string that "<" and the DSML marker are in and a scalar, or
\* with an object; a call without parameters and one with a wrapper alone; and
\* the shortest output.
Derivations ==
    {[lead |-> <<WS>>, calls |-> <<Call(<<>>, params, <<WS>>)>>] : params \in
        {<<Param(S, <<WORD, LT, SLASH, DSML, WORD, LT>>, <<WS>>), Param(N, <<WORD>>, <<>>)>>,
         <<Param(O, <<OBJECT>>, <<>>), Param(S, <<>>, <<>>)>>}}
    \cup {[lead |-> <<>>, calls |-> <<Call(<<WS>>, <<>>, <<>>),
                                     Call(<<>>, <<Param(W, <<INNER>>, <<>>)>>, <<>>)>>],
          [lead |-> <<>>, calls |-> <<Call(<<>>, <<>>, <<>>)>>]}

Openers == {StartToken, Headless, Tail(Headless), <<>>}

\* An output is its block alone, or stands in text; nothing comes before an
\* opener that lost more than its "<".
MCOutputs ==
    UNION {{[before |-> <<>>, opener |-> o, block |-> InnerText(d) \o EndToken, after |-> <<>>],
            [before |-> IF Len(o) < Len(Headless) THEN <<>> ELSE <<WORD, LT, CLOSE, WS>>,
             opener |-> o, block |-> InnerText(d) \o EndToken, after |-> <<WORD, LT, CLOSE>>]} :
              o \in Openers, d \in Derivations}

WholeOpeners == {o \in MCOutputs : o.opener = StartToken /\ o.before = <<>> /\ o.after = <<>>}

MCThoughts == {<<WORD>>, <<WORD, R!END>>}

\* The outputs are what the theorems of the reading ask for.
ASSUME OutputsWellFormed == \A o \in MCOutputs : \E d \in Derivations : WellFormed(o, d) /\ Plain(d)

-----------------------------------------------------------------------------
\* At every moment the parsers are somewhere in the derivation of the output:
\* in its thoughts; or what the tool parser has not read is what the derivation
\* has left, and what it has sent is what the part read asks for.  No delta,
\* nor the one that ends reasoning, has them lose their place
\* (deepseekv32_tool_parser_patched.py:436-626, dsv4_reasoning_tool_aware.py:138-233).
KeepsItsPlace == \E d \in {e \in Derivations : output.block = InnerText(e) \o EndToken} : PipeReading(d)
=============================================================================
