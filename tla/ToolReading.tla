----------------------------- MODULE ToolReading -----------------------------
(***************************************************************************)
(* How far the tool parser has read a well-formed output: the inductive    *)
(* invariant of ToolStream for the outputs of ToolGrammar.  What has not   *)
(* been read, in the buffer or still to come, is what is left of the       *)
(* derivation, and the calls sent so far are those of what has been read.  *)
(***************************************************************************)
EXTENDS ToolGrammar

-----------------------------------------------------------------------------
(* What the parser is to send for a derivation.                            *)

Entries(c) == Unwrapped([i \in 1 .. Len(c.params) |->
                            [key |-> c.params[i].key, text |-> c.params[i].text]])
EntryTexts(c) ==
    [i \in 1 .. Len(c.params) |->
        Prefix(IF i = 1 THEN <<>> ELSE <<"{">>, Entries(c)[i].key) \o Entries(c)[i].json]

\* The arguments of a call after i of its parameters.
ArgsAfter(c, i) == FlattenSeq(Before(EntryTexts(c), i))

WholeCall(c) == [name |-> c.name, args |-> Closed(ArgsAfter(c, Len(c.params)))]
CallsIn(d) == [j \in 1 .. Len(d.calls) |-> WholeCall(d.calls[j])]

-----------------------------------------------------------------------------
(* What is left of an output behind j of its calls, and behind i of the    *)
(* parameters of the j-th.                                                 *)

AfterCalls(o, d, j) == FlattenSeq(From(CallTexts(d), j)) \o (EndToken \o o.after)

AfterParams(o, d, j, i) ==
    FlattenSeq(From(ParamTexts(d.calls[j]), i))
        \o (InvokeEnd \o (d.calls[j].gap \o AfterCalls(o, d, j)))

AfterValue(o, d, j, i) == ParamEnd \o (d.calls[j].params[i].gap \o AfterParams(o, d, j, i))

-----------------------------------------------------------------------------
\* All that has not been read.
Left == buffer \o From(TextOf(output), fed)

Fronts(text) == {Before(text, k) : k \in 0 .. Len(text)}

\* Before the block: its opener is whole, or has lost its "<", or more.
OpenerAhead(left, o, d) ==
    \E x \in Fronts(left) :
        /\ DSML \notin Range(x)
        /\ \/ left = x \o (StartToken \o (o.block \o o.after))
           \/ /\ Occurrences(StartToken, left) = {}
              /\ x # <<>> => Last(x) \notin {LT, SLASH}
              /\ left = x \o (Headless \o (o.block \o o.after))
           \/ /\ Occurrences(StartToken, left) = {} /\ LT \notin Range(x)
              /\ left = x \o AfterCalls(o, d, 0)

Opening(d) ==
    /\ ~inCalls /\ calls = <<>> /\ active = 0 /\ param = NoParam
    /\ OpenerAhead(Left, output, d)

SpacesThen(left, rest) == \E s \in Fronts(left) : Range(s) \subseteq {WS} /\ left = s \o rest

\* Between two calls, before the first or behind the last.
Between(d) ==
    /\ inCalls /\ active = 0 /\ param = NoParam
    /\ \E j \in 0 .. Len(d.calls) :
         calls = Before(CallsIn(d), j) /\ SpacesThen(Left, AfterCalls(output, d, j))

\* The j-th call is under way, and these are its arguments.
Started(d, j, args) ==
    Append(Before(CallsIn(d), j - 1), [name |-> d.calls[j].name, args |-> args])
UnderWay(d, j, args) ==
    /\ inCalls /\ active = j
    /\ calls = Started(d, j, args)

WithinCall(d) ==
    /\ param = NoParam
    /\ \E j \in 1 .. Len(d.calls) : \E i \in 0 .. Len(d.calls[j].params) :
         /\ UnderWay(d, j, ArgsAfter(d.calls[j], i))
         /\ SpacesThen(Left, AfterParams(output, d, j, i))

\* The value of the i-th parameter of the j-th call has been read up to v.
Sending(d, j, i, v) ==
    LET c == d.calls[j]
        key == c.params[i].key
        args == ArgsAfter(c, i - 1)
    IN  \/ /\ param = [name |-> key, mode |-> "wrapper", parts |-> v]
           /\ i = 1 /\ key \in Wrappers
           /\ UnderWay(d, j, args)
        \/ /\ param = [name |-> key, mode |-> "buffered", parts |-> v]
           /\ key \in ScalarParams
           /\ UnderWay(d, j, args)
        \/ /\ param = [name |-> key, mode |-> "raw", parts |-> <<>>]
           /\ key \in ObjectParams
           /\ UnderWay(d, j, args \o Prefix(args, key) \o v)
        \/ /\ param = [name |-> key, mode |-> "string", parts |-> <<>>]
           /\ key \notin ScalarParams \cup ObjectParams
           /\ ~(i = 1 /\ key \in Wrappers)
           /\ UnderWay(d, j, args \o Prefix(args, key) \o <<QUOTE>> \o v)

InValue(d) ==
    \E j \in 1 .. Len(d.calls) : \E i \in 1 .. Len(d.calls[j].params) :
        LET text == d.calls[j].params[i].text
        IN  \E k \in 0 .. Len(text) :
              /\ Left = From(text, k) \o AfterValue(output, d, j, i)
              /\ Sending(d, j, i, Before(text, k))

\* Behind the block.
ReadAll(d) ==
    /\ ~inCalls /\ calls = CallsIn(d) /\ active = 0 /\ param = NoParam
    /\ DSML \notin Range(Left)

Progress(d) == Opening(d) \/ Between(d) \/ WithinCall(d) \/ InValue(d) \/ ReadAll(d)

\* The parser is somewhere in the output, and when all of it has been fed it
\* is behind the block.
Reading(d) ==
    /\ WellFormed(output, d)
    /\ phase = "ended" => calls = CallsIn(d)
    /\ previous /\ phase # "ended" => Progress(d)
    /\ previous /\ phase = "idle" => ReadAll(d) \/ fed < Len(TextOf(output))

\* A parser that has been given nothing awaits the opener: its first delta
\* resets everything.
Awaits(d) ==
    ~previous /\ phase # "ended" => OpenerAhead(From(TextOf(output), fed), output, d)
=============================================================================
