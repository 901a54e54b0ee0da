----------------------------- MODULE ToolGrammar -----------------------------
(***************************************************************************)
(* The outputs that the tool parser is written for: a block of calls as    *)
(* the chat template asks the model for it, given by what it derives from. *)
(* The proofs about what the parser reads are for such outputs, however    *)
(* they are cut; the parser is also given others (TypeOK and LoopEnds of   *)
(* ToolStream are for all).                                                *)
(***************************************************************************)
EXTENDS ToolStream

Spaces == Seq({WS})

-----------------------------------------------------------------------------
(* A derivation d has the spaces before its first call and its calls; a    *)
(* call its name, the spaces before its first parameter, its parameters,   *)
(* and the spaces after it; a parameter its key, its text and the spaces   *)
(* after it.                                                               *)

ParamText(p) == <<LT, DSML, p.key>> \o (p.text \o (ParamEnd \o p.gap))
ParamTexts(c) == [i \in 1 .. Len(c.params) |-> ParamText(c.params[i])]
BodyText(c) == c.lead \o FlattenSeq(ParamTexts(c))

CallText(c) == (InvokeMarker \o <<c.name>>) \o (BodyText(c) \o (InvokeEnd \o c.gap))
CallTexts(d) == [j \in 1 .. Len(d.calls) |-> CallText(d.calls[j])]
InnerText(d) == d.lead \o FlattenSeq(CallTexts(d))

\* No end tag stands in what it ends: neither parser could tell it from the
\* end.  An object is an object, and the object that a lone wrapper stands
\* around is alone: with other parameters the two parsers differ.  So they do
\* when a call gives a parameter twice, which the streaming parser sends twice
\* and the dict of the one-shot parser keeps once.
IsParam(p) ==
    /\ p.key \in Params /\ p.gap \in Spaces
    /\ p.text \in Seq(Range(p.text)) /\ Occurrences(ParamEnd, p.text) = {}
    /\ p.key \in ObjectParams => p.text = <<OBJECT>>

IsCall(c) ==
    /\ c.name \in Names /\ c.lead \in Spaces /\ c.gap \in Spaces
    /\ c.params \in Seq(Range(c.params))
    /\ \A i \in 1 .. Len(c.params) : IsParam(c.params[i])
    /\ \A h, i \in 1 .. Len(c.params) : c.params[h].key = c.params[i].key => h = i
    /\ Occurrences(InvokeEnd, BodyText(c)) = {}
    /\ Len(c.params) > 1 =>
         ~(c.params[1].key \in Wrappers /\ c.params[1].text = <<INNER>>)

IsDerivation(d) ==
    /\ d.lead \in Spaces
    /\ d.calls \in Seq(Range(d.calls)) /\ d.calls # <<>>
    /\ \A j \in 1 .. Len(d.calls) : IsCall(d.calls[j])
    /\ Occurrences(EndToken, InnerText(d)) = {}

\* The opener is the first markup of an output, and one that lost its head is
\* not taken for another that did not.
Opens(o) ==
    /\ DSML \notin Range(o.before)
    /\ o.opener # StartToken => Occurrences(StartToken, TextOf(o)) = {}

\* What comes before a headless opener is not taken for the "<" or the "</"
\* of it, and nothing after the block for markup.
WellFormed(o, d) ==
    /\ Opens(o)
    /\ o.opener = Headless /\ o.before # <<>> => Last(o.before) \notin {LT, SLASH}
    /\ IsDerivation(d) /\ o.block = InnerText(d) \o EndToken
    /\ DSML \notin Range(o.after)

OneOpener == \A o \in Outputs : Opens(o)
WellFormedOutputs == \A o \in Outputs : \E d : WellFormed(o, d)
=============================================================================
