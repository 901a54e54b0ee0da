------------------------------ MODULE DsmlSplit ------------------------------
(***************************************************************************)
(* src/parsers/dsv4_dsml_split.py: where a DSML tool call begins in the    *)
(* text of a stream, and the filter of stray </think> tags.                *)
(*                                                                         *)
(* A text is a sequence of pieces.  A start tag is three of them and       *)
(* </think> two, sharing their first, "<"; a tag can be cut between pieces.*)
(***************************************************************************)
EXTENDS Integers, SequencesExt

LT == "<"              \* opens every tag
DSML == "dsml"         \* the DSML marker
CALLS == "calls"       \* tool_calls>
FUNCS == "functions"   \* function_calls>
CLOSE == "/think>"
WORD == "word"         \* any other text

ToolStartTags == <<<<LT, DSML, CALLS>>, <<LT, DSML, FUNCS>>>>
HeadlessTags == [i \in DOMAIN ToolStartTags |-> Tail(ToolStartTags[i])]
AllTags == ToolStartTags \o HeadlessTags

ThinkClose == <<LT, CLOSE>>

-----------------------------------------------------------------------------
(* Text as Python slices it: positions count from 0.                       *)

Before(text, p) == SubSeq(text, 1, p)
From(text, p) == SubSeq(text, p + 1, Len(text))

Occurrences(tag, text) ==
    {p \in 0 .. Len(text) - Len(tag) : SubSeq(text, p + 1, p + Len(tag)) = tag}

\* str.find
Find(text, tag) ==
    LET found == Occurrences(tag, text)
    IN  IF found = {} THEN -1 ELSE Min(found)

-----------------------------------------------------------------------------
EarliestToolTagPos(text) ==
    LET positions == {Find(text, AllTags[i]) : i \in DOMAIN AllTags} \ {-1}
    IN  IF positions = {} THEN -1 ELSE Min(positions)

\* The length of the longest end of the text that a tag may still complete.
TrailingPartial(text, tags) ==
    Max({0} \cup {k \in 1 .. Len(text) : \E i \in DOMAIN tags :
                    k < Len(tags[i]) /\ IsSuffix(Before(tags[i], k), text)})

\* (Mutant) the partial tag is not held back.
NothingHeld(text) == 0

TrailingPartialTagLen(text) == TrailingPartial(text, AllTags)

TagPresentOrForming(text) ==
    EarliestToolTagPos(text) >= 0 \/ TrailingPartialTagLen(text) > 0

\* (Mutant) a headless tag is left as it came.
AsItCame(content) == content

\* The "<" that was dropped is put back.
Repaired(content) == <<LT>> \o content

\* The position the text is split at: tags are tried in order, the full
\* ones before the headless.
FirstFound(text, tags) ==
    LET found == {i \in DOMAIN tags : Find(text, tags[i]) >= 0}
    IN  IF found = {} THEN -1 ELSE Find(text, tags[Min(found)])

Split(text) ==
    LET full == FirstFound(text, ToolStartTags)
        headless == FirstFound(text, HeadlessTags)
        kept == Len(text) - TrailingPartialTagLen(text)
    IN  IF full >= 0
        THEN [reasoning |-> Before(text, full), content |-> From(text, full)]
        ELSE IF headless >= 0
        THEN [reasoning |-> Before(text, headless), content |-> Repaired(From(text, headless))]
        ELSE [reasoning |-> Before(text, kept), content |-> <<>>]

StreamDeltas(previous, current) ==
    LET now == Split(current)
        was == Split(previous)
    IN  [reasoning |-> From(now.reasoning, Len(was.reasoning)),
         content   |-> From(now.content, Len(was.content))]

\* str.replace(THINK_CLOSE, "")
WithoutClose(text) ==
    LET tagged == UNION {{p + 1, p + 2} : p \in Occurrences(ThinkClose, text)}
    IN  FlattenSeq([i \in DOMAIN text |-> IF i \in tagged THEN <<>> ELSE <<text[i]>>])

\* (Mutant) the filter holds back all it has.
HoldAll(pending, new) == [emit |-> <<>>, pending |-> WithoutClose(pending \o new)]

FilterThinkClose(pending, new) ==
    LET buf == WithoutClose(pending \o new)
        kept == Len(buf) - TrailingPartial(buf, <<ThinkClose>>)
    IN  [emit |-> Before(buf, kept), pending |-> From(buf, kept)]
=============================================================================
