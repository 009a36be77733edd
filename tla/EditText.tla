------------------------------- MODULE EditText -------------------------------
(***************************************************************************)
(* What the edit tool and a hunk of a patch do to the text of a file       *)
(* (tools/builtins/edit.ts, applyPatch.ts, countOccurrences): the old text *)
(* is counted, then String.prototype.replace puts the new text in its      *)
(* place, and a pattern of that function in the new text is expanded.      *)
(* Texts are sequences of characters; FileEdits has the calls and files.   *)
(***************************************************************************)
EXTENDS Integers, Sequences, FiniteSets, SequencesExt

CONSTANTS
    Alphabet,      \* characters, the Newline among them
    Newline,
    MaxText,       \* bound: characters of the file
    MaxOldText,    \* bound: characters of oldText
    MaxNewText     \* bound: characters of newText

VARIABLE edit      \* [text, old, new]: the file's text and the arguments of the call

ContextLimit == 5  \* contexts of occurrences an answer shows
ContextLines == 2  \* lines around an occurrence

\* parse() refuses an empty oldText.
EditTextInit == \E c \in Alphabet : edit = [text |-> <<>>, old |-> <<c>>, new |-> <<>>]

LengthenText ==
    /\ Len(edit.text) < MaxText /\ Len(edit.old) = 1 /\ edit.new = <<>>
    /\ \E c \in Alphabet : edit' = [edit EXCEPT !.text = Append(@, c)]

LengthenOldText ==
    /\ Len(edit.old) < MaxOldText /\ edit.new = <<>>
    /\ \E c \in Alphabet : edit' = [edit EXCEPT !.old = Append(@, c)]

LengthenNewText ==
    /\ Len(edit.new) < MaxNewText
    /\ \E c \in Alphabet : edit' = [edit EXCEPT !.new = Append(@, c)]

EditTextNext == LengthenText \/ LengthenOldText \/ LengthenNewText

EditTextSpec == EditTextInit /\ [][EditTextNext]_edit

-------------------------------------------------------------------------------
Places(text, old) ==
    {i \in 1..(Len(text) - Len(old) + 1) : SubSeq(text, i, i + Len(old) - 1) = old}

\* Where the search finds the old text: from the left, each after the end of the one before.
Occurrences(text, old) ==
    LET from[i \in 1..(Len(text) + MaxOldText + 1)] ==
            LET later == {p \in Places(text, old) : p >= i}
                first == CHOOSE p \in later : \A q \in later : p <= q
            IN  IF later = {} THEN <<>> ELSE <<first>> \o from[first + Len(old)]
    IN  from[1]

\* Wrong: one match is enough.
CountUpToOne(text, old) == IF Places(text, old) = {} THEN 0 ELSE 1

CountOccurrences(text, old) == Len(Occurrences(text, old))

\* What replace() makes of "$$", "$&", "$`" and "$'".
Expanded(new, before, old, after) ==
    LET Meaning(c) == CASE c = "$" -> <<"$">> [] c = "&" -> old [] c = "`" -> before [] c = "'" -> after
        from[i \in 1..(Len(new) + 2)] ==
            IF i > Len(new) THEN <<>>
            ELSE IF new[i] = "$" /\ i < Len(new) /\ new[i + 1] \in {"$", "&", "`", "'"}
            THEN Meaning(new[i + 1]) \o from[i + 2]
            ELSE <<new[i]>> \o from[i + 1]
    IN  from[1]

TextBefore(text, at) == SubSeq(text, 1, at - 1)
TextAfter(text, at, old) == SubSeq(text, at + Len(old), Len(text))

\* The first place of the old text is replaced.
Replaced(text, old, new) ==
    LET at == Occurrences(text, old)[1]
        before == TextBefore(text, at)
        after == TextAfter(text, at, old)
    IN  before \o Expanded(new, before, old, after) \o after

\* lineNumberAt of the character at a place, and how many lines splitLines makes.
LineOf(text, at) == 1 + Cardinality({k \in 1..Len(text) : k < at /\ text[k] = Newline})
LinesOf(text) ==
    IF text = <<>> \/ Last(text) = Newline THEN LineOf(text, Len(text) + 1) - 1
    ELSE LineOf(text, Len(text) + 1)

\* renderContextAt: the lines shown for an occurrence.
ContextOf(text, at, old) ==
    LET first == LineOf(text, at) - ContextLines
        last == LineOf(text, at + Len(old)) + ContextLines
    IN  (IF first < 1 THEN 1 ELSE first)..(IF last > LinesOf(text) THEN LinesOf(text) ELSE last)

OccurrenceContexts(text, old) ==
    LET found == Occurrences(text, old)
    IN  [k \in 1..(IF Len(found) > ContextLimit THEN ContextLimit ELSE Len(found)) |->
            ContextOf(text, found[k], old)]

ExecuteEdit(e) ==
    LET count == CountOccurrences(e.text, e.old)
    IN  CASE count = 0 -> [code |-> "not found"]
          [] count > 1 -> [code |-> "not unique", count |-> count,
                           contexts |-> OccurrenceContexts(e.text, e.old)]
          [] OTHER -> [code |-> "edited", text |-> Replaced(e.text, e.old, e.new)]

-------------------------------------------------------------------------------
OverlapsItself(old) == \E k \in 1..(Len(old) - 1) : SubSeq(old, 1, Len(old) - k) = SubSeq(old, k + 1, Len(old))
HasPattern(new) == \E i \in 1..(Len(new) - 1) : new[i] = "$" /\ new[i + 1] \in {"$", "&", "`", "'"}

\* An edit changes the file only if the old text occurs, and at one place only unless it overlaps
\* itself; a new text without a pattern of replace() then stands where the old one stood, and the
\* rest of the file is as it was.  An edit refused for several places shows each of them, up to a
\* limit, with the lines it is on.
EditReplacesTheOne ==
    LET answer == ExecuteEdit(edit)
        places == Places(edit.text, edit.old)
    IN  /\ (answer.code = "not found") = (places = {})
        /\ answer.code = "edited" => Cardinality(places) = 1 \/ OverlapsItself(edit.old)
        /\ answer.code = "edited" /\ Cardinality(places) = 1 /\ ~HasPattern(edit.new) =>
               \A at \in places :
                   answer.text = TextBefore(edit.text, at) \o edit.new \o TextAfter(edit.text, at, edit.old)
        /\ answer.code = "not unique" =>
               /\ Cardinality(places) >= answer.count
               /\ \A k \in DOMAIN answer.contexts :
                    /\ answer.contexts[k] \subseteq 1..LinesOf(edit.text)
                    /\ \E at \in places : LineOf(edit.text, at) \in answer.contexts[k]

\* The tool's own words (edit.ts:14): "Replace one exact text occurrence in a workspace file. The
\* oldText must match exactly once."
EditIsWhatWasAsked ==
    ExecuteEdit(edit).code = "edited" =>
        \E at \in Places(edit.text, edit.old) :
            /\ Places(edit.text, edit.old) = {at}
            /\ ExecuteEdit(edit).text =
                   TextBefore(edit.text, at) \o edit.new \o TextAfter(edit.text, at, edit.old)
===============================================================================
