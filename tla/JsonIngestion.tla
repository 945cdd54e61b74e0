----------------------------- MODULE JsonIngestion -----------------------------
(***************************************************************************)
(* ingestJsonText: how the orchestrator finds the JSON value in what an    *)
(* agent has answered.  A text is a sequence of symbols that stand for     *)
(* classes of characters: the four brackets, Quote, Escape, Comma, a       *)
(* Comment, a Fence line, Plain (the inside of a literal) and Prose (a     *)
(* character no JSON value has outside a string); an object's member is    *)
(* written without its key.  Single quotes, unquoted keys, commas that are *)
(* missing before a key and the line-wise JSONL form are left out.         *)
(***************************************************************************)
EXTENDS Integers, SequencesExt

Quote == "q"
Escape == "e"
Comma == ","
Comment == "c"
Fence == "f"
Plain == "x"
Prose == "!"

Closing == ("{" :> "}") @@ ("[" :> "]")
Opens(c)  == c \in {"{", "["}
Closes(c) == c \in {"}", "]"}

\* What ingestJsonText throws.
Rejected == <<>>

\* The scanner: whether it is in a string, the brackets to close, and whether one was
\* closed that is not open.
Scanner == [mode |-> "out", stack |-> <<>>, bad |-> FALSE]

Scan(s, c) ==
    CASE s.mode = "escaped" -> [s EXCEPT !.mode = "string"]
      [] s.mode = "string"  -> [s EXCEPT !.mode = CASE c = Escape -> "escaped"
                                                   [] c = Quote  -> "out"
                                                   [] OTHER      -> "string"]
      [] c = Quote          -> [s EXCEPT !.mode = "string"]
      [] Opens(c)           -> [s EXCEPT !.stack = <<Closing[c]>> \o @]
      [] Closes(c)          -> IF s.stack # <<>> /\ Head(s.stack) = c
                               THEN [s EXCEPT !.stack = Tail(@)]
                               ELSE [s EXCEPT !.bad = TRUE]
      [] OTHER              -> s

\* The scanner before the text and after each of its symbols.
Scanned(text) == FoldLeft(LAMBDA seen, c : Append(seen, Scan(Last(seen), c)), <<Scanner>>, text)

\* The symbols outside the strings; a string is represented by its opening quote.
Outside(text) ==
    LET seen == Scanned(text) IN {i \in DOMAIN text : seen[i].mode = "out"}

\* Where the value that starts at a bracket ends; 0 when it does not.
CompleteJsonValueEnd(text, start) ==
    LET seen == Scanned(SubSeq(text, start, Len(text)))
        ends == {i \in 2 .. Len(seen) : seen[i].stack = <<>> /\ ~seen[i].bad}
    IN IF Opens(text[start]) /\ ends # {} THEN start + Min(ends) - 2 ELSE 0

\* JSON.parse, as far as the symbols tell: one value, values side by side only with a
\* comma between them.
IsJson(text) ==
    LET seen == Scanned(text)
        out  == Outside(text)
        Begins(i) == i \in out /\ (Opens(text[i]) \/ text[i] \in {Quote, Plain})
        Ends(i)   == \/ i \in out /\ (Closes(text[i]) \/ text[i] = Plain)
                     \/ seen[i].mode = "string" /\ text[i] = Quote
    IN /\ text # <<>> /\ Last(seen) = Scanner
       /\ \A i \in out : text[i] \notin {Prose, Comment, Fence, Escape}
       /\ \A i \in out : text[i] = Comma =>
              seen[i].stack # <<>> /\ i < Len(text) /\ Ends(i - 1) /\ Begins(i + 1)
       /\ \A i \in 1 .. Len(text) - 1 : Ends(i) /\ Begins(i + 1) => text[i] = Plain /\ text[i + 1] = Plain

\* The values found from a place on, each search going on behind the value before.
Candidates(text) ==
    LET from[i \in 1 .. Len(text) + 1] ==
            IF i > Len(text) THEN <<>>
            ELSE LET end == CompleteJsonValueEnd(text, i)
                     value == SubSeq(text, i, end)
                 IN IF end > 0 /\ IsJson(value) THEN <<value>> \o from[end + 1] ELSE from[i + 1]
    IN from[1]

ExtractUniqueJsonValue(text) == IF Len(Candidates(text)) = 1 THEN Candidates(text)[1] ELSE Rejected

\* The text between the lines of the only fence; Rejected when there is no single fence.
UnwrapSingleFence(text) ==
    LET lines == {i \in DOMAIN text : text[i] = Fence}
        first == Min(lines)
    IN IF Cardinality(lines) \in {2, 3}
       THEN SubSeq(text, first + 1, Min(lines \ {first}) - 1)
       ELSE Rejected

KeepAt(text, places) ==
    LET order == SelectSeq([i \in DOMAIN text |-> i], LAMBDA i : i \in places)
    IN [i \in DOMAIN order |-> text[order[i]]]

\* A comma goes between an object and the next, a list and the next.
AddCommas(text) ==
    FoldLeft(LAMBDA t, c : IF t # <<>> /\ <<Last(t), c>> \in {<<"}", "{">>, <<"]", "[">>}
                           THEN t \o <<Comma, c>> ELSE Append(t, c), <<>>, text)

\* Comments go, commas before a closing bracket go (in strings too), commas are added (in
\* strings too), brackets that are left open are closed.
RepairSyntaxValue(text) ==
    LET code  == KeepAt(text, {i \in DOMAIN text : ~(text[i] = Comment /\ i \in Outside(text))})
        kept  == KeepAt(code, {i \in DOMAIN code : ~(code[i] = Comma /\ i < Len(code) /\ Closes(code[i + 1]))})
        value == AddCommas(kept)
        end   == Last(Scanned(value))
    IN IF end.mode = "out" /\ ~end.bad THEN value \o end.stack ELSE Rejected

OrElse(text, other) == IF text # Rejected THEN text ELSE other

\* A fenced text is repaired whether or not it needs it.
NormalizeText(text) ==
    LET fenced    == UnwrapSingleFence(text)
        repaired  == RepairSyntaxValue(text)
        extracted == ExtractUniqueJsonValue(text)
    IN IF fenced # Rejected THEN OrElse(RepairSyntaxValue(fenced), fenced)
       ELSE IF IsJson(text) THEN text
       ELSE IF IsJson(repaired) THEN repaired
       ELSE OrElse(RepairSyntaxValue(extracted), extracted)

IngestJsonText(text) ==
    LET value == NormalizeText(text)
    IN IF IsJson(value) THEN value ELSE Rejected

-----------------------------------------------------------------------------
(* What is promised of it. *)

\* Two complete values side by side in the text.
TwoValues(text) ==
    \E i, j, k, l \in DOMAIN text :
        /\ i < j /\ j < k /\ k < l /\ Opens(text[i]) /\ Opens(text[k])
        /\ IsJson(SubSeq(text, i, j)) /\ IsJson(SubSeq(text, k, l))

\* Nothing is guessed: a value taken out of prose has no second value beside it.
NothingIsGuessed(text) == ExtractUniqueJsonValue(text) # Rejected => ~TwoValues(text)

\* A text that is JSON is taken as it is.
ValidIsKept(text) == UnwrapSingleFence(text) = Rejected /\ IsJson(text) => IngestJsonText(text) = text

\* Nothing that carries data is added or reordered: what is accepted is the text with
\* symbols left out and brackets and commas added.
Data(text) == SelectSeq(text, LAMBDA c : c \in {Quote, Plain, Escape})
IsPart(s, t) == FoldLeft(LAMBDA rest, c : IF rest # <<>> /\ Head(rest) = c THEN Tail(rest) ELSE rest, s, t) = <<>>
NothingIsInvented(text) == IsPart(Data(IngestJsonText(text)), Data(text))
=============================================================================
