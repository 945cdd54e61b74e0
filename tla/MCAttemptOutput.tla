--------------------------- MODULE MCAttemptOutput ---------------------------
EXTENDS AttemptOutput

CONSTANTS a1, a2

MCAttempts == {a1, a2}

\* The texts over which ingestJsonText is checked on its own.
Symbols == {"{", "}", "[", "]", Quote, Escape, Comma, Comment, Fence, Plain, Prose}
TextsUpTo(symbols, n) == UNION {[1 .. k -> symbols] : k \in 0 .. n}
CheckedTexts == TextsUpTo(Symbols, 3) \union TextsUpTo({"{", "}", Quote, Comma, Plain, Prose}, 5)

ASSUME JsonPromises ==
    \A t \in CheckedTexts : NothingIsGuessed(t) /\ ValidIsKept(t) /\ NothingIsInvented(t)

\* A comma inside a string is dropped when the text around the value makes a repair run.
ASSUME StringsAreRepairedToo ==
    LET value == <<"{", Quote, Comma, "}", Quote, "}">> IN
    IsJson(value) /\ IngestJsonText(<<Prose>> \o value) # value
=============================================================================
