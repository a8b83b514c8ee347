------------------------------ MODULE Fingerprints ------------------------------
(***************************************************************************)
(* The bytes fingerprintOf hashes.  A text is a sequence of characters;    *)
(* the fixed words of the format stand as one character each, and the      *)
(* texts a caller supplies may hold any character, those included.         *)
(***************************************************************************)
EXTENDS Naturals, FiniteSets, SequencesExt

CONSTANTS
    Base,       \* of the numbers written out: 10 in the code
    Digit,      \* the character of each digit
    Character,  \* what texts are made of
    NoText,     \* the caller supplied no date
    Drafts      \* what may be asked to be recorded

Text == Seq(Character)

\* What fingerprintOf reads of a draft. Metadata is a Go map, so its keys are a finite
\* set; a posting is its account's three parts, its currency and its amount.
IsContent(draft) ==
    /\ draft = [note |-> draft.note, date |-> draft.date,
                metadata |-> draft.metadata, postings |-> draft.postings]
    /\ draft.note \in Text
    /\ draft.date \in Text \cup {NoText}
    /\ IsFiniteSet(DOMAIN draft.metadata) /\ DOMAIN draft.metadata \subseteq Text
    /\ draft.metadata \in [DOMAIN draft.metadata -> Text]
    /\ draft.postings \in Seq([1 .. 5 -> Text])

\* Digits differ from each other and from what the format puts after or instead of them.
ASSUME FingerprintConstants ==
    /\ Base \in Nat \ {0, 1}
    /\ {"n", "d", "m", "p", ":", "=", ";"} \subseteq Character
    /\ Digit \in [0 .. Base - 1 -> Character]
    /\ \A i, j \in 0 .. Base - 1 : Digit[i] = Digit[j] => i = j
    /\ \A i \in 0 .. Base - 1 : Digit[i] \notin {"m", ":", ";"}
    /\ NoText \notin Text
    /\ IsFiniteSet(Drafts)
    /\ \A draft \in Drafts : IsContent(draft)

Digits[n \in Nat] ==
    IF n < Base THEN <<Digit[n]>> ELSE Append(Digits[n \div Base], Digit[n % Base])

\* Slip: a delimiter after the text instead of its length before it.
FieldDelimited(text) == Append(text, ":")

Field(text) == Digits[Len(text)] \o <<":">> \o text

Fields(texts) == FlattenSeq([i \in DOMAIN texts |-> Field(texts[i])])

Count(word, n) == <<word, "=">> \o Digits[n] \o <<";">>

\* The note, a supplied date, the metadata in one order of its keys and the five
\* parts of each posting in request order.
Preimage(draft) ==
    LET keys == SetToSeq(DOMAIN draft.metadata)
    IN  Fields(<<<<"n">>, draft.note>>)
        \o (IF draft.date = NoText THEN <<>> ELSE Fields(<<<<"d">>, draft.date>>))
        \o Count("m", Len(keys))
        \o FlattenSeq([i \in DOMAIN keys |-> Fields(<<keys[i], draft.metadata[keys[i]]>>)])
        \o Count("p", Len(draft.postings))
        \o FlattenSeq([i \in DOMAIN draft.postings |-> Fields(draft.postings[i])])

\* No two of these contents are hashed from the same bytes, whatever characters
\* their texts hold: a retry replays the transaction it asked for and never another
\* that happens to be written alike.
TellsApart(contents) ==
    Cardinality({Preimage(content) : content \in contents}) = Cardinality(contents)
================================================================================
