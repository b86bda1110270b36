---------------------------- MODULE PageSignals ----------------------------
(***************************************************************************)
(* What is read off a competitor's landing page (pageSignals.ts), how two  *)
(* reads are compared by the manual watchlist (watchlist.ts,               *)
(* signalSummary.ts) and by the monitoring (monitoring/differ.ts), and     *)
(* what survives the browser's storage.                                    *)
(*                                                                         *)
(* A text is [word, look]: its word is what is left of it without case and *)
(* spacing (norm), its look is how the page wrote it.  A signal that was   *)
(* not found is Null; benefits and trust signals are sequences of texts.   *)
(***************************************************************************)
EXTENDS SequencesExt

CONSTANTS
    Null,
    Texts,         \* the texts a page may show
    MaxListItems,  \* MAX_LIST_ITEMS
    MaxStored      \* the items of a list sanitizeSignals keeps

\* Texts are trimmed, and an empty one is not found.
ASSUME PageAssumption ==
    /\ \A text \in Texts : text.word # ""
    /\ {MaxListItems, MaxStored} \subseteq Nat

Lines == {"headline", "cta", "offer", "positioning"}
Strings == Lines \cup {"rawSummary"}
Lists == {"benefits", "trustSignals"}
Fields == Strings \cup Lists

IsSignals(s) ==
    /\ s = [f \in Fields |-> s[f]]
    /\ \A f \in Strings : s[f] = Null \/ s[f] \in Texts
    /\ \A f \in Lists : s[f] = Null \/ s[f] \in Seq(Texts)

Nothing == [f \in Fields |-> Null]
Norm(text) == IF text = Null THEN "" ELSE text.word
Words(list) == IF list = Null THEN {} ELSE {text.word : text \in ToSet(list)}
UpTo(list, n) == IF Len(list) <= n THEN list ELSE SubSeq(list, 1, n)

\* What a page has where the parser looks.
IsParts(parts) ==
    /\ parts.headings \in Seq(Texts)
    /\ parts.labels \in Seq([text : Texts, known : BOOLEAN])
    /\ parts.benefits \in Seq(Texts) /\ parts.trust \in Seq(Texts)
    /\ \A text \in {parts.title, parts.phrase, parts.offer, parts.positioning, parts.metaDescription} :
           text = Null \/ text \in Texts

\* extractPageSignals: parts has the headings and the labels in their order
\* on the page, each label with whether it has a phrase of CTA_PHRASES, and
\* what the term lists matched in the text; Null when nothing usable is there.
ExtractPageSignals(parts) ==
    LET known == {i \in DOMAIN parts.labels : parts.labels[i].known}
        Detected(list) == IF list = <<>> THEN Null ELSE UpTo(list, MaxListItems)
        signals ==
            [headline     |-> IF parts.headings # <<>> THEN Head(parts.headings) ELSE parts.title,
             cta          |-> IF known # {} THEN parts.labels[Min(known)].text ELSE parts.phrase,
             offer        |-> parts.offer,
             positioning  |-> parts.positioning,
             rawSummary   |-> parts.metaDescription,
             benefits     |-> Detected(parts.benefits),
             trustSignals |-> Detected(parts.trust)]
    IN  IF signals = Nothing THEN Null ELSE signals

-----------------------------------------------------------------------------
(* Comparing two reads *)

\* diffPageSignals: the lines that read differently, and the lists with a new
\* item.  Nothing is said of an item that went away.
\* Mutant of DiffPageSignals: the texts are compared as the page wrote them.
DiffPageSignals_exact(prev, next) ==
    {f \in Lines : prev[f] # next[f]} \cup {f \in Lists : Words(next[f]) \ Words(prev[f]) # {}}
DiffPageSignals(prev, next) ==
    {f \in Lines : Norm(prev[f]) # Norm(next[f])}
    \cup {f \in Lists : Words(next[f]) \ Words(prev[f]) # {}}

\* groupSignalChanges: the same comparison by category, for the notes.
Category(f) ==
    CASE f = "headline"          -> "Headline / message"
      [] f \in {"cta", "offer"}  -> "CTA / offer"
      [] f = "positioning"       -> "Positioning"
      [] f \in Lists             -> "Benefits / proof"
GroupSignalChanges(prev, curr) ==
    LET said == {Category(f) : f \in {g \in Lines : Norm(prev[g]) # Norm(curr[g])}}
                \cup {Category(f) : f \in {g \in Lists : ~(Words(curr[g]) \subseteq Words(prev[g]))}}
    IN  IF said = {} THEN {"No meaningful change"} ELSE said

\* canonicalizeSignals: what the content hash is taken of.  Lists keep the
\* order in which they say something first and lose their repetitions: the
\* words and which is before which.  A field that says nothing is left out.
CanonicalizeSignals(signals) ==
    LET Said(list, i) == list[i].word # "" /\ \A j \in 1 .. i - 1 : list[j].word # list[i].word
        Order(list) ==
            {pair \in Words(list) \X Words(list) : \E i, j \in DOMAIN list :
                i < j /\ Said(list, i) /\ Said(list, j) /\ pair = <<list[i].word, list[j].word>>}
        Once(list) == [words |-> Words(list) \ {""}, order |-> Order(list)]
        said == {f \in Strings : Norm(signals[f]) # ""} \cup {f \in Lists : Words(signals[f]) \ {""} # {}}
    IN  [f \in said |-> IF f \in Lists THEN Once(signals[f]) ELSE Norm(signals[f])]

CompletenessOf(signals) == IF Norm(signals.headline) # "" THEN "full" ELSE "partial"

\* diffSnapshots: two reads of different completeness are not compared, and
\* of the others only the fields both have.
DiffSnapshots(prev, next) ==
    LET Kept(s, other) == [f \in Fields |-> IF other[f] = Null THEN Null ELSE s[f]]
    IN  IF CompletenessOf(prev) # CompletenessOf(next) THEN {}
        ELSE DiffPageSignals(Kept(prev, next), Kept(next, prev))

-----------------------------------------------------------------------------
(* The browser's storage *)

\* sanitizeSignals: lists are cut, and signals without a field are none.
SanitizeSignals(signals) ==
    IF signals \in {Null, Nothing} THEN Null
    ELSE [f \in Fields |-> IF f \in Lists /\ signals[f] # Null THEN UpTo(signals[f], MaxStored)
                           ELSE signals[f]]
=============================================================================
