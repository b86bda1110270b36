-------------------------- MODULE CompetitorProofs --------------------------
(***************************************************************************)
(* CompetitorSession, for any visits, any library and any answers.  What   *)
(* is picked of a list is at places that only go up, and every place asked *)
(* for is among them: the lemmas of ListsProofs carry the first part.      *)
(***************************************************************************)
EXTENDS CompetitorSession, ListsProofs

-----------------------------------------------------------------------------
(* Texts: what is cut out of a list of lines are lists of lines.           *)
AreLists(list) == IsList(list) /\ \A x \in Members(list) : IsList(x)

LEMMA TrimmedIsList ==
  ASSUME NEW lines, IsList(lines)
  PROVE  IsList(Trimmed(lines)) /\ Members(Trimmed(lines)) \subseteq Members(lines)
  BY PickedWithin DEF Trimmed

LEMMA AmongMembers ==
  ASSUME NEW list, IsList(list), NEW labels
  PROVE  /\ IsList(Among(list, labels))
         /\ Members(Among(list, labels)) = Members(list) \cap labels
<1> DEFINE places == {i \in 1 .. Len(list) : list[i] \in labels}
<1>1. IsList(Picked(list, places))
  BY PickedMembers
<1>2. Members(Picked(list, places)) = {list[i] : i \in places \cap 1 .. Len(list)}
  BY PickedMembers
<1>3. {list[i] : i \in places \cap 1 .. Len(list)} = Members(list) \cap labels
  BY DEF Members
<1> QED
  BY <1>1, <1>2, <1>3 DEF Among

LEMMA NonBlankLists ==
  ASSUME NEW n \in Nat, NEW list, list = [i \in 1 .. n |-> list[i]],
         \A i \in 1 .. n : IsList(list[i])
  PROVE  AreLists(NonBlank(list))
<1>1. IsList(list) /\ Len(list) = n
  BY MadeIsList
<1>2. \A x \in Members(list) : IsList(x)
  BY <1>1 DEF Members
<1> QED
  BY <1>1, <1>2, NonBlankMembers DEF AreLists

LEMMA PartsAreLists ==
  ASSUME NEW lines, IsList(lines), NEW kind
  PROVE  AreLists(Parts(lines, kind))
<1> DEFINE borders == {i \in 1 .. Len(lines) : lines[i].k = kind}
           n == Cardinality(borders) + 1
           Part(k) == Trimmed(Picked(lines, Stretch(lines, borders, k) \ borders))
           all == [k \in 1 .. n |-> Part(k)]
<1>1. n \in Nat
  BY CountIsNat
<1>2. \A k \in 1 .. n : IsList(Part(k))
  BY PickedMembers, TrimmedIsList
<1> HIDE DEF n, Part
<1>3. all = [k \in 1 .. n |-> all[k]] /\ \A k \in 1 .. n : IsList(all[k])
  BY <1>2
<1>4. AreLists(NonBlank(all))
  BY <1>1, <1>3, NonBlankLists
<1> QED
  BY <1>4 DEF Parts, n, Part

LEMMA ButtonsAreLists ==
  ASSUME NEW lines, IsList(lines)
  PROVE  AreLists(AfterButtons(lines))
<1> DEFINE buttons == {i \in 1 .. Len(lines) : CtaLine(lines[i])}
           n == Cardinality(buttons) + 1
           Part(k) == Picked(lines, Stretch(lines, buttons, k))
           all == [k \in 1 .. n |-> Part(k)]
<1>1. n \in Nat
  BY CountIsNat
<1>2. \A k \in 1 .. n : IsList(Part(k))
  BY PickedMembers
<1> HIDE DEF n, Part
<1>3. all = [k \in 1 .. n |-> all[k]] /\ \A k \in 1 .. n : IsList(all[k])
  BY <1>2
<1>4. AreLists(NonBlank(all))
  BY <1>1, <1>3, NonBlankLists
<1> QED
  BY <1>4 DEF AfterButtons, n, Part

LEMMA SplitAreLists ==
  ASSUME NEW lines, IsList(lines)
  PROVE  AreLists(SplitAdBlocks(lines))
  BY PartsAreLists DEF SplitAdBlocks

LEMMA BoundariesAreLists ==
  ASSUME NEW lines, IsList(lines)
  PROVE  AreLists(DetectBoundaries(lines).parts)
<1>1. IsList(Trimmed(lines))
  BY TrimmedIsList
<1>2. AreLists(AfterButtons(Trimmed(lines))) /\ AreLists(SplitAdBlocks(lines))
  BY <1>1, ButtonsAreLists, SplitAreLists
<1>3. AreLists(<<>>)
  <2>1. IsList(<<>>)
    BY SeqIsList, EmptySeq
  <2>2. Members(<<>>) = {}
    BY DEF Members
  <2> QED
    BY <2>1, <2>2 DEF AreLists
<1>4. AreLists(<<Trimmed(lines)>>)
  <2> DEFINE t == Trimmed(lines)
  <2> HIDE DEF t
  <2>1. <<t>> \in Seq({t}) /\ Len(<<t>>) = 1 /\ <<t>>[1] = t
    OBVIOUS
  <2>2. IsList(<<t>>)
    BY <2>1, SeqIsList
  <2>3. \A x \in Members(<<t>>) : x = t
    BY <2>1 DEF Members
  <2> QED
    BY <2>2, <2>3, <1>1 DEF AreLists, t
<1> QED
  BY <1>2, <1>3, <1>4 DEF DetectBoundaries

LEMMA ChromeIsList ==
  ASSUME NEW lines, IsList(lines), NEW competitor
  PROVE  IsList(StripChrome(lines, competitor))
<1>1. ASSUME NEW list, NEW kept, list = [i \in 1 .. Len(lines) |-> list[i]]
      PROVE  IsList(Picked(list, kept))
  BY <1>1, ListIsSeq, MadeIsList, PickedMembers
<1> QED
  BY <1>1 DEF StripChrome

LEMMA HeaderIsList ==
  ASSUME NEW lines, IsList(lines)
  PROVE  IsList(StripLeadingHeader(lines).rest)
  BY PickedMembers DEF StripLeadingHeader
-----------------------------------------------------------------------------
(* The ads of the review list: each has a list of lines.                   *)
LEMMA ReviewedAds ==
  ASSUME NEW found, NEW above, NEW parsed, IsList(parsed),
         \A i \in 1 .. Len(parsed) : IsList(parsed[i].raw),
         NEW skipped, NEW competitor, NEW aliases
  PROVE  LET all == ReviewParts(found, above, parsed, skipped, competitor, aliases).candidates
         IN  IsList(all) /\ \A k \in 1 .. Len(all) : IsList(all[k].parsed.raw)
<1> DEFINE D == DOMAIN parsed
           places == [i \in D |-> i]
           kept == Picked(places, IF skipped = D THEN skipped ELSE D \ skipped)
           ads == [k \in DOMAIN kept |-> parsed[kept[k]]]
<1>1. D = 1 .. Len(parsed) /\ Len(parsed) \in Nat
  BY ListIsSeq
<1>2. IsList(places) /\ Len(places) = Len(parsed)
  BY <1>1, MadeIsList
<1>3. Members(places) = D
  BY <1>1, <1>2 DEF Members
<1>4. IsList(kept) /\ Members(kept) \subseteq D
  BY <1>2, <1>3, PickedWithin
<1>5. DOMAIN kept = 1 .. Len(kept) /\ Len(kept) \in Nat
  BY <1>4, ListIsSeq
<1>6. \A k \in 1 .. Len(kept) : kept[k] \in D
  BY <1>4 DEF Members
<1> HIDE DEF kept, D
<1>7. \A k \in 1 .. Len(kept) : IsList(ads[k].raw)
  BY <1>1, <1>5, <1>6
<1>8. DOMAIN ads = 1 .. Len(kept)
  BY <1>5
<1> HIDE DEF ads
<1>9. ASSUME NEW names, NEW at
      PROVE  LET all == Candidates(ads, names, at, competitor, aliases)
             IN  IsList(all) /\ \A k \in 1 .. Len(all) : IsList(all[k].parsed.raw)
  <2> DEFINE all == Candidates(ads, names, at, competitor, aliases)
  <2>1. /\ all = [k \in 1 .. Len(kept) |-> all[k]]
        /\ \A k \in 1 .. Len(kept) : all[k].parsed = ads[k]
    BY <1>8 DEF Candidates
  <2> HIDE DEF all
  <2>2. IsList(all) /\ Len(all) = Len(kept)
    BY <2>1, <1>5, MadeIsList
  <2>3. \A k \in 1 .. Len(all) : IsList(all[k].parsed.raw)
    BY <2>1, <2>2, <1>7
  <2> QED
    BY <2>2, <2>3 DEF all
<1> QED
  BY <1>9 DEF ReviewParts, ads, kept, D

LEMMA ParsedRaw ==
  ASSUME NEW text
  PROVE  ParseAd(text).raw = text
  BY DEF ParseAd

LEMMA ProcessedAds ==
  ASSUME NEW lines, IsList(lines), NEW competitor, NEW aliases
  PROVE  LET all == ProcessPageDump(lines, competitor, aliases).candidates
         IN  IsList(all) /\ \A k \in 1 .. Len(all) : IsList(all[k].parsed.raw)
<1> DEFINE opened == StripLeadingHeader(lines)
           found == DetectBoundaries(StripChrome(opened.rest, competitor))
           parsed == [i \in DOMAIN found.parts |-> ParseAd(Unmarked(found.parts[i]))]
<1>1. AreLists(found.parts)
  BY HeaderIsList, ChromeIsList, BoundariesAreLists
<1>2. DOMAIN found.parts = 1 .. Len(found.parts) /\ Len(found.parts) \in Nat
  BY <1>1, ListIsSeq DEF AreLists
<1>3. \A i \in 1 .. Len(found.parts) : IsList(Unmarked(found.parts[i]))
  <2>1. TAKE i \in 1 .. Len(found.parts)
  <2>2. IsList(found.parts[i])
    BY <1>1 DEF AreLists, Members
  <2> QED
    BY <2>2, PickedWithin, TrimmedIsList DEF Unmarked
<1> HIDE DEF found
<1>4. /\ parsed = [i \in 1 .. Len(found.parts) |-> parsed[i]]
      /\ \A i \in 1 .. Len(found.parts) : IsList(parsed[i].raw)
  BY <1>2, <1>3, ParsedRaw
<1>5. IsList(parsed) /\ Len(parsed) = Len(found.parts)
  BY <1>2, <1>4, MadeIsList
<1>6. \A i \in 1 .. Len(parsed) : IsList(parsed[i].raw)
  BY <1>4, <1>5
<1> HIDE DEF parsed
<1>7. LET all == ReviewParts(found, opened.name, parsed, SkippedParts(parsed), competitor,
                             aliases).candidates
      IN  IsList(all) /\ \A k \in 1 .. Len(all) : IsList(all[k].parsed.raw)
  BY <1>5, <1>6, ReviewedAds
<1> QED
  BY <1>7 DEF ProcessPageDump, found, parsed

LEMMA BulkAds ==
  ASSUME NEW lines, IsList(lines)
  PROVE  /\ IsList(ParseBulk(lines))
         /\ \A k \in 1 .. Len(ParseBulk(lines)) : IsList(ParseBulk(lines)[k].raw)
<1> DEFINE parts == SplitAdBlocks(lines)
           all == ParseBulk(lines)
<1>1. AreLists(parts)
  BY SplitAreLists
<1>2. Len(parts) \in Nat /\ \A i \in 1 .. Len(parts) : IsList(parts[i])
  BY <1>1, ListIsSeq DEF AreLists, Members
<1>3. all = [i \in 1 .. Len(parts) |-> all[i]] /\ \A i \in 1 .. Len(parts) : IsList(all[i].raw)
  BY <1>2, ParsedRaw DEF ParseBulk
<1> HIDE DEF parts, all
<1>4. IsList(all) /\ Len(all) = Len(parts)
  BY <1>2, <1>3, MadeIsList
<1>5. \A k \in 1 .. Len(all) : IsList(all[k].raw)
  BY <1>3, <1>4
<1> QED
  BY <1>4, <1>5 DEF all

-----------------------------------------------------------------------------
(* What is sent: every text is of an ad of its own and says no more.       *)
Says(mode, ad) == Themes(IF mode = "manual" THEN Kept(ad) ELSE ad)

TextsSound(texts, ads, mode) ==
    /\ IsList(texts)
    /\ \E of \in [1 .. Len(texts) -> ads] :
          /\ \A i, j \in 1 .. Len(texts) : i # j => of[i] # of[j]
          /\ \A i \in 1 .. Len(texts) : Themes(texts[i]) \subseteq Says(mode, of[i])

LEMMA ThemesWithin ==
  ASSUME NEW a, NEW b, Members(a) \subseteq Members(b)
  PROVE  Themes(a) \subseteq Themes(b)
<1>1. SUFFICES ASSUME NEW i \in 1 .. Len(a), Themed(a[i]), NEW l \in a[i].says PROVE l \in Themes(b)
  BY DEF Themes
<1>2. PICK j \in 1 .. Len(b) : b[j] = a[i]
  BY DEF Members
<1> QED
  BY <1>1, <1>2 DEF Themes

LEMMA SentThemes ==
  ASSUME NEW raw, IsList(raw), NEW parsed, parsed.raw = raw
  PROVE  Themes(TextForAnalysis(parsed)) \subseteq Says("manual", raw)
<1>1. IsList(Kept(raw))
  BY PickedWithin DEF Kept
<1>2. Members(Trimmed(Kept(raw))) \subseteq Members(Kept(raw))
  BY <1>1, TrimmedIsList
<1> QED
  BY <1>2, ThemesWithin DEF TextForAnalysis, Says

LEMMA ActiveTextsSound ==
  ASSUME NEW blocks, IsList(blocks), \A i \in 1 .. Len(blocks) : IsList(blocks[i].parsed.raw)
  PROVE  TextsSound(ActiveTexts(blocks),
                    {blocks[i].parsed.raw : i \in {j \in 1 .. Len(blocks) : Included(blocks[j])}},
                    "manual")
<1> DEFINE active == {i \in 1 .. Len(blocks) : blocks[i].parsed.raw # <<>> /\ Included(blocks[i])}
           first(i) == \A j \in active :
                          j < i => ~SameText(blocks[j].parsed.raw, blocks[i].parsed.raw)
           places == {i \in active : first(i)}
           sent == Picked(blocks, places)
           texts == [k \in 1 .. Len(sent) |-> TextForAnalysis(sent[k].parsed)]
           ads == {blocks[i].parsed.raw : i \in {j \in 1 .. Len(blocks) : Included(blocks[j])}}
           of == [k \in 1 .. Len(sent) |-> sent[k].parsed.raw]
<1>1. ActiveTexts(blocks) = texts
  BY DEF ActiveTexts
<1>2. PICK at : HowPicked(blocks, places, Len(blocks), sent, at)
  BY PickedProperties
<1>3. IsList(sent) /\ Len(sent) \in Nat
  BY PickedProperties, ListIsSeq
<1>4. ASSUME NEW k \in 1 .. Len(sent)
      PROVE  /\ at[k] \in places /\ at[k] \in 1 .. Len(blocks) /\ of[k] = blocks[at[k]].parsed.raw
             /\ sent[k] = blocks[at[k]]
  BY <1>2 DEF HowPicked
<1>5. Len(blocks) \in Nat
  BY ListIsSeq
<1>6. ASSUME NEW i \in 1 .. Len(sent), NEW j \in 1 .. Len(sent), i < j PROVE of[i] # of[j]
  <2>1. at[i] < at[j]
    BY <1>2, <1>6 DEF HowPicked
  <2>2. at[i] \in active /\ first(at[j])
    BY <1>4
  <2>3. blocks[at[i]].parsed.raw # blocks[at[j]].parsed.raw
    BY <2>1, <2>2 DEF SameText
  <2> QED
    BY <2>3, <1>4
<1>7. \A k \in 1 .. Len(sent) : of[k] \in ads
  BY <1>4
<1>8. \A k \in 1 .. Len(sent) : Themes(texts[k]) \subseteq Says("manual", of[k])
  <2>1. TAKE k \in 1 .. Len(sent)
  <2>2. IsList(of[k]) /\ sent[k].parsed.raw = of[k] /\ texts[k] = TextForAnalysis(sent[k].parsed)
    BY <1>4
  <2> QED
    BY <2>2, SentThemes
<1>9. of \in [1 .. Len(sent) -> ads]
  BY <1>7
<1>10. texts = [k \in 1 .. Len(sent) |-> texts[k]]
  OBVIOUS
<1> HIDE DEF sent, texts, of, ads
<1>11. IsList(texts) /\ Len(texts) = Len(sent)
  BY <1>3, <1>10, MadeIsList
<1>12. \A i, j \in 1 .. Len(sent) : i # j => of[i] # of[j]
  <2>1. TAKE i, j \in 1 .. Len(sent)
  <2>2. i # j => i < j \/ j < i
    BY <1>3
  <2> QED
    BY <2>2, <1>6
<1>13. TextsSound(texts, ads, "manual")
  BY <1>8, <1>9, <1>11, <1>12 DEF TextsSound
<1> QED
  BY <1>1, <1>13 DEF ads

LEMMA DistinctSound ==
  ASSUME NEW texts, IsList(texts), NEW ads, Members(texts) \subseteq ads, NEW mode, mode # "manual"
  PROVE  TextsSound(Distinct(texts), ads, mode)
<1> DEFINE places == {i \in 1 .. Len(texts) : texts[i] # <<>> /\ ~IsRepeat(texts, i)}
           sent == Distinct(texts)
<1>1. PICK at : HowPicked(texts, places, Len(texts), sent, at)
  BY PickedProperties DEF Distinct
<1>2. IsList(sent) /\ Len(sent) \in Nat /\ DOMAIN sent = 1 .. Len(sent) /\ sent \in Seq(Members(texts))
  BY PickedProperties, ListIsSeq DEF Distinct
<1>3. Len(texts) \in Nat
  BY ListIsSeq
<1>4. ASSUME NEW i \in 1 .. Len(sent), NEW j \in 1 .. Len(sent), i < j PROVE sent[i] # sent[j]
  <2>1. /\ at[i] < at[j] /\ at[i] \in 1 .. Len(texts) /\ at[j] \in 1 .. Len(texts)
        /\ at[j] \in places /\ sent[i] = texts[at[i]] /\ sent[j] = texts[at[j]]
    BY <1>1, <1>4 DEF HowPicked
  <2>2. at[i] \in 1 .. at[j] - 1
    BY <2>1, <1>3
  <2>3. texts[at[i]] # texts[at[j]]
    BY <2>1, <2>2 DEF IsRepeat, SameText
  <2> QED
    BY <2>1, <2>3
<1>5. \A i, j \in 1 .. Len(sent) : i # j => sent[i] # sent[j]
  <2>1. TAKE i, j \in 1 .. Len(sent)
  <2>2. i # j => i < j \/ j < i
    BY <1>2
  <2> QED
    BY <2>2, <1>4
<1>6. sent \in [1 .. Len(sent) -> ads]
  BY <1>2
<1> HIDE DEF sent
<1>7. TextsSound(sent, ads, mode)
  BY <1>2, <1>5, <1>6 DEF TextsSound, Says
<1> QED
  BY <1>7 DEF sent

\* Leaving texts out leaves the rest sound: the route's own trimming.
LEMMA AnalysedSound ==
  ASSUME NEW texts, NEW ads, NEW mode, TextsSound(texts, ads, mode)
  PROVE  TextsSound(Analysed(texts), ads, mode)
<1>1. ASSUME NEW list, NEW places, TextsSound(list, ads, mode)
      PROVE  TextsSound(Picked(list, places), ads, mode)
  <2> DEFINE sent == Picked(list, places)
  <2>1. PICK at : HowPicked(list, places, Len(list), sent, at)
    BY <1>1, PickedProperties DEF TextsSound
  <2>2. IsList(sent) /\ Len(sent) \in Nat
    BY <1>1, PickedProperties, ListIsSeq DEF TextsSound
  <2>3. PICK of \in [1 .. Len(list) -> ads] :
          /\ \A i, j \in 1 .. Len(list) : i # j => of[i] # of[j]
          /\ \A i \in 1 .. Len(list) : Themes(list[i]) \subseteq Says(mode, of[i])
    BY <1>1 DEF TextsSound
  <2> DEFINE from == [k \in 1 .. Len(sent) |-> of[at[k]]]
  <2> HIDE DEF sent
  <2>4. \A k \in 1 .. Len(sent) : at[k] \in 1 .. Len(list) /\ sent[k] = list[at[k]]
    BY <2>1 DEF HowPicked
  <2>5. Len(list) \in Nat
    BY <1>1, ListIsSeq DEF TextsSound
  <2>6. \A i, j \in 1 .. Len(sent) : i # j => at[i] # at[j]
    <3>1. TAKE i, j \in 1 .. Len(sent)
    <3>2. i # j => i < j \/ j < i
      BY <2>2
    <3>3. at[i] \in Nat /\ at[j] \in Nat
      BY <2>4, <2>5
    <3> QED
      BY <2>1, <3>2, <3>3 DEF HowPicked
  <2>7. from \in [1 .. Len(sent) -> ads]
    BY <2>3, <2>4
  <2>8. \A i, j \in 1 .. Len(sent) : i # j => from[i] # from[j]
    BY <2>3, <2>4, <2>6
  <2>9. \A i \in 1 .. Len(sent) : Themes(sent[i]) \subseteq Says(mode, from[i])
    BY <2>3, <2>4
  <2> HIDE DEF from
  <2>10. TextsSound(sent, ads, mode)
    BY <2>2, <2>7, <2>8, <2>9 DEF TextsSound
  <2> QED
    BY <2>10 DEF sent
<1> QED
  BY <1>1 DEF Analysed, NonBlank
-----------------------------------------------------------------------------
(* What the debrief makes of them.                                         *)
LEMMA TablesAreLists ==
  /\ \A s \in DOMAIN Sections : IsList(Sections[s])
  /\ \A c \in DOMAIN Tables : IsList(Tables[c])
<1>1. ASSUME NEW a, NEW b, NEW c
      PROVE  IsList(<<a>>) /\ IsList(<<a, b>>) /\ IsList(<<a, b, c>>)
  <2>1. <<a>> \in Seq({a})
    OBVIOUS
  <2>2. <<a, b>> \in Seq({a, b})
    OBVIOUS
  <2>3. <<a, b, c>> \in Seq({a, b, c})
    OBVIOUS
  <2> QED
    BY <2>1, <2>2, <2>3, SeqIsList
<1>2. /\ DOMAIN Sections = {"dominantNarrative", "problemFraming", "enemyOrAlternative",
                            "desiredOutcome", "proofStrategy", "offerCtaStrategy",
                            "creativeStructure"}
      /\ IsList(Sections.dominantNarrative) /\ IsList(Sections.problemFraming)
      /\ IsList(Sections.enemyOrAlternative) /\ IsList(Sections.desiredOutcome)
      /\ IsList(Sections.proofStrategy) /\ IsList(Sections.offerCtaStrategy)
      /\ IsList(Sections.creativeStructure)
  BY <1>1 DEF Sections
<1>3. /\ DOMAIN Tables = {"hooks", "formats", "offers", "positioning", "trust", "benefits"}
      /\ IsList(Tables.hooks) /\ IsList(Tables.formats) /\ IsList(Tables.offers)
      /\ IsList(Tables.positioning) /\ IsList(Tables.trust) /\ IsList(Tables.benefits)
  BY <1>1 DEF Tables
<1> QED
  BY <1>2, <1>3

LEMMA LabelsAreThemes ==
  ASSUME NEW text, NEW s \in DOMAIN Sections
  PROVE  IsList(LabelsOf(text, s)) /\ Members(LabelsOf(text, s)) \subseteq Themes(text)
<1> DEFINE found == Among(Sections[s], Themes(text))
<1>1. IsList(found) /\ Members(found) \subseteq Themes(text)
  BY TablesAreLists, AmongMembers
<1>2. \A labels : IsList(Among(found, labels)) /\ Members(Among(found, labels)) \subseteq Themes(text)
  BY <1>1, AmongMembers
<1> QED
  BY <1>1, <1>2 DEF LabelsOf

LEMMA TwoOfThem ==
  ASSUME NEW S, NEW n \in Nat, S \subseteq 1 .. n, Cardinality(S) >= 2
  PROVE  \E i, j \in S : i # j
<1>1. IsFiniteSet(1 .. n)
  BY FS_Interval
<1>2. SUFFICES ASSUME \A i, j \in S : i = j PROVE FALSE
  OBVIOUS
<1>3. CASE S = {}
  BY <1>3, FS_EmptySet
<1>4. CASE S # {}
  <2>1. PICK x \in S : TRUE
    BY <1>4
  <2>2. S = {x}
    BY <1>2, <2>1
  <2> QED
    BY <2>2, FS_Singleton, Cardinality({x}) = 1
<1> QED
  BY <1>3, <1>4

LEMMA RecurringInTwo ==
  ASSUME NEW texts, IsList(texts), NEW s \in DOMAIN Sections
  PROVE  /\ IsList(Recurring(texts, s))
         /\ \A l \in Members(Recurring(texts, s)) :
               \E i, j \in 1 .. Len(texts) : i # j /\ l \in Themes(texts[i]) /\ l \in Themes(texts[j])
<1> DEFINE n == Len(texts)
           lists == [i \in 1 .. n |-> LabelsOf(texts[i], s)]
           order == Firsts(Joined(lists))
           ads(l) == {i \in 1 .. n : l \in ToSet(LabelsOf(texts[i], s))}
           often == {l \in ToSet(order) : Cardinality(ads(l)) >= 2}
<1>1. n \in Nat
  BY ListIsSeq
<1>2. lists = [i \in 1 .. n |-> lists[i]] /\ \A i \in 1 .. n : IsList(lists[i])
  BY LabelsAreThemes
<1>3. IsList(lists) /\ Len(lists) = n
  <2> HIDE DEF lists
  <2> QED
    BY <1>1, <1>2, MadeIsList
<1>4. IsList(Joined(lists))
  <2> HIDE DEF lists
  <2> QED
    BY <1>2, <1>3, JoinedIsList
<1>5. IsList(order)
  BY <1>4, FirstsMembers
<1> HIDE DEF order
<1>6. IsList(Among(order, often)) /\ Members(Among(order, often)) \subseteq often
  BY <1>5, AmongMembers
<1>7. ASSUME NEW l \in often
      PROVE  \E i, j \in 1 .. n : i # j /\ l \in Themes(texts[i]) /\ l \in Themes(texts[j])
  <2>1. Cardinality(ads(l)) >= 2 /\ ads(l) \subseteq 1 .. n
    OBVIOUS
  <2>2. PICK i, j \in ads(l) : i # j
    <3> HIDE DEF ads
    <3> QED
      BY <2>1, <1>1, TwoOfThem
  <2>3. \A k \in ads(l) : l \in Themes(texts[k])
    BY LabelsAreThemes, MembersOf
  <2> QED
    BY <2>2, <2>3
<1>8. Recurring(texts, s) = Among(order, often)
  BY DEF Recurring, order
<1> QED
  BY <1>6, <1>7, <1>8

LEMMA PatternsInTwo ==
  ASSUME NEW texts, NEW ads, NEW mode, TextsSound(texts, ads, mode)
  PROVE  /\ DOMAIN Patterns(texts) = DOMAIN Sections
         /\ \A s \in DOMAIN Sections :
               /\ IsList(Patterns(texts)[s])
               /\ \A l \in ToSet(Patterns(texts)[s]) :
                     \E a, b \in ads : /\ a # b
                                       /\ l \in Says(mode, a) /\ l \in Says(mode, b)
<1>1. DOMAIN Patterns(texts) = DOMAIN Sections
  BY DEF Patterns
<1> SUFFICES ASSUME NEW s \in DOMAIN Sections
             PROVE  /\ IsList(Patterns(texts)[s])
                    /\ \A l \in ToSet(Patterns(texts)[s]) :
                          \E a, b \in ads : a # b /\ l \in Says(mode, a) /\ l \in Says(mode, b)
  BY <1>1
<1>2. CASE Patterns(texts)[s] = <<>>
  <2>1. IsList(<<>>)
    BY EmptySeq, SeqIsList
  <2>2. ToSet(<<>>) = {}
    BY DEF ToSet
  <2> QED
    BY <1>2, <2>1, <2>2
<1>3. CASE Patterns(texts)[s] = Recurring(texts, s)
  <2>1. IsList(texts)
    BY DEF TextsSound
  <2>2. PICK of \in [1 .. Len(texts) -> ads] :
          /\ \A i, j \in 1 .. Len(texts) : i # j => of[i] # of[j]
          /\ \A i \in 1 .. Len(texts) : Themes(texts[i]) \subseteq Says(mode, of[i])
    BY DEF TextsSound
  <2>3. IsList(Recurring(texts, s))
    BY <2>1, RecurringInTwo
  <2>4. ASSUME NEW l \in ToSet(Recurring(texts, s))
        PROVE  \E a, b \in ads : a # b /\ l \in Says(mode, a) /\ l \in Says(mode, b)
    <3>1. l \in Members(Recurring(texts, s))
      BY <2>3, MembersOf
    <3>2. PICK i, j \in 1 .. Len(texts) : i # j /\ l \in Themes(texts[i]) /\ l \in Themes(texts[j])
      BY <2>1, <3>1, RecurringInTwo
    <3>3. of[i] \in ads /\ of[j] \in ads /\ of[i] # of[j]
      BY <2>2, <3>2
    <3> QED
      BY <2>2, <3>2, <3>3
  <2> QED
    BY <1>3, <2>3, <2>4
<1> QED
  BY <1>2, <1>3 DEF Patterns

LEMMA AlternativeIsClear ==
  ASSUME NEW angles, IsList(angles), NEW flags, NEW used, Alternative(angles, flags, used) # Unobserved
  PROVE  /\ Alternative(angles, flags, used) \in ToSet(angles)
         /\ \A f \in ToSet(flags) : ~Touches(f, Alternative(angles, flags, used))
<1> DEFINE clear == {a \in ToSet(angles) : /\ ~Overlap(Words(a), Words(used))
                                           /\ \A f \in ToSet(flags) : ~Touches(f, a)}
           list == Among(angles, clear)
<1>1. IsList(list) /\ Members(list) \subseteq clear
  BY AmongMembers
<1>2. list # <<>> /\ Alternative(angles, flags, used) = list[1]
  BY DEF Alternative, First
<1>3. Len(list) \in Nat /\ list \in Seq(Members(list))
  BY <1>1, ListIsSeq
<1>4. 1 \in 1 .. Len(list)
  <2> HIDE DEF list
  <2> QED
    BY <1>2, <1>3
<1>5. list[1] \in clear
  BY <1>1, <1>4 DEF Members
<1> QED
  BY <1>2, <1>5

Clear(test, angles, learnings) ==
    LET new == IF test.changed = "hook" THEN test.hook ELSE test.offer
    IN  test.changed = "none" \/ new = Unobserved
        \/ /\ new \in ToSet(angles)
           /\ \A k \in 1 .. Len(learnings) : Flags(learnings[k]) => ~Touches(learnings[k], new)

LEMMA AdjustedIsClear ==
  ASSUME NEW test, NEW learnings, IsList(learnings), NEW angles, IsList(angles)
  PROVE  Clear(AdjustTest(test, ParseLearnings(learnings), angles), angles, learnings)
<1> DEFINE parsed == ParseLearnings(learnings)
           flags == Among(parsed, {l \in ToSet(parsed) : Flags(l)})
           new == AdjustTest(test, parsed, angles)
<1>1. IsList(parsed) /\ Members(parsed) = Members(learnings)
  BY FirstsMembers DEF ParseLearnings
<1>2. IsList(flags) /\ Members(flags) = {l \in Members(learnings) : Flags(l)}
  BY <1>1, MembersOf, AmongMembers
<1>3. \A k \in 1 .. Len(learnings) : Flags(learnings[k]) => learnings[k] \in ToSet(flags)
  BY <1>2, MembersOf DEF Members
<1>4. ASSUME NEW used, NEW to, to = Alternative(angles, flags, used)
      PROVE  \/ to = Unobserved
             \/ /\ to \in ToSet(angles)
                /\ \A k \in 1 .. Len(learnings) : Flags(learnings[k]) => ~Touches(learnings[k], to)
  BY <1>3, <1>4, AlternativeIsClear
<1>5. \/ new.changed = "none"
      \/ new.changed = "hook" /\ new.hook = Alternative(angles, flags, test.hook)
      \/ new.changed = "offer" /\ new.offer = Alternative(angles, flags, test.offer)
  BY DEF AdjustTest, Noted
<1> HIDE DEF new, flags
<1>6. Clear(new, angles, learnings)
  BY <1>4, <1>5 DEF Clear
<1> QED
  BY <1>6 DEF new

\* What the debrief has to answer for, whatever was asked.
LEMMA DebriefSound ==
  ASSUME NEW says, NEW texts, NEW ads, NEW mode, TextsSound(texts, ads, mode),
         NEW learnings, IsList(learnings)
  PROVE  LET brief == Debrief(says, texts, learnings)
         IN  /\ \A s \in DOMAIN Sections : \A l \in ToSet(brief.patterns[s]) :
                   \E a, b \in ads : a # b /\ l \in Says(mode, a) /\ l \in Says(mode, b)
             /\ \A i \in DOMAIN brief.tests :
                   Clear(brief.tests[i], Angles(brief.evidence, brief.patterns), learnings)
<1> DEFINE brief == Debrief(says, texts, learnings)
           e == Evidence(says)
           p == Patterns(texts)
<1>1. CASE Insufficient(says)
  <2>1. brief.tests = <<>> /\ brief.patterns = [s \in DOMAIN Sections |-> <<>>]
    BY <1>1 DEF Debrief
  <2>2. DOMAIN <<>> = {} /\ ToSet(<<>>) = {}
    BY DEF ToSet
  <2>3. \A s \in DOMAIN Sections : ToSet(brief.patterns[s]) = {}
    BY <2>1, <2>2
  <2> QED
    BY <2>1, <2>2, <2>3
<1>2. CASE ~Insufficient(says)
  <2>1. brief.patterns = p /\ brief.evidence = e
    BY <1>2 DEF Debrief
  <2>2. \E shown : brief.tests = Adjusted(shown, ParseLearnings(learnings), Angles(e, p))
    BY <1>2 DEF Debrief
  <2>3. /\ {"dominantNarrative", "proofStrategy", "creativeStructure"} \subseteq DOMAIN Sections
        /\ "positioning" \in DOMAIN Tables
    BY DEF Sections, Tables
  <2>4. IsList(p.dominantNarrative) /\ IsList(p.proofStrategy) /\ IsList(p.creativeStructure)
    BY <2>3, PatternsInTwo
  <2>5. IsList(e.positioning)
    BY <2>3, TablesAreLists, AmongMembers DEF Evidence
  <2>6. IsList(Angles(e, p))
    BY <2>4, <2>5, ConcatIsList DEF Angles
  <2>7. \A i \in DOMAIN brief.tests : Clear(brief.tests[i], Angles(e, p), learnings)
    BY <2>2, <2>6, AdjustedIsClear DEF Adjusted
  <2>8. \A s \in DOMAIN Sections : \A l \in ToSet(p[s]) :
            \E a, b \in ads : a # b /\ l \in Says(mode, a) /\ l \in Says(mode, b)
    BY PatternsInTwo
  <2> HIDE DEF brief, e, p
  <2> QED
    BY <2>1, <2>7, <2>8 DEF brief
<1> QED
  BY <1>1, <1>2
-----------------------------------------------------------------------------
(* The invariant.                                                          *)
BlockKeys == {"by", "parsed", "page", "included", "variants"}
AreBlocks(blocks) ==
    /\ IsList(blocks)
    /\ \A i \in 1 .. Len(blocks) : DOMAIN blocks[i] = BlockKeys /\ IsList(blocks[i].parsed.raw)

\* The review list is one of ads with lists of lines.
BlocksSound == DOMAIN review = {"blocks", "processed"} /\ AreBlocks(Blocks)

\* What is found is the library's.
FinderSound ==
    /\ DOMAIN finder = {"query", "pages", "selected", "ads", "after"}
    /\ finder.pages # Null => ToSet(finder.pages) \subseteq DOMAIN AdsOf
    /\ finder.selected # Null => finder.selected \in DOMAIN AdsOf
    /\ finder.ads = Null \/ finder.ads \in Seq(ListedAds)

\* What is asked is of the library's pages, or sound.
WireSound ==
    /\ DOMAIN wire = Calls
    /\ \A c \in {"ads", "more"} : wire[c] # Null => wire[c].page \in DOMAIN AdsOf
    /\ wire["generate"] # Null =>
           TextsSound(wire["generate"].texts, wire["generate"].ads, wire["generate"].mode)

\* An ad is on the list once, and what was unchecked is on it, unchecked.
OnceEach(list) == \A i, j \in 1 .. Len(list) : list[i].ad.id = list[j].ad.id => i = j
ListSound ==
    /\ OnceEach(List)
    /\ \A i \in 1 .. Len(List) : List[i].ad.id \in declined => ~List[i].included
    /\ \A id \in declined : \E i \in 1 .. Len(List) : List[i].ad.id = id

IInv ==
    /\ visit \in Visits
    /\ BlocksSound /\ FinderSound /\ WireSound /\ ListSound
    /\ RecurringNeedsTwo /\ SubstituteIsClear

LEMMA NoneAtAll == IsList(<<>>) /\ Len(<<>>) = 0
  BY EmptySeq, SeqIsList

LEMMA InitSound == Init => IInv
<1> SUFFICES ASSUME Init PROVE IInv
  OBVIOUS
<1>1. BlocksSound
  BY NoneAtAll DEF Init, EmptyReview, BlocksSound, AreBlocks, Blocks
<1>2. FinderSound
  BY DEF Init, EmptyFinder, FinderSound
<1>3. WireSound
  BY DEF Init, WireSound, Calls
<1>4. ListSound
  BY NoneAtAll DEF Init, EmptyFinder, ListSound, List, OnceEach
<1> QED
  BY <1>1, <1>2, <1>3, <1>4 DEF Init, IInv, RecurringNeedsTwo, SubstituteIsClear

-----------------------------------------------------------------------------
(* The review list.                                                        *)
LEMMA MadeBlocks ==
  ASSUME NEW n \in Nat, NEW blocks, blocks = [i \in 1 .. n |-> blocks[i]],
         \A i \in 1 .. n : DOMAIN blocks[i] = BlockKeys /\ IsList(blocks[i].parsed.raw)
  PROVE  AreBlocks(blocks)
  BY MadeIsList DEF AreBlocks

LEMMA ShownBlocks ==
  ASSUME NEW blocks, AreBlocks(blocks)
  PROVE  AreBlocks(IF blocks = Null THEN <<>> ELSE blocks)
  BY NoneAtAll DEF AreBlocks

LEMMA ReviewSteps ==
  ASSUME IInv,
         \/ ParseAds \/ ExtractAds \/ EditRawDump \/ AddBlock
         \/ \E i \in 1 .. Len(Blocks) : UpdateBlock(i) \/ RemoveBlock(i) \/ ToggleBlock(i)
  PROVE  BlocksSound'
<1>1. AreBlocks(Blocks) /\ DOMAIN review = {"blocks", "processed"}
  BY DEF IInv, BlocksSound
<1>2. visit \in Visits
  BY DEF IInv
<1>3. ASSUME NEW blocks, AreBlocks(blocks), DOMAIN review' = {"blocks", "processed"},
             review'.blocks = blocks
      PROVE  BlocksSound'
  BY <1>3, ShownBlocks DEF BlocksSound, Blocks
<1>4. CASE ParseAds
  <2> DEFINE parsed == ParseBulk(visit.paste)
             blocks == [i \in 1 .. Len(parsed) |-> PastedBlock(parsed[i])]
  <2>1. IsList(parsed) /\ \A k \in 1 .. Len(parsed) : IsList(parsed[k].raw)
    BY <1>2, VisitAssumption, BulkAds
  <2>2. Len(parsed) \in Nat
    BY <2>1, ListIsSeq
  <2>3. /\ blocks = [i \in 1 .. Len(parsed) |-> blocks[i]]
        /\ \A i \in 1 .. Len(parsed) : DOMAIN blocks[i] = BlockKeys /\ IsList(blocks[i].parsed.raw)
    BY <2>1 DEF PastedBlock, BlockKeys
  <2>4. review' = [review EXCEPT !.blocks = blocks]
    BY <1>4 DEF ParseAds
  <2> HIDE DEF blocks
  <2>5. AreBlocks(blocks)
    BY <2>2, <2>3, MadeBlocks
  <2> QED
    BY <1>1, <1>3, <2>4, <2>5
<1>5. CASE ExtractAds
  <2> DEFINE found == ProcessPageDump(visit.dump, Known(form.name), form.aliases).candidates
             blocks == [i \in DOMAIN found |-> DumpBlock(found[i])]
  <2>1. IsList(found) /\ \A k \in 1 .. Len(found) : IsList(found[k].parsed.raw)
    BY <1>2, VisitAssumption, ProcessedAds
  <2>2. Len(found) \in Nat /\ DOMAIN found = 1 .. Len(found)
    BY <2>1, ListIsSeq
  <2>3. /\ blocks = [i \in 1 .. Len(found) |-> blocks[i]]
        /\ \A i \in 1 .. Len(found) : DOMAIN blocks[i] = BlockKeys /\ IsList(blocks[i].parsed.raw)
    BY <2>1, <2>2 DEF DumpBlock, BlockKeys
  <2>4. review' = [blocks |-> blocks, processed |-> TRUE]
    BY <1>5 DEF ExtractAds
  <2> HIDE DEF blocks, found
  <2>5. AreBlocks(blocks)
    BY <2>2, <2>3, MadeBlocks
  <2> QED
    BY <1>3, <2>4, <2>5
<1>6. CASE EditRawDump
  BY <1>1, <1>6 DEF EditRawDump, BlocksSound, Blocks
<1>7. CASE AddBlock
  <2> DEFINE b == PastedBlock(ParseAd(<<>>))
             blocks == Append(Blocks, b)
  <2>1. DOMAIN b = BlockKeys /\ IsList(b.parsed.raw)
    BY NoneAtAll, ParsedRaw DEF PastedBlock, BlockKeys
  <2>2. Len(Blocks) \in Nat /\ Blocks \in Seq(Members(Blocks))
    BY <1>1, ListIsSeq DEF AreBlocks
  <2> HIDE DEF b
  <2>3. /\ blocks \in Seq(Members(Blocks) \cup {b}) /\ Len(blocks) = Len(Blocks) + 1
        /\ blocks[Len(Blocks) + 1] = b /\ \A i \in 1 .. Len(Blocks) : blocks[i] = Blocks[i]
    <3>1. Blocks \in Seq(Members(Blocks) \cup {b})
      BY <2>2
    <3> QED
      BY <3>1, AppendProperties
  <2>4. \A i \in 1 .. Len(Blocks) + 1 : i \in 1 .. Len(Blocks) \/ i = Len(Blocks) + 1
    BY <2>2
  <2>5. AreBlocks(blocks)
    BY <1>1, <2>1, <2>3, <2>4, SeqIsList DEF AreBlocks
  <2>6. review' = [review EXCEPT !.blocks = blocks]
    BY <1>7 DEF AddBlock, Reviewing, Blocks, b
  <2> HIDE DEF blocks
  <2> QED
    BY <1>1, <1>3, <2>5, <2>6
<1>8. ASSUME NEW i \in 1 .. Len(Blocks), RemoveBlock(i) PROVE BlocksSound'
  <2> DEFINE blocks == Picked(Blocks, (1 .. Len(Blocks)) \ {i})
  <2>1. IsList(blocks) /\ Members(blocks) \subseteq Members(Blocks)
    BY <1>1, PickedWithin DEF AreBlocks
  <2>2. \A b \in Members(Blocks) : DOMAIN b = BlockKeys /\ IsList(b.parsed.raw)
    BY <1>1 DEF AreBlocks, Members
  <2>3. review' = [review EXCEPT !.blocks = blocks]
    BY <1>8 DEF RemoveBlock, Reviewing, Blocks
  <2> HIDE DEF blocks
  <2>4. AreBlocks(blocks)
    BY <2>1, <2>2 DEF AreBlocks, Members
  <2> QED
    BY <1>1, <1>3, <2>3, <2>4
<1>9. ASSUME NEW i \in 1 .. Len(Blocks), UpdateBlock(i) \/ ToggleBlock(i) PROVE BlocksSound'
  <2>1. /\ Len(Blocks) \in Nat /\ Blocks = [k \in 1 .. Len(Blocks) |-> Blocks[k]]
        /\ DOMAIN Blocks = 1 .. Len(Blocks)
    BY <1>1, ListIsSeq DEF AreBlocks, IsList
  <2>2. Blocks = review.blocks
    BY <1>9 DEF UpdateBlock, ToggleBlock, Reviewing, Blocks
  <2>3. \E b : /\ DOMAIN b = BlockKeys /\ IsList(b.parsed.raw)
               /\ review' = [review EXCEPT !.blocks = [Blocks EXCEPT ![i] = b]]
    <3>1. CASE UpdateBlock(i)
      <4>1. PICK text \in visit.edits : review' = [review EXCEPT !.blocks[i].parsed = ParseAd(text)]
        BY <3>1 DEF UpdateBlock
      <4> DEFINE b == [Blocks[i] EXCEPT !.parsed = ParseAd(text)]
      <4>2. DOMAIN b = BlockKeys /\ b.parsed = ParseAd(text)
        BY <1>1 DEF AreBlocks, BlockKeys
      <4>3. IsList(b.parsed.raw)
        BY <1>2, <4>2, ParsedRaw, VisitAssumption
      <4>4. review' = [review EXCEPT !.blocks = [Blocks EXCEPT ![i] = b]]
        BY <4>1, <2>2
      <4> QED
        BY <4>2, <4>3, <4>4
    <3>2. CASE ToggleBlock(i)
      <4> DEFINE b == [Blocks[i] EXCEPT !.included = ~@]
      <4>1. DOMAIN b = BlockKeys /\ b.parsed = Blocks[i].parsed
        BY <1>1 DEF AreBlocks, BlockKeys
      <4>2. IsList(b.parsed.raw)
        BY <1>1, <4>1 DEF AreBlocks
      <4>3. review' = [review EXCEPT !.blocks = [Blocks EXCEPT ![i] = b]]
        BY <3>2, <2>2 DEF ToggleBlock
      <4> QED
        BY <4>1, <4>2, <4>3
    <3> QED
      BY <1>9, <3>1, <3>2
  <2>4. PICK b : /\ DOMAIN b = BlockKeys /\ IsList(b.parsed.raw)
                 /\ review' = [review EXCEPT !.blocks = [Blocks EXCEPT ![i] = b]]
    BY <2>3
  <2> DEFINE blocks == [Blocks EXCEPT ![i] = b]
             n == Len(Blocks)
  <2>5. /\ blocks = [k \in 1 .. n |-> blocks[k]]
        /\ \A k \in 1 .. n : blocks[k] = IF k = i THEN b ELSE Blocks[k]
    BY <2>1
  <2>6. review' = [review EXCEPT !.blocks = blocks]
    BY <2>4
  <2> HIDE DEF blocks
  <2>7. \A k \in 1 .. n : DOMAIN blocks[k] = BlockKeys /\ IsList(blocks[k].parsed.raw)
    BY <1>1, <2>4, <2>5 DEF AreBlocks
  <2>8. AreBlocks(blocks)
    BY <2>1, <2>5, <2>7, MadeBlocks
  <2> QED
    BY <1>1, <1>3, <2>6, <2>8
<1> QED
  BY <1>4, <1>5, <1>6, <1>7, <1>8, <1>9
-----------------------------------------------------------------------------
(* What the library answers, and the list it is merged into.               *)
LEMMA AnswerIdsDiffer ==
  ASSUME NEW all, NEW stray, IsList(all), IsList(stray), IdsDiffer(all \o stray), NEW places
  PROVE  IdsDiffer(Picked(all, places) \o stray)
<1> DEFINE some == Picked(all, places)
           data == some \o stray
           m == Len(some)
           n == Len(all)
<1>1. PICK at : HowPicked(all, places, n, some, at)
  BY PickedProperties
<1>2. IsList(some) /\ m \in Nat /\ n \in Nat /\ Len(stray) \in Nat
  BY PickedProperties, ListIsSeq
<1>3. /\ Len(data) = m + Len(stray)
      /\ \A i \in 1 .. m + Len(stray) : data[i] = IF i <= m THEN some[i] ELSE stray[i - m]
  BY <1>2, ConcatIsList
<1>4. /\ Len(all \o stray) = n + Len(stray)
      /\ \A i \in 1 .. n + Len(stray) : (all \o stray)[i] = IF i <= n THEN all[i] ELSE stray[i - n]
  BY ConcatIsList
<1> HIDE DEF some, data, m, n
<1> DEFINE place(i) == IF i <= m THEN at[i] ELSE n + i - m
<1>5. \A k \in 1 .. m : at[k] \in 1 .. n /\ some[k] = all[at[k]]
  BY <1>1 DEF HowPicked, m
<1>6. ASSUME NEW i \in 1 .. Len(data)
      PROVE  place(i) \in 1 .. n + Len(stray) /\ data[i] = (all \o stray)[place(i)]
  <2>1. CASE i <= m
    <3>1. i \in 1 .. m
      BY <2>1, <1>2, <1>3
    <3>2. at[i] \in 1 .. n /\ at[i] <= n /\ at[i] \in 1 .. n + Len(stray)
      BY <3>1, <1>2, <1>5
    <3> QED
      BY <2>1, <3>1, <3>2, <1>3, <1>4, <1>5
  <2>2. CASE ~(i <= m)
    <3>1. /\ i - m \in 1 .. Len(stray) /\ n + i - m \in 1 .. n + Len(stray)
          /\ ~(n + i - m <= n) /\ (n + i - m) - n = i - m
      BY <2>2, <1>2, <1>3
    <3> QED
      BY <2>2, <3>1, <1>3, <1>4
  <2> QED
    BY <2>1, <2>2
<1>7. ASSUME NEW i \in 1 .. Len(data), NEW j \in 1 .. Len(data), i < j
      PROVE  place(i) # place(j)
  <2>1. CASE j <= m
    <3>1. i <= m /\ i \in 1 .. m /\ j \in 1 .. m
      BY <2>1, <1>2, <1>3, <1>7
    <3>2. at[i] < at[j] /\ at[i] \in Nat /\ at[j] \in Nat
      BY <3>1, <1>1, <1>2, <1>5, <1>7 DEF HowPicked, m
    <3> QED
      BY <2>1, <3>1, <3>2
  <2>2. CASE i <= m /\ ~(j <= m)
    <3>1. i \in 1 .. m /\ n + j - m > n
      BY <2>2, <1>2, <1>3
    <3>2. at[i] \in 1 .. n
      BY <3>1, <1>5
    <3> QED
      BY <2>2, <3>1, <3>2, <1>2
  <2>3. CASE ~(i <= m) /\ ~(j <= m)
    BY <2>3, <1>2, <1>3, <1>7
  <2> QED
    BY <2>1, <2>2, <2>3, <1>2, <1>3, <1>7
<1> HIDE DEF place
<1>8. ASSUME NEW i \in 1 .. Len(data), NEW j \in 1 .. Len(data), data[i].id = data[j].id, i # j
      PROVE  FALSE
  <2>1. place(i) = place(j)
    <3>1. place(i) \in 1 .. Len(all \o stray) /\ place(j) \in 1 .. Len(all \o stray)
      BY <1>4, <1>6
    <3>2. (all \o stray)[place(i)].id = (all \o stray)[place(j)].id
      BY <1>6, <1>8
    <3> QED
      BY <3>1, <3>2 DEF IdsDiffer
  <2>2. i < j \/ j < i
    BY <1>2, <1>3, <1>8
  <2> QED
    BY <2>1, <2>2, <1>7
<1>9. IdsDiffer(data)
  BY <1>8 DEF IdsDiffer
<1> QED
  BY <1>9 DEF data, some

\* What is taken of an answer is of the library and comes once.
LEMMA AnswerSound ==
  ASSUME NEW v \in Visits, NEW stray \in v.strays, NEW p \in DOMAIN AdsOf, NEW places
  PROVE  LET own == OwnAds(Picked(AdsOf[p], places) \o stray, p)
             fetched == [i \in 1 .. Len(own) |-> [ad |-> own[i], included |-> TRUE]]
         IN  fetched \in Seq(ListedAds) /\ OnceEach(fetched)
<1> DEFINE all == AdsOf[p]
           data == Picked(all, places) \o stray
           own == OwnAds(data, p)
           fetched == [i \in 1 .. Len(own) |-> [ad |-> own[i], included |-> TRUE]]
<1>1. IsList(all) /\ IsList(stray) /\ IdsDiffer(all \o stray)
  BY LibraryAssumption DEF Delivers, IdsDiffer
<1>2. Members(all) \subseteq Ads /\ Members(stray) \subseteq Ads
  <2>1. ToSet(all) \subseteq Ads
    BY DEF Ads
  <2>2. ToSet(stray) \subseteq Ads
    <3>1. stray \in UNION {w.strays : w \in Visits}
      OBVIOUS
    <3> QED
      BY <3>1 DEF Ads
  <2> QED
    BY <2>1, <2>2, <1>1, MembersOf
<1>3. IsList(Picked(all, places)) /\ Members(Picked(all, places)) \subseteq Ads
  BY <1>1, <1>2, PickedWithin
<1>4. IsList(data) /\ Members(data) \subseteq Ads
  BY <1>1, <1>2, <1>3, ConcatIsList
<1>5. IdsDiffer(data)
  BY <1>1, AnswerIdsDiffer
<1> HIDE DEF data
<1>6. IsList(own) /\ Members(own) \subseteq Ads
  BY <1>4, PickedWithin DEF OwnAds
<1>7. IdsDiffer(own)
  BY <1>4, <1>5, PickedIdsDiffer DEF OwnAds
<1>8. Len(own) \in Nat
  BY <1>6, ListIsSeq
<1> HIDE DEF own
<1>9. \A i \in 1 .. Len(own) : [ad |-> own[i], included |-> TRUE] \in ListedAds
  BY <1>6 DEF Members, ListedAds
<1>10. fetched \in Seq(ListedAds) /\ Len(fetched) = Len(own)
  BY <1>8, <1>9, IsASeq
<1>11. \A i \in 1 .. Len(own) : fetched[i].ad = own[i]
  OBVIOUS
<1> HIDE DEF fetched
<1>12. OnceEach(fetched)
  BY <1>7, <1>10, <1>11 DEF OnceEach, IdsDiffer
<1> QED
  BY <1>10, <1>12 DEF fetched, own, data

\* What was on the list stays where it is, as it is; what is new is behind it.
LEMMA MergeSound ==
  ASSUME NEW list \in Seq(ListedAds), NEW fetched \in Seq(ListedAds),
         OnceEach(list), OnceEach(fetched)
  PROVE  LET merged == MergeFetchedAds(list, fetched)
         IN  /\ merged \in Seq(ListedAds) /\ OnceEach(merged)
             /\ \A i \in 1 .. Len(list) : i \in 1 .. Len(merged) /\ merged[i] = list[i]
             /\ \A i \in 1 .. Len(merged) :
                   i \in 1 .. Len(list) \/ \A j \in 1 .. Len(list) : list[j].ad.id # merged[i].ad.id
<1> DEFINE places == {i \in 1 .. Len(fetched) :
                        \A j \in 1 .. Len(list) : list[j].ad.id # fetched[i].ad.id}
           new == Picked(fetched, places)
           merged == list \o new
           m == Len(list)
<1>1. IsList(fetched) /\ Len(fetched) \in Nat /\ m \in Nat
  BY SeqIsList, LenProperties
<1>2. PICK at : HowPicked(fetched, places, Len(fetched), new, at)
  BY <1>1, PickedProperties
<1>3. new \in Seq(Members(fetched)) /\ Members(fetched) \subseteq ListedAds
  BY <1>1, PickedProperties, ElementOfSeq DEF Members
<1>4. \A k \in 1 .. Len(new) : /\ at[k] \in places /\ at[k] \in 1 .. Len(fetched)
                               /\ new[k] = fetched[at[k]]
  BY <1>2 DEF HowPicked
<1> HIDE DEF new
<1>5. new \in Seq(ListedAds) /\ Len(new) \in Nat
  BY <1>3, LenProperties
<1>6. /\ merged \in Seq(ListedAds) /\ Len(merged) = m + Len(new)
      /\ \A i \in 1 .. m + Len(new) : merged[i] = IF i <= m THEN list[i] ELSE new[i - m]
  BY <1>5, ConcatProperties
<1> HIDE DEF merged
<1>7. \A i \in 1 .. m : i \in 1 .. Len(merged) /\ merged[i] = list[i]
  BY <1>1, <1>5, <1>6
<1>8. ASSUME NEW i \in 1 .. Len(merged), i \notin 1 .. m
      PROVE  i - m \in 1 .. Len(new) /\ merged[i] = new[i - m]
  <2>1. i - m \in 1 .. Len(new) /\ ~(i <= m) /\ i \in 1 .. m + Len(new)
    BY <1>1, <1>5, <1>6, <1>8
  <2> QED
    BY <2>1, <1>6
<1>9. ASSUME NEW i \in 1 .. Len(merged), i \notin 1 .. m, NEW j \in 1 .. m
      PROVE  list[j].ad.id # merged[i].ad.id
  <2>1. i - m \in 1 .. Len(new) /\ merged[i] = new[i - m]
    BY <1>8, <1>9
  <2>2. at[i - m] \in places /\ new[i - m] = fetched[at[i - m]]
    BY <2>1, <1>4
  <2> QED
    BY <2>1, <2>2
<1>10. ASSUME NEW i \in 1 .. Len(merged), NEW j \in 1 .. Len(merged), i < j,
              merged[i].ad.id = merged[j].ad.id
       PROVE  FALSE
  <2>1. CASE i \in 1 .. m /\ j \in 1 .. m
    <3>1. list[i].ad.id = list[j].ad.id
      BY <2>1, <1>7, <1>10
    <3>2. i = j
      BY <2>1, <3>1 DEF OnceEach
    <3> QED
      BY <3>2, <1>1, <1>10, <2>1
  <2>2. CASE i \in 1 .. m /\ j \notin 1 .. m
    BY <2>2, <1>7, <1>9, <1>10
  <2>3. CASE i \notin 1 .. m /\ j \notin 1 .. m
    <3>1. i - m < j - m /\ i - m \in 1 .. Len(new) /\ j - m \in 1 .. Len(new)
      BY <2>3, <1>1, <1>6, <1>5, <1>8, <1>10
    <3>2. at[i - m] < at[j - m]
      BY <3>1, <1>2 DEF HowPicked
    <3>3. at[i - m] \in 1 .. Len(fetched) /\ at[j - m] \in 1 .. Len(fetched)
      BY <3>1, <1>4
    <3>4. fetched[at[i - m]].ad.id = fetched[at[j - m]].ad.id
      BY <2>3, <1>4, <1>8, <1>10
    <3>5. at[i - m] = at[j - m]
      BY <3>3, <3>4 DEF OnceEach
    <3> QED
      BY <3>2, <3>3, <3>5, <1>1
  <2>4. CASE i \notin 1 .. m /\ j \in 1 .. m
    BY <2>4, <1>1, <1>5, <1>6, <1>10
  <2> QED
    BY <2>1, <2>2, <2>3, <2>4
<1>11. OnceEach(merged)
  <2>1. \A i, j \in 1 .. Len(merged) : i = j \/ i < j \/ j < i
    BY <1>1, <1>5, <1>6
  <2> QED
    BY <2>1, <1>10 DEF OnceEach
<1> QED
  BY <1>6, <1>7, <1>9, <1>11 DEF merged, new, MergeFetchedAds

-----------------------------------------------------------------------------
(* The search mode.                                                        *)
LEMMA NoAdsSound ==
  ASSUME finder'.ads = Null, declined' = {}
  PROVE  ListSound'
  BY NoneAtAll DEF ListSound, List, OnceEach

LEMMA SameAdsSound ==
  ASSUME ListSound, finder'.ads = finder.ads, declined' = declined
  PROVE  ListSound'
  BY DEF ListSound, List, OnceEach

LEMMA ListIsOfAds ==
  ASSUME FinderSound
  PROVE  List \in Seq(ListedAds) /\ IsList(List) /\ Len(List) \in Nat
<1>1. List \in Seq(ListedAds)
  BY EmptySeq DEF FinderSound, List
<1> QED
  BY <1>1, SeqIsList, LenProperties

LEMMA AdsArriveSound ==
  ASSUME IInv, NEW call \in {"ads", "more"}, AdsArrive(call)
  PROVE  FinderSound' /\ ListSound'
<1>1. FinderSound /\ ListSound /\ WireSound /\ visit \in Visits
  BY DEF IInv
<1>2. CASE UNCHANGED <<finder, declined>>
  BY <1>1, <1>2, SameAdsSound DEF FinderSound
<1>3. ASSUME NEW overlap \in BOOLEAN, NEW stray \in visit.strays,
             LET answer == LibraryAnswer(wire[call], overlap, stray)
                 own == OwnAds(answer.data, wire[call].page)
                 fetched == [i \in 1 .. Len(own) |-> [ad |-> own[i], included |-> TRUE]]
                 list == IF call = "more" THEN List ELSE <<>>
             IN  /\ finder' = [finder EXCEPT !.ads = MergeFetchedAds(list, fetched),
                                             !.after = answer.after]
                 /\ declined' = IF call = "more" THEN declined ELSE {}
      PROVE  FinderSound' /\ ListSound'
  <2> DEFINE answer == LibraryAnswer(wire[call], overlap, stray)
             own == OwnAds(answer.data, wire[call].page)
             fetched == [i \in 1 .. Len(own) |-> [ad |-> own[i], included |-> TRUE]]
             list == IF call = "more" THEN List ELSE <<>>
             merged == MergeFetchedAds(list, fetched)
  <2>1. wire[call].page \in DOMAIN AdsOf
    BY <1>1 DEF AdsArrive, Idle, WireSound
  <2>2. \E places : answer.data = Picked(AdsOf[wire[call].page], places) \o stray
    BY DEF LibraryAnswer
  <2>3. fetched \in Seq(ListedAds) /\ OnceEach(fetched)
    BY <1>1, <2>1, <2>2, AnswerSound
  <2>4. list \in Seq(ListedAds) /\ OnceEach(list)
    BY <1>1, ListIsOfAds, EmptySeq, NoneAtAll DEF ListSound, OnceEach
  <2> HIDE DEF fetched, answer
  <2>5. finder'.ads = merged /\ \A f \in {"query", "pages", "selected"} : finder'[f] = finder[f]
    BY <1>1, <1>3 DEF FinderSound, fetched, answer
  <2>6. DOMAIN finder' = DOMAIN finder /\ declined' = IF call = "more" THEN declined ELSE {}
    BY <1>3
  <2> HIDE DEF list
  <2>7. /\ merged \in Seq(ListedAds) /\ OnceEach(merged)
        /\ \A i \in 1 .. Len(list) : i \in 1 .. Len(merged) /\ merged[i] = list[i]
        /\ \A i \in 1 .. Len(merged) :
              i \in 1 .. Len(list) \/ \A j \in 1 .. Len(list) : list[j].ad.id # merged[i].ad.id
    BY <2>3, <2>4, MergeSound
  <2> HIDE DEF merged
  <2>8. FinderSound'
    BY <1>1, <2>5, <2>6, <2>7 DEF FinderSound
  <2>9. List' = merged
    BY <2>5, <2>7, LibraryAssumption DEF List
  <2>10. CASE call = "more"
    <3>1. list = List /\ declined' = declined
      BY <2>6, <2>10 DEF list
    <3>2. ASSUME NEW i \in 1 .. Len(merged), merged[i].ad.id \in declined PROVE ~merged[i].included
      <4>1. PICK j \in 1 .. Len(list) : list[j].ad.id = merged[i].ad.id
        BY <1>1, <3>1, <3>2 DEF ListSound
      <4>2. i \in 1 .. Len(list) /\ merged[i] = list[i]
        BY <2>7, <4>1
      <4> QED
        BY <1>1, <3>1, <3>2, <4>2 DEF ListSound
    <3>3. ASSUME NEW id \in declined PROVE \E i \in 1 .. Len(merged) : merged[i].ad.id = id
      <4>1. PICK j \in 1 .. Len(list) : list[j].ad.id = id
        BY <1>1, <3>1 DEF ListSound
      <4> QED
        BY <2>7, <4>1
    <3> QED
      BY <2>7, <2>8, <2>9, <3>1, <3>2, <3>3 DEF ListSound, OnceEach
  <2>11. CASE call # "more"
    BY <2>6, <2>7, <2>8, <2>9, <2>11 DEF ListSound, OnceEach
  <2> QED
    BY <2>8, <2>10, <2>11
<1> QED
  BY <1>2, <1>3 DEF AdsArrive

LEMMA ToggleAdSound ==
  ASSUME IInv, ToggleAd
  PROVE  FinderSound' /\ ListSound'
<1>1. FinderSound /\ ListSound
  BY DEF IInv
<1> DEFINE ads == finder.ads
           n == Len(ads)
<1>2. ads \in Seq(ListedAds) /\ n \in Nat /\ DOMAIN ads = 1 .. n /\ List = ads
  BY <1>1, LenProperties DEF ToggleAd, FinderSound, List
<1>3. PICK i \in 1 .. n :
        /\ finder' = [finder EXCEPT !.ads[i].included = ~@]
        /\ declined' = IF ads[i].included THEN declined \cup {ads[i].ad.id}
                       ELSE declined \ {ads[i].ad.id}
  BY DEF ToggleAd
<1> DEFINE toggled == [ads[i] EXCEPT !.included = ~@]
           new == [ads EXCEPT ![i] = toggled]
<1>4. ads[i] \in ListedAds
  BY <1>2, ElementOfSeq
<1>5. toggled \in ListedAds /\ toggled.ad = ads[i].ad /\ toggled.included = ~ads[i].included
  BY <1>4 DEF ListedAds
<1> HIDE DEF toggled
<1>6. new \in Seq(ListedAds) /\ Len(new) = n
  BY <1>2, <1>5, ExceptSeq
<1>7. \A k \in 1 .. n : new[k] = IF k = i THEN toggled ELSE ads[k]
  BY <1>2
<1>8. /\ finder'.ads = new /\ DOMAIN finder' = DOMAIN finder
      /\ \A f \in {"query", "pages", "selected"} : finder'[f] = finder[f]
  BY <1>1, <1>3 DEF FinderSound, toggled
<1> HIDE DEF new
<1>9. FinderSound'
  BY <1>1, <1>6, <1>8 DEF FinderSound
<1>10. List' = new
  BY <1>6, <1>8, LibraryAssumption DEF List
<1>11. \A k \in 1 .. n : new[k].ad = ads[k].ad
  BY <1>5, <1>7
<1>12. OnceEach(new)
  BY <1>1, <1>2, <1>6, <1>11 DEF ListSound, OnceEach
<1>13. ASSUME NEW k \in 1 .. n, new[k].ad.id \in declined' PROVE ~new[k].included
  <2>1. CASE k = i
    <3>1. new[k].included = ~ads[i].included /\ new[k].ad.id = ads[i].ad.id
      BY <2>1, <1>5, <1>7
    <3>2. ads[i].included
      BY <3>1, <1>3, <1>13
    <3> QED
      BY <3>1, <3>2
  <2>2. CASE k # i
    <3>1. new[k] = ads[k]
      BY <2>2, <1>7
    <3>2. ads[k].ad.id # ads[i].ad.id
      BY <2>2, <1>1, <1>2 DEF ListSound, OnceEach
    <3>3. ads[k].ad.id \in declined
      BY <3>1, <3>2, <1>3, <1>13
    <3> QED
      BY <3>1, <3>3, <1>1, <1>2 DEF ListSound
  <2> QED
    BY <2>1, <2>2
<1>14. ASSUME NEW id \in declined' PROVE \E k \in 1 .. n : new[k].ad.id = id
  <2>1. CASE id = ads[i].ad.id
    BY <2>1, <1>11
  <2>2. CASE id # ads[i].ad.id
    <3>1. id \in declined
      BY <2>2, <1>3, <1>14
    <3>2. PICK k \in 1 .. n : ads[k].ad.id = id
      BY <3>1, <1>1, <1>2 DEF ListSound
    <3> QED
      BY <3>2, <1>11
  <2> QED
    BY <2>1, <2>2
<1>15. ListSound'
  BY <1>6, <1>10, <1>12, <1>13, <1>14 DEF ListSound, OnceEach
<1> QED
  BY <1>9, <1>15

LEMMA SearchSteps ==
  ASSUME IInv,
         \/ TypeQuery \/ SearchPages \/ PagesArrive \/ SelectPage \/ FetchAds \/ LoadMore
         \/ AdsArrive("ads") \/ AdsArrive("more") \/ ToggleAd
  PROVE  FinderSound' /\ ListSound'
<1>1. FinderSound /\ ListSound
  BY DEF IInv
<1>2. CASE TypeQuery
  BY <1>1, <1>2, SameAdsSound DEF TypeQuery, FinderSound
<1>3. CASE SearchPages
  <2>1. finder'.ads = Null /\ declined' = {}
    BY <1>3 DEF SearchPages, EmptyFinder
  <2>2. FinderSound'
    BY <1>3 DEF SearchPages, EmptyFinder, FinderSound
  <2> QED
    BY <2>1, <2>2, NoAdsSound
<1>4. CASE PagesArrive
  <2>1. UNCHANGED declined /\ finder'.ads = finder.ads
    BY <1>1, <1>4 DEF PagesArrive, FinderSound
  <2>2. ASSUME NEW sample \in Samples, finder' = [finder EXCEPT !.pages = PageCandidates(sample)]
        PROVE  FinderSound'
    <3> DEFINE some == Picked(sample, {i \in 1 .. Len(sample) : sample[i] # Null})
    <3>1. IsList(sample) /\ ToSet(sample) \subseteq DOMAIN AdsOf \cup {Null}
      BY LibraryAssumption
    <3>2. IsList(some) /\ Members(some) \subseteq DOMAIN AdsOf
      <4>1. Members(some) = {sample[i] : i \in {k \in 1 .. Len(sample) : sample[k] # Null}
                                               \cap 1 .. Len(sample)}
        BY <3>1, PickedMembers
      <4>2. Members(sample) \subseteq DOMAIN AdsOf \cup {Null}
        BY <3>1, MembersOf
      <4> QED
        BY <3>1, <4>1, <4>2, PickedMembers DEF Members
    <3> HIDE DEF some
    <3>3. IsList(Firsts(some)) /\ Members(Firsts(some)) = Members(some)
      BY <3>2, FirstsMembers
    <3>4. ToSet(Firsts(some)) \subseteq DOMAIN AdsOf
      BY <3>2, <3>3, MembersOf
    <3>5. PageCandidates(sample) = Firsts(some)
      BY DEF PageCandidates, some
    <3>6. finder'.pages = Firsts(some)
      BY <1>1, <2>2, <3>5 DEF FinderSound
    <3> QED
      BY <1>1, <2>1, <2>2, <3>4, <3>6 DEF FinderSound
  <2>3. FinderSound'
    BY <1>1, <1>4, <2>2 DEF PagesArrive, FinderSound
  <2> QED
    BY <1>1, <2>1, <2>3, SameAdsSound
<1>5. CASE SelectPage
  <2>1. PICK page \in ToSet(finder.pages) :
          finder' = [finder EXCEPT !.selected = page, !.ads = Null, !.after = Null]
    BY <1>5 DEF SelectPage
  <2>2. page \in DOMAIN AdsOf
    BY <1>1, <1>5, <2>1 DEF SelectPage, FinderSound
  <2>3. FinderSound' /\ finder'.ads = Null /\ declined' = {}
    BY <1>1, <1>5, <2>1, <2>2 DEF SelectPage, FinderSound
  <2> QED
    BY <2>3, NoAdsSound
<1>6. CASE FetchAds \/ LoadMore
  BY <1>1, <1>6, SameAdsSound DEF FetchAds, LoadMore, FinderSound
<1>7. CASE AdsArrive("ads") \/ AdsArrive("more")
  BY <1>7, AdsArriveSound
<1>8. CASE ToggleAd
  BY <1>8, ToggleAdSound
<1> QED
  BY <1>2, <1>3, <1>4, <1>5, <1>6, <1>7, <1>8

-----------------------------------------------------------------------------
(* The requests.                                                           *)
LEMMA RequestSound ==
  ASSUME IInv
  PROVE  TextsSound(Request.texts, Request.ads, Request.mode)
<1>1. CASE form.mode = "search"
  <2> DEFINE included == Picked(List, IncludedAds)
             texts == [i \in 1 .. Len(included) |-> included[i].ad.text]
             ads == {List[i].ad.text : i \in IncludedAds}
  <2>1. IsList(List)
    BY ListIsOfAds DEF IInv
  <2>2. IsList(included) /\ Members(included) = {List[i] : i \in IncludedAds \cap 1 .. Len(List)}
    BY <2>1, PickedMembers
  <2>3. Len(included) \in Nat
    BY <2>2, ListIsSeq
  <2>4. \A i \in 1 .. Len(included) : texts[i] \in ads
    BY <2>2 DEF Members
  <2>5. texts = [i \in 1 .. Len(included) |-> texts[i]]
    OBVIOUS
  <2> HIDE DEF texts, included, ads
  <2>6. IsList(texts) /\ Len(texts) = Len(included)
    BY <2>3, <2>5, MadeIsList
  <2>7. Members(texts) \subseteq ads
    BY <2>4, <2>6 DEF Members
  <2>8. TextsSound(Distinct(texts), ads, "adsLibraryApi")
    BY <2>6, <2>7, DistinctSound
  <2>9. Distinct(texts) = SearchTexts
    BY DEF SearchTexts, texts, included
  <2> QED
    BY <1>1, <2>8, <2>9 DEF Request, ads
<1>2. CASE form.mode # "search"
  <2>1. IsList(Blocks) /\ \A i \in 1 .. Len(Blocks) : IsList(Blocks[i].parsed.raw)
    BY DEF IInv, BlocksSound, AreBlocks
  <2> QED
    BY <1>2, <2>1, ActiveTextsSound DEF Request
<1> QED
  BY <1>1, <1>2

LEMMA SentSound ==
  ASSUME WireSound, NEW call \in Calls, NEW request, wire' = [wire EXCEPT ![call] = request],
         call \in {"ads", "more"} /\ request # Null => request.page \in DOMAIN AdsOf,
         call = "generate" /\ request # Null =>
             TextsSound(request.texts, request.ads, request.mode)
  PROVE  WireSound'
<1>1. wire'[call] = request /\ \A c \in Calls \ {call} : wire'[c] = wire[c]
  BY DEF WireSound
<1>2. DOMAIN wire' = Calls
  BY DEF WireSound
<1>3. ASSUME NEW c \in {"ads", "more"}, wire'[c] # Null PROVE wire'[c].page \in DOMAIN AdsOf
  BY <1>1, <1>3 DEF WireSound, Calls
<1>4. ASSUME wire'["generate"] # Null
      PROVE  TextsSound(wire'["generate"].texts, wire'["generate"].ads, wire'["generate"].mode)
  BY <1>1, <1>4 DEF WireSound, Calls
<1> QED
  BY <1>2, <1>3, <1>4 DEF WireSound

LEMMA WireSteps ==
  ASSUME IInv, [Next]_vars
  PROVE  WireSound'
<1>1. WireSound /\ FinderSound
  BY DEF IInv
<1>2. CASE wire' = wire
  BY <1>1, <1>2 DEF WireSound
<1>3. ASSUME NEW call \in Calls, Done(call) PROVE WireSound'
  BY <1>1, <1>3, SentSound DEF Done
<1>4. CASE SearchPages
  BY <1>1, <1>4, SentSound DEF SearchPages, Send, Calls
<1>5. CASE FetchAds
  <2>1. wire' = [wire EXCEPT !["ads"] = [page |-> finder.selected, after |-> 0]]
    BY <1>5 DEF FetchAds, Send
  <2>2. finder.selected \in DOMAIN AdsOf
    BY <1>1, <1>5 DEF FetchAds, FinderSound
  <2> QED
    BY <1>1, <2>1, <2>2, SentSound DEF Calls
<1>6. CASE LoadMore
  <2>1. wire' = [wire EXCEPT !["more"] = [page |-> finder.selected, after |-> finder.after]]
    BY <1>6 DEF LoadMore, Send
  <2>2. finder.selected \in DOMAIN AdsOf
    BY <1>1, <1>6 DEF LoadMore, FinderSound
  <2> QED
    BY <1>1, <2>1, <2>2, SentSound DEF Calls
<1>7. CASE Generate
  <2>1. wire' = [wire EXCEPT !["generate"] = Request]
    BY <1>7 DEF Generate, Send
  <2> QED
    BY <1>1, <2>1, RequestSound, SentSound DEF Calls
<1>8. CASE PagesArrive \/ AdsArrive("ads") \/ AdsArrive("more") \/ ReportArrives
  BY <1>3, <1>8 DEF PagesArrive, AdsArrive, ReportArrives, Calls
<1>9. CASE SwitchMode \/ TypeName \/ TypeAliases \/ TypeNotes \/ Paste
  BY <1>2, <1>9 DEF SwitchMode, TypeName, TypeAliases, TypeNotes, Paste
<1>10. CASE \/ ParseAds \/ ExtractAds \/ EditRawDump \/ AddBlock
            \/ \E i \in 1 .. Len(Blocks) : UpdateBlock(i) \/ RemoveBlock(i) \/ ToggleBlock(i)
  BY <1>2, <1>10
  DEF ParseAds, ExtractAds, EditRawDump, AddBlock, UpdateBlock, RemoveBlock, ToggleBlock
<1>11. CASE TypeQuery \/ SelectPage \/ ToggleAd \/ ClearMode \/ Reset \/ Disarm
  BY <1>2, <1>11 DEF TypeQuery, SelectPage, ToggleAd, ClearMode, Reset, Disarm
<1>12. CASE UNCHANGED vars
  BY <1>2, <1>12 DEF vars
<1> QED
  BY <1>4, <1>5, <1>6, <1>7, <1>8, <1>9, <1>10, <1>11, <1>12 DEF Next

-----------------------------------------------------------------------------
(* The report.                                                             *)
ReportSound == RecurringNeedsTwo /\ SubstituteIsClear

LEMMA KeptReport ==
  ASSUME ReportSound, report' \in {report, Null}, UNCHANGED visit
  PROVE  ReportSound'
<1>1. CASE report' = Null
  BY <1>1 DEF ReportSound, RecurringNeedsTwo, SubstituteIsClear
<1>2. CASE report' = report
  BY <1>2 DEF ReportSound, RecurringNeedsTwo, SubstituteIsClear
<1> QED
  BY <1>1, <1>2

LEMMA ReportArrivesSound ==
  ASSUME IInv, ReportArrives
  PROVE  ReportSound'
<1>1. WireSound /\ visit \in Visits /\ visit' = visit
  BY DEF IInv, ReportArrives
<1>2. CASE report' = Null
  BY <1>2 DEF ReportSound, RecurringNeedsTwo, SubstituteIsClear
<1>3. CASE report' # Null
  <2> DEFINE asked == wire["generate"]
  <2>1. PICK says :
          report' = [mode |-> asked.mode, name |-> asked.name, asked |-> asked,
                     brief |-> Debrief(says, Analysed(asked.texts), visit.learnings)]
    BY <1>3 DEF ReportArrives
  <2>2. TextsSound(asked.texts, asked.ads, asked.mode)
    BY <1>1 DEF ReportArrives, Idle, WireSound
  <2> DEFINE texts == Analysed(asked.texts)
             brief == Debrief(says, texts, visit.learnings)
  <2>3. TextsSound(texts, asked.ads, asked.mode)
    BY <2>2, AnalysedSound
  <2>4. IsList(visit.learnings)
    BY <1>1, VisitAssumption
  <2> HIDE DEF texts
  <2>5. /\ \A s \in DOMAIN Sections : \A l \in ToSet(brief.patterns[s]) :
              \E a, b \in asked.ads : a # b /\ l \in Says(asked.mode, a) /\ l \in Says(asked.mode, b)
        /\ \A i \in DOMAIN brief.tests :
              Clear(brief.tests[i], Angles(brief.evidence, brief.patterns), visit.learnings)
    BY <2>3, <2>4, DebriefSound
  <2> HIDE DEF brief, asked
  <2>6. report'.mode = asked.mode /\ report'.asked = asked /\ report'.brief = brief
    BY <2>1 DEF brief, texts, asked
  <2>7. RecurringNeedsTwo'
    BY <2>5, <2>6 DEF RecurringNeedsTwo, Says
  <2>8. SubstituteIsClear'
    BY <1>1, <2>5, <2>6 DEF SubstituteIsClear, Clear
  <2> QED
    BY <2>7, <2>8 DEF ReportSound
<1> QED
  BY <1>2, <1>3

LEMMA ReportSteps ==
  ASSUME IInv, [Next]_vars
  PROVE  ReportSound' /\ UNCHANGED visit
<1>1. ReportSound
  BY DEF IInv, ReportSound
<1>2. CASE ReportArrives
  BY <1>2, ReportArrivesSound DEF ReportArrives
<1>3. CASE SwitchMode \/ TypeName \/ TypeAliases \/ TypeNotes \/ Paste
  BY <1>1, <1>3, KeptReport DEF SwitchMode, TypeName, TypeAliases, TypeNotes, Paste
<1>4. CASE \/ ParseAds \/ ExtractAds \/ EditRawDump \/ AddBlock
           \/ \E i \in 1 .. Len(Blocks) : UpdateBlock(i) \/ RemoveBlock(i) \/ ToggleBlock(i)
  BY <1>1, <1>4, KeptReport
  DEF ParseAds, ExtractAds, EditRawDump, AddBlock, UpdateBlock, RemoveBlock, ToggleBlock
<1>5. CASE \/ TypeQuery \/ SearchPages \/ PagesArrive \/ SelectPage \/ FetchAds \/ LoadMore
           \/ AdsArrive("ads") \/ AdsArrive("more") \/ ToggleAd \/ Generate \/ Disarm
  BY <1>1, <1>5, KeptReport
  DEF TypeQuery, SearchPages, PagesArrive, SelectPage, FetchAds, LoadMore, AdsArrive, ToggleAd,
      Generate, Disarm
<1>6. CASE ClearMode
  <2>1. \A mode : ReportWithout(mode) \in {report, Null}
    BY DEF ReportWithout
  <2>2. report' \in {report, Null} /\ UNCHANGED visit
    BY <1>6, <2>1 DEF ClearMode
  <2> QED
    BY <1>1, <2>2, KeptReport
<1>7. CASE Reset
  BY <1>1, <1>7, KeptReport DEF Reset
<1>8. CASE UNCHANGED vars
  BY <1>1, <1>8, KeptReport DEF vars
<1> QED
  BY <1>2, <1>3, <1>4, <1>5, <1>6, <1>7, <1>8 DEF Next

-----------------------------------------------------------------------------
(* A step.                                                                 *)
LEMMA BlocksSteps ==
  ASSUME IInv, [Next]_vars
  PROVE  BlocksSound'
<1>1. BlocksSound
  BY DEF IInv
<1>2. CASE UNCHANGED review
  BY <1>1, <1>2 DEF BlocksSound, Blocks
<1>3. ASSUME review'.blocks = Null, DOMAIN review' = {"blocks", "processed"} PROVE BlocksSound'
  BY <1>3, NoneAtAll DEF BlocksSound, Blocks, AreBlocks
<1>4. ASSUME review'.blocks = review.blocks, DOMAIN review' = {"blocks", "processed"}
      PROVE  BlocksSound'
  BY <1>1, <1>4 DEF BlocksSound, Blocks
<1>5. CASE ClearMode
  <2>1. \/ UNCHANGED review
        \/ review' = [review EXCEPT !.blocks = Null]
        \/ review' = [blocks |-> IF FromDump THEN Null ELSE review.blocks, processed |-> FALSE]
    BY <1>5 DEF ClearMode
  <2>2. CASE review' = [review EXCEPT !.blocks = Null]
    BY <1>1, <1>3, <2>2 DEF BlocksSound
  <2>3. CASE review' = [blocks |-> IF FromDump THEN Null ELSE review.blocks, processed |-> FALSE]
    BY <1>3, <1>4, <2>3
  <2> QED
    BY <1>2, <2>1, <2>2, <2>3
<1>6. CASE Reset
  BY <1>2, <1>3, <1>6 DEF Reset, EmptyReview
<1>7. CASE SwitchMode \/ TypeName \/ TypeAliases \/ TypeNotes \/ Paste
  BY <1>2, <1>7 DEF SwitchMode, TypeName, TypeAliases, TypeNotes, Paste
<1>8. CASE \/ ParseAds \/ ExtractAds \/ EditRawDump \/ AddBlock
           \/ \E i \in 1 .. Len(Blocks) : UpdateBlock(i) \/ RemoveBlock(i) \/ ToggleBlock(i)
  BY <1>8, ReviewSteps
<1>9. CASE \/ TypeQuery \/ SearchPages \/ PagesArrive \/ SelectPage \/ FetchAds \/ LoadMore
           \/ AdsArrive("ads") \/ AdsArrive("more") \/ ToggleAd \/ Generate \/ Disarm
           \/ ReportArrives
  BY <1>2, <1>9
  DEF TypeQuery, SearchPages, PagesArrive, SelectPage, FetchAds, LoadMore, AdsArrive, ToggleAd,
      Generate, Disarm, ReportArrives
<1>10. CASE UNCHANGED vars
  BY <1>2, <1>10 DEF vars
<1> QED
  BY <1>5, <1>6, <1>7, <1>8, <1>9, <1>10 DEF Next

LEMMA ListSteps ==
  ASSUME IInv, [Next]_vars
  PROVE  FinderSound' /\ ListSound'
<1>1. FinderSound /\ ListSound
  BY DEF IInv
<1>2. CASE UNCHANGED <<finder, declined>>
  BY <1>1, <1>2, SameAdsSound DEF FinderSound
<1>3. CASE finder' = EmptyFinder /\ declined' = {}
  <2>1. FinderSound' /\ finder'.ads = Null
    BY <1>3 DEF EmptyFinder, FinderSound
  <2> QED
    BY <1>3, <2>1, NoAdsSound
<1>4. CASE ClearMode \/ Reset \/ Disarm
  BY <1>2, <1>3, <1>4 DEF ClearMode, Reset, Disarm
<1>5. CASE SwitchMode \/ TypeName \/ TypeAliases \/ TypeNotes \/ Paste
  BY <1>2, <1>5 DEF SwitchMode, TypeName, TypeAliases, TypeNotes, Paste
<1>6. CASE \/ ParseAds \/ ExtractAds \/ EditRawDump \/ AddBlock
           \/ \E i \in 1 .. Len(Blocks) : UpdateBlock(i) \/ RemoveBlock(i) \/ ToggleBlock(i)
  BY <1>2, <1>6
  DEF ParseAds, ExtractAds, EditRawDump, AddBlock, UpdateBlock, RemoveBlock, ToggleBlock
<1>7. CASE \/ TypeQuery \/ SearchPages \/ PagesArrive \/ SelectPage \/ FetchAds \/ LoadMore
           \/ AdsArrive("ads") \/ AdsArrive("more") \/ ToggleAd
  BY <1>7, SearchSteps
<1>8. CASE Generate \/ ReportArrives
  BY <1>2, <1>8 DEF Generate, ReportArrives
<1>9. CASE UNCHANGED vars
  BY <1>2, <1>9 DEF vars
<1> QED
  BY <1>4, <1>5, <1>6, <1>7, <1>8, <1>9 DEF Next

LEMMA StepSound == IInv /\ [Next]_vars => IInv'
<1> SUFFICES ASSUME IInv, [Next]_vars PROVE IInv'
  OBVIOUS
<1>1. visit' \in Visits /\ ReportSound'
  BY ReportSteps DEF IInv
<1>2. BlocksSound' /\ FinderSound' /\ WireSound' /\ ListSound'
  BY BlocksSteps, ListSteps, WireSteps
<1> QED
  BY <1>1, <1>2 DEF IInv, ReportSound

LEMMA Invariance == Spec => []IInv
<1>1. Init => IInv
  BY InitSound
<1>2. IInv /\ [Next]_vars => IInv'
  BY StepSound
<1> QED
  BY <1>1, <1>2, PTL DEF Spec

-----------------------------------------------------------------------------
\* Whatever the library delivers and in whatever order answers come, an ad the
\* user unchecked is unchecked on the list, and no ad is on it twice
\* (searchAdsPayload.ts:68).
THEOREM DeclinedAlwaysOut == Spec => []DeclinedStaysOut
<1>1. IInv => DeclinedStaysOut
  BY DEF IInv, ListSound, OnceEach, List, DeclinedStaysOut
<1> QED
  BY <1>1, Invariance, PTL

\* Whatever ads the user brings and however they are pasted, cut, fetched and
\* trimmed, what a report calls recurring is said by two different ads of those
\* it was asked of (engine.ts, strategicPatterns.ts:136).
THEOREM RecurringAlwaysInTwo == Spec => []RecurringNeedsTwo
<1>1. IInv => RecurringNeedsTwo
  BY DEF IInv
<1> QED
  BY <1>1, Invariance, PTL

\* Whatever the learnings say, the angle a test is given in place of a flagged
\* one is of the report's own evidence and no learning flags it
\* (internalLearnings.ts:220).
THEOREM SubstituteAlwaysClear == Spec => []SubstituteIsClear
<1>1. IInv => SubstituteIsClear
  BY DEF IInv
<1> QED
  BY <1>1, Invariance, PTL

-----------------------------------------------------------------------------
(* A line of copy in a dump: as often in the candidates as in the paste.   *)
LEMMA TrimmedAsOften ==
  ASSUME NEW lines, IsList(lines), NEW x, x.k # "blank"
  PROVE  ExistsBijection(Occurs(Trimmed(lines), x), Occurs(lines, x))
<1> DEFINE solid == {i \in 1 .. Len(lines) : lines[i].k # "blank"}
           places == {i \in 1 .. Len(lines) : \E a, b \in solid : a <= i /\ i <= b}
<1>1. Len(lines) \in Nat
  BY ListIsSeq
<1>2. \A i \in Occurs(lines, x) : i \in 1 .. Len(lines) /\ i \in solid /\ i <= i
  BY <1>1 DEF Occurs
<1>3. Occurs(lines, x) \subseteq places
  BY <1>2
<1> QED
  BY <1>3, PickedAsOften DEF Trimmed

\* A line that is no border is in one of the stretches between them.
LEMMA StretchesAsOften ==
  ASSUME NEW lines, IsList(lines), NEW borders, borders \subseteq 1 .. Len(lines), NEW cut, NEW x,
         Occurs(lines, x) \cap cut = {}, NEW parts, Len(parts) = Cardinality(borders) + 1,
         \A n \in 1 .. Len(parts) : parts[n] = Picked(lines, Stretch(lines, borders, n) \ cut)
  PROVE  ExistsBijection(Spots(parts, x), Occurs(lines, x))
<1> DEFINE places == [n \in 1 .. Len(parts) |-> Stretch(lines, borders, n) \ cut]
           before(i) == Cardinality({b \in borders : b < i})
<1>1. Cardinality(borders) \in Nat
  BY CountIsNat
<1>2. IsFiniteSet(borders)
  <2>1. IsFiniteSet(1 .. Len(lines))
    BY ListIsSeq, FS_Interval
  <2> QED
    BY <2>1, FS_Subset
<1>3. \A i : before(i) \in Nat /\ before(i) <= Cardinality(borders)
  <2>1. TAKE i
  <2>2. {b \in borders : b < i} \subseteq borders
    OBVIOUS
  <2>3. IsFiniteSet({b \in borders : b < i})
    BY <1>2, <2>2, FS_Subset
  <2> QED
    BY <1>2, <2>2, <2>3, FS_Subset, FS_CardinalityType
<1>4. \A i \in Occurs(lines, x) : \A n \in 1 .. Len(parts) : i \in places[n] <=> before(i) = n - 1
  BY DEF Stretch, Occurs
<1> HIDE DEF before
<1>5. \A i \in Occurs(lines, x) : \E n \in 1 .. Len(parts) : i \in places[n]
  <2>1. TAKE i \in Occurs(lines, x)
  <2>2. before(i) + 1 \in 1 .. Len(parts) /\ before(i) = (before(i) + 1) - 1
    BY <1>1, <1>3
  <2> QED
    BY <1>4, <2>2
<1>6. \A i \in Occurs(lines, x) : \A m, n \in 1 .. Len(parts) :
          i \in places[m] /\ i \in places[n] => m = n
  BY <1>1, <1>4
<1>7. \A n \in 1 .. Len(parts) : parts[n] = Picked(lines, places[n])
  OBVIOUS
<1> HIDE DEF places
<1> QED
  BY <1>1, <1>5, <1>6, <1>7, SplitAsOften

LEMMA NonBlankAsOften ==
  ASSUME NEW lists, IsList(lists), \A i \in 1 .. Len(lists) : IsList(lists[i]), NEW x
  PROVE  ExistsBijection(Spots(NonBlank(lists), x), Spots(lists, x))
<1> DEFINE places == {i \in 1 .. Len(lists) : lists[i] # <<>>}
<1>1. Occurs(<<>>, x) = {}
  BY NoneAtAll DEF Occurs
<1>2. \A i \in 1 .. Len(lists) : Occurs(lists[i], x) # {} => i \in places
  BY <1>1
<1> HIDE DEF places
<1>3. ExistsBijection(Spots(Picked(lists, places), x), Spots(lists, x))
  BY <1>2, PickedListsAsOften
<1> QED
  BY <1>3 DEF NonBlank, places

LEMMA PartsAsOften ==
  ASSUME NEW lines, IsList(lines), NEW kind, NEW x, x.k # kind, x.k # "blank"
  PROVE  ExistsBijection(Spots(Parts(lines, kind), x), Occurs(lines, x))
<1> DEFINE borders == {i \in 1 .. Len(lines) : lines[i].k = kind}
           n == Cardinality(borders) + 1
           Raw(k) == Picked(lines, Stretch(lines, borders, k) \ borders)
           raw == [k \in 1 .. n |-> Raw(k)]
           all == [k \in 1 .. n |-> Trimmed(Raw(k))]
<1>1. n \in Nat
  BY CountIsNat
<1>2. \A k \in 1 .. n : IsList(Raw(k)) /\ IsList(Trimmed(Raw(k)))
  BY PickedMembers, TrimmedIsList
<1>3. Occurs(lines, x) \cap borders = {} /\ borders \subseteq 1 .. Len(lines)
  BY DEF Occurs
<1>4. \A k \in 1 .. n : raw[k] = Picked(lines, Stretch(lines, borders, k) \ borders)
  OBVIOUS
<1>5. \A k \in 1 .. n : all[k] = Trimmed(raw[k]) /\ IsList(raw[k]) /\ IsList(all[k])
  BY <1>2
<1>6. raw = [k \in 1 .. n |-> raw[k]] /\ all = [k \in 1 .. n |-> all[k]]
  OBVIOUS
<1> HIDE DEF raw, all, Raw
<1>7. Len(raw) = n /\ Len(all) = n /\ IsList(all)
  BY <1>1, <1>6, MadeIsList
<1>8. ExistsBijection(Spots(raw, x), Occurs(lines, x))
  BY <1>3, <1>4, <1>7, StretchesAsOften
<1>9. ExistsBijection(Spots(all, x), Spots(raw, x))
  <2>1. \A k \in 1 .. n : ExistsBijection(Occurs(all[k], x), Occurs(raw[k], x))
    BY <1>5, TrimmedAsOften
  <2> HIDE DEF n
  <2> QED
    BY <2>1, <1>1, <1>5, <1>7, EachAsOften
<1>10. ExistsBijection(Spots(NonBlank(all), x), Spots(all, x))
  BY <1>5, <1>7, NonBlankAsOften
<1>11. ExistsBijection(Spots(NonBlank(all), x), Occurs(lines, x))
  BY <1>8, <1>9, <1>10, Fun_ExistsBijTransitive
<1> QED
  BY <1>11 DEF Parts, all, Raw

LEMMA ButtonsAsOften ==
  ASSUME NEW lines, IsList(lines), NEW x
  PROVE  ExistsBijection(Spots(AfterButtons(lines), x), Occurs(lines, x))
<1> DEFINE buttons == {i \in 1 .. Len(lines) : CtaLine(lines[i])}
           n == Cardinality(buttons) + 1
           raw == [k \in 1 .. n |-> Picked(lines, Stretch(lines, buttons, k))]
<1>1. n \in Nat
  BY CountIsNat
<1>2. \A k \in 1 .. n : raw[k] = Picked(lines, Stretch(lines, buttons, k)) /\ IsList(raw[k])
  BY PickedMembers
<1>3. raw = [k \in 1 .. n |-> raw[k]] /\ buttons \subseteq 1 .. Len(lines)
  OBVIOUS
<1>4. \A k \in 1 .. n : Stretch(lines, buttons, k) = Stretch(lines, buttons, k) \ {}
  OBVIOUS
<1> HIDE DEF raw
<1>5. Len(raw) = n /\ IsList(raw)
  BY <1>1, <1>3, MadeIsList
<1>6. \A k \in 1 .. Len(raw) : raw[k] = Picked(lines, Stretch(lines, buttons, k) \ {})
  BY <1>2, <1>4, <1>5
<1>7. ExistsBijection(Spots(raw, x), Occurs(lines, x))
  <2> DEFINE none == {}
  <2>1. Occurs(lines, x) \cap none = {}
    OBVIOUS
  <2>2. \A k \in 1 .. Len(raw) : raw[k] = Picked(lines, Stretch(lines, buttons, k) \ none)
    BY <1>6
  <2> HIDE DEF none, buttons
  <2> QED
    BY <2>1, <2>2, <1>3, <1>5, StretchesAsOften
<1>8. ExistsBijection(Spots(NonBlank(raw), x), Spots(raw, x))
  BY <1>2, <1>5, NonBlankAsOften
<1>9. ExistsBijection(Spots(NonBlank(raw), x), Occurs(lines, x))
  BY <1>7, <1>8, Fun_ExistsBijTransitive
<1> QED
  BY <1>9 DEF AfterButtons, raw

LEMMA BoundariesAsOften ==
  ASSUME NEW lines, IsList(lines), NEW x, x.k = "copy"
  PROVE  ExistsBijection(Spots(DetectBoundaries(lines).parts, x), Occurs(lines, x))
<1> DEFINE t == Trimmed(lines)
<1>1. IsList(t) /\ ExistsBijection(Occurs(t, x), Occurs(lines, x))
  BY TrimmedIsList, TrimmedAsOften
<1>2. ExistsBijection(Spots(SplitAdBlocks(lines), x), Occurs(lines, x))
  BY PartsAsOften DEF SplitAdBlocks
<1> HIDE DEF t
<1>3. ExistsBijection(Spots(AfterButtons(t), x), Occurs(t, x))
  BY <1>1, ButtonsAsOften
<1>4. ExistsBijection(Spots(AfterButtons(t), x), Occurs(lines, x))
  BY <1>1, <1>3, Fun_ExistsBijTransitive
<1>5. ExistsBijection(Spots(<<t>>, x), Occurs(t, x))
  <2> DEFINE f == [s \in Spots(<<t>>, x) |-> s[2]]
  <2>1. Len(<<t>>) = 1 /\ <<t>>[1] = t /\ Len(t) \in Nat
    BY <1>1, ListIsSeq
  <2>2. \A s : s \in Spots(<<t>>, x) <=> \E k \in Occurs(t, x) : s = <<1, k>>
    BY <2>1 DEF Spots, Occurs
  <2>3. f \in [Spots(<<t>>, x) -> Occurs(t, x)]
    BY <2>2
  <2>4. \A a, b \in Spots(<<t>>, x) : f[a] = f[b] => a = b
    BY <2>2
  <2>5. \A k \in Occurs(t, x) : \E s \in Spots(<<t>>, x) : f[s] = k
    <3>1. TAKE k \in Occurs(t, x)
    <3>2. <<1, k>> \in Spots(<<t>>, x) /\ <<1, k>>[2] = k
      BY <2>2
    <3> QED
      BY <3>2
  <2> HIDE DEF f
  <2> QED
    BY <2>3, <2>4, <2>5, OneToOne
<1>6. ExistsBijection(Spots(<<t>>, x), Occurs(lines, x))
  BY <1>1, <1>5, Fun_ExistsBijTransitive
<1>7. t = <<>> => ExistsBijection(Spots(<<>>, x), Occurs(lines, x))
  <2>1. Spots(<<>>, x) = {} /\ Occurs(<<>>, x) = {}
    BY NoneAtAll DEF Spots, Occurs
  <2> QED
    BY <2>1, <1>1
<1> QED
  BY <1>2, <1>4, <1>6, <1>7 DEF DetectBoundaries, t

\* The lines the header of a card takes with it are told by the line before.
TakenTo(pairs, n, f) == f = [i \in 0 .. n |-> i - 1 \in pairs /\ ~f[i - 1]]

LEMMA TakenExists ==
  ASSUME NEW pairs, pairs \subseteq Nat \ {0}, NEW n \in Nat
  PROVE  \E f : TakenTo(pairs, n, f)
<1> DEFINE Bad == {k \in Nat : ~\E f : TakenTo(pairs, k, f)}
<1>1. ASSUME NEW k \in Bad PROVE \E m \in Bad : m < k
  <2>1. CASE k = 0
    <3> DEFINE f == [i \in 0 .. 0 |-> FALSE]
    <3>1. f = [i \in 0 .. 0 |-> i - 1 \in pairs /\ ~f[i - 1]]
      <4>1. \A i \in 0 .. 0 : (i - 1 \in pairs) = FALSE
        OBVIOUS
      <4> QED
        BY <4>1
    <3> QED
      BY <2>1, <3>1 DEF TakenTo
  <2>2. CASE k # 0
    <3>1. k - 1 \in Nat /\ k - 1 < k
      BY <2>2
    <3>2. SUFFICES ASSUME NEW g, TakenTo(pairs, k - 1, g) PROVE FALSE
      BY <3>1
    <3> DEFINE f == [i \in 0 .. k |-> IF i = k THEN k - 1 \in pairs /\ ~g[k - 1] ELSE g[i]]
    <3>3. \A i \in 0 .. k - 1 : g[i] = (i - 1 \in pairs /\ ~g[i - 1])
      BY <3>2 DEF TakenTo
    <3>4. \A i \in 0 .. k : i - 1 \in pairs => f[i - 1] = g[i - 1]
      <4>1. TAKE i \in 0 .. k
      <4>2. HAVE i - 1 \in pairs
      <4>3. i - 1 \in 0 .. k - 1 /\ i - 1 # k
        BY <3>1, <4>2
      <4> QED
        BY <4>3
    <3>5. \A i \in 0 .. k : f[i] = (i - 1 \in pairs /\ ~g[i - 1])
      BY <3>3, <3>1
    <3>6. \A i \in 0 .. k : f[i] = (i - 1 \in pairs /\ ~f[i - 1])
      BY <3>4, <3>5
    <3>7. f = [i \in 0 .. k |-> i - 1 \in pairs /\ ~f[i - 1]]
      BY <3>6
    <3> QED
      BY <3>7 DEF TakenTo
  <2> QED
    BY <2>1, <2>2
<1>2. Bad = {}
  BY <1>1, NoneLeast
<1> QED
  BY <1>2

\* A line that begins a card: a name with "Sponsored" under it, or in it.
Heads(lines, h) ==
    lines[h].k = "sponsoredBy" \/ (LooksLikeLabel(lines[h]) /\ lines[h + 1].k = "sponsored")

\* What stripChromeLines does: copy stays as it is, what changes becomes a
\* marker, and a card's header leaves one with its name, there or just above.
IsStripped(lines, marked, kept) ==
    /\ IsList(marked) /\ Len(marked) = Len(lines)
    /\ \A i \in 1 .. Len(lines) : marked[i] = lines[i] \/ marked[i].k = "marker"
    /\ \A i \in 1 .. Len(lines) : lines[i].k = "copy" => i \in kept /\ marked[i] = lines[i]
    /\ \A h \in 1 .. Len(lines) - 1 : Heads(lines, h) =>
           \E g \in 1 .. h :
               /\ g \in kept /\ marked[g] = Marker(lines[h].text)
               /\ g = h \/ (g = h - 1 /\ lines[g].k = "sponsored")

LEMMA HowStripped ==
  ASSUME NEW lines, IsList(lines), NEW competitor
  PROVE  \E marked, kept : /\ StripChrome(lines, competitor) = Picked(marked, kept)
                           /\ IsStripped(lines, marked, kept)
<1> DEFINE all == 1 .. Len(lines)
           blank == {i \in all : lines[i].k = "blank"}
           nameFirst(i) == /\ LooksLikeLabel(lines[i])
                           /\ i < Len(lines) /\ lines[i + 1].k = "sponsored"
           nameAfter(i) == /\ lines[i].k = "sponsored"
                           /\ i < Len(lines) /\ LooksLikeLabel(lines[i + 1])
           paired(i) == i \in all /\ (nameFirst(i) \/ nameAfter(i))
           taken == CHOOSE f : f = [i \in 0 .. Len(lines) |-> paired(i - 1) /\ ~f[i - 1]]
           opens(i) == ~taken[i] /\ (lines[i].k = "sponsoredBy" \/ paired(i))
           glued(i) == \E h \in 1 .. i - 1 : /\ opens(h) \/ taken[h]
                                             /\ h + 1 .. i - 1 \subseteq blank
           chrome(i) == \/ lines[i].k \in {"sponsored", "chrome"}
                        \/ LooksLikeLabel(lines[i]) /\ competitor # Null /\ lines[i].text = competitor
           kept == {i \in all : /\ ~taken[i]
                                /\ opens(i) \/ ~(IF i \in blank THEN glued(i) ELSE chrome(i))}
           marker(i) == Marker(IF nameAfter(i) THEN lines[i + 1].text ELSE lines[i].text)
           marked == [i \in all |-> IF opens(i) THEN marker(i) ELSE lines[i]]
           pairs == {i \in all : paired(i)}
<1>1. Len(lines) \in Nat
  BY ListIsSeq
<1>2. StripChrome(lines, competitor) = Picked(marked, kept)
  BY DEF StripChrome
<1>3. taken = [i \in 0 .. Len(lines) |-> paired(i - 1) /\ ~taken[i - 1]]
  <2> HIDE DEF nameFirst, nameAfter
  <2>1. \A i \in 0 .. Len(lines) : paired(i - 1) <=> i - 1 \in pairs
    OBVIOUS
  <2>2. PICK f : f = [i \in 0 .. Len(lines) |-> i - 1 \in pairs /\ ~f[i - 1]]
    <3>1. pairs \subseteq Nat \ {0}
      BY <1>1
    <3> HIDE DEF pairs
    <3>2. \E f : TakenTo(pairs, Len(lines), f)
      BY <1>1, <3>1, TakenExists
    <3> QED
      BY <3>2, Zenon DEF TakenTo
  <2>3. f = [i \in 0 .. Len(lines) |-> paired(i - 1) /\ ~f[i - 1]]
    BY <2>1, <2>2, Zenon
  <2> HIDE DEF paired, pairs
  <2> QED
    BY <2>3, Zenon
<1> HIDE DEF taken
<1>4. \A i \in all : taken[i] <=> paired(i - 1) /\ ~taken[i - 1]
  <2> HIDE DEF paired
  <2>1. \A i \in all : i \in 0 .. Len(lines)
    BY <1>1
  <2> QED
    BY <1>3, <2>1, Zenon
<1>5. \A i \in all : i - 1 \in all /\ paired(i - 1) =>
          /\ lines[i].k = "sponsored" \/ LooksLikeLabel(lines[i])
          /\ LooksLikeLabel(lines[i]) => nameAfter(i - 1)
  <2>1. \A i \in all : (i - 1) + 1 = i
    BY <1>1
  <2> QED
    BY <2>1 DEF LooksLikeLabel
<1>6. ASSUME NEW i \in all, lines[i].k = "copy" PROVE i \in kept /\ marked[i] = lines[i]
  <2>1. ~taken[i]
    <3>1. paired(i - 1) => i - 1 \in all
      OBVIOUS
    <3> HIDE DEF paired, nameAfter
    <3>2. ~paired(i - 1)
      BY <1>5, <1>6, <3>1 DEF LooksLikeLabel
    <3> QED
      BY <1>4, <3>2
  <2>2. ~paired(i) /\ i \notin blank /\ ~chrome(i) /\ lines[i].k # "sponsoredBy"
    BY <1>6 DEF LooksLikeLabel
  <2> HIDE DEF paired, chrome, blank
  <2> QED
    BY <2>1, <2>2
<1>7. \A i \in all : marked[i] = lines[i] \/ marked[i].k = "marker"
  BY DEF Marker
<1>8. \A i \in all : opens(i) => i \in kept /\ marked[i] = marker(i)
  <2> HIDE DEF opens, blank, chrome, marker
  <2>1. \A i \in all : opens(i) => ~taken[i]
    BY DEF opens
  <2> QED
    BY <2>1
<1>9. ASSUME NEW h \in 1 .. Len(lines) - 1, Heads(lines, h)
      PROVE  \E g \in 1 .. h :
                 /\ g \in kept /\ marked[g] = Marker(lines[h].text)
                 /\ g = h \/ (g = h - 1 /\ lines[g].k = "sponsored")
  <2>1. h \in all /\ h < Len(lines) /\ h \in 1 .. h
    BY <1>1
  <2>2. lines[h].k # "sponsored" /\ ~nameAfter(h)
    BY <1>9 DEF Heads, LooksLikeLabel
  <2>3. lines[h].k = "sponsoredBy" \/ paired(h)
    BY <1>9, <2>1 DEF Heads
  <2>4. CASE ~taken[h]
    <3>1. opens(h)
      BY <2>3, <2>4
    <3>2. h \in kept /\ marked[h] = marker(h)
      BY <1>8, <2>1, <3>1
    <3>3. marker(h) = Marker(lines[h].text)
      BY <2>2
    <3> HIDE DEF kept, marked, marker
    <3> QED
      BY <2>1, <3>2, <3>3
  <2>5. CASE taken[h]
    <3>1. paired(h - 1) /\ ~taken[h - 1]
      <4> HIDE DEF paired
      <4> QED
        BY <1>4, <2>1, <2>5
    <3>2. h - 1 \in all /\ h - 1 \in 1 .. h /\ (h - 1) + 1 = h
      BY <1>1, <2>1, <3>1
    <3>3. LooksLikeLabel(lines[h])
      BY <1>5, <2>1, <2>2, <3>1, <3>2
    <3>4. nameAfter(h - 1)
      BY <1>5, <2>1, <3>1, <3>2, <3>3
    <3>5. opens(h - 1)
      BY <3>1
    <3>6. h - 1 \in kept /\ marked[h - 1] = marker(h - 1)
      BY <1>8, <3>2, <3>5
    <3>7. marker(h - 1) = Marker(lines[h].text) /\ lines[h - 1].k = "sponsored"
      BY <3>2, <3>4
    <3> HIDE DEF kept, marked, marker
    <3> QED
      BY <3>2, <3>6, <3>7
  <2> QED
    BY <2>4, <2>5
<1>10. marked = [i \in 1 .. Len(lines) |-> marked[i]]
  OBVIOUS
<1> HIDE DEF kept, marked
<1>11. IsList(marked) /\ Len(marked) = Len(lines)
  BY <1>1, <1>10, MadeIsList
<1>12. IsStripped(lines, marked, kept)
  BY <1>6, <1>7, <1>9, <1>11 DEF IsStripped
<1> QED
  BY <1>2, <1>12

LEMMA ChromeAsOften ==
  ASSUME NEW lines, IsList(lines), NEW competitor, NEW x, x.k = "copy"
  PROVE  ExistsBijection(Occurs(StripChrome(lines, competitor), x), Occurs(lines, x))
<1>1. PICK marked, kept : /\ StripChrome(lines, competitor) = Picked(marked, kept)
                          /\ IsStripped(lines, marked, kept)
  BY HowStripped
<1>2. IsList(marked) /\ Len(marked) = Len(lines)
  BY <1>1 DEF IsStripped
<1>3. Occurs(marked, x) = Occurs(lines, x)
  BY <1>1, <1>2 DEF IsStripped, Occurs
<1>4. Occurs(marked, x) \subseteq kept
  BY <1>1, <1>3 DEF IsStripped, Occurs
<1>5. ExistsBijection(Occurs(Picked(marked, kept), x), Occurs(marked, x))
  BY <1>2, <1>4, PickedAsOften
<1> QED
  BY <1>1, <1>3, <1>5

\* stripLeadingHeader takes blank lines, lines of the page's header and labels,
\* from the first line on without a gap.
IsOpened(lines, above, name) ==
    /\ \A i \in 1 .. Len(lines) : i \in above =>
           lines[i].k \in {"blank", "header"} \/ LooksLikeLabel(lines[i])
    /\ \A i \in 1 .. Len(lines) : i \in above => 1 .. i \subseteq above
    /\ \A i \in 1 .. Len(lines) : i \in above /\ LooksLikeLabel(lines[i]) =>
           \E h \in above \cap 1 .. Len(lines) : LooksLikeLabel(lines[h]) /\ name = lines[h].text

LEMMA HowOpened ==
  ASSUME NEW lines, IsList(lines)
  PROVE  \E above : /\ StripLeadingHeader(lines).rest = Picked(lines, (1 .. Len(lines)) \ above)
                    /\ IsOpened(lines, above, StripLeadingHeader(lines).name)
<1> DEFINE all == 1 .. Len(lines)
           labels == {i \in all : LooksLikeLabel(lines[i])}
           headers == {i \in all : lines[i].k = "header"}
           preamble(i) == \E h \in headers :
                              /\ h < i /\ \A g \in headers : g < i => g <= h
                              /\ Cardinality({j \in labels : h < j /\ j < i}) < MaxLabels
           sweeps(i) == lines[i].k \in {"blank", "header"} \/ (i \in labels /\ preamble(i))
           above == {i \in all : \A j \in 1 .. i : sweeps(j)}
           name == IF labels \cap above = {} THEN Null ELSE lines[Max(labels \cap above)].text
<1>1. StripLeadingHeader(lines).rest = Picked(lines, all \ above) /\ StripLeadingHeader(lines).name = name
  BY DEF StripLeadingHeader
<1>2. Len(lines) \in Nat
  BY ListIsSeq
<1> HIDE DEF preamble
<1>3. \A i \in all : i \in above =>
          lines[i].k \in {"blank", "header"} \/ LooksLikeLabel(lines[i])
  <2>1. \A i \in all : i \in 1 .. i
    BY <1>2
  <2> QED
    BY <2>1
<1>4. \A i \in all : i \in above => 1 .. i \subseteq above
  BY <1>2
<1>5. labels \cap above # {} => \E h \in labels \cap above : name = lines[h].text
  <2> DEFINE S == labels \cap above
  <2>1. S \subseteq Nat /\ IsFiniteSet(S)
    <3>1. IsFiniteSet(1 .. Len(lines)) /\ S \subseteq 1 .. Len(lines)
      BY <1>2, FS_Interval
    <3> HIDE DEF S
    <3>2. IsFiniteSet(S)
      BY <3>1, FS_Subset
    <3> QED
      BY <1>2, <3>1, <3>2
  <2> HIDE DEF S
  <2>2. S # {} => Max(S) \in S
    <3>1. SUFFICES ASSUME S # {} PROVE Max(S) \in S
      OBVIOUS
    <3>2. \E i \in S : \A j \in S : j <= i
      <4> DEFINE v == [i \in S |-> i]
      <4>1. \A i \in S : v[i] \in Int
        BY <2>1
      <4>2. \E high \in S : \A i \in S : v[i] <= v[high]
        BY <2>1, <3>1, <4>1, Extremes
      <4> QED
        BY <4>2
    <3> QED
      BY <3>2 DEF Max
  <2> QED
    BY <2>2 DEF S
<1> HIDE DEF sweeps, above, name
<1>6. IsOpened(lines, above, name)
  <2>1. \A i \in all : i \in above /\ LooksLikeLabel(lines[i]) =>
            \E h \in above \cap all : LooksLikeLabel(lines[h]) /\ name = lines[h].text
    BY <1>5
  <2> QED
    BY <2>1, <1>3, <1>4 DEF IsOpened
<1> QED
  BY <1>1, <1>6

LEMMA HeaderAsOften ==
  ASSUME NEW lines, IsList(lines), NEW x, x.k = "copy"
  PROVE  ExistsBijection(Occurs(StripLeadingHeader(lines).rest, x), Occurs(lines, x))
<1>1. PICK above : /\ StripLeadingHeader(lines).rest = Picked(lines, (1 .. Len(lines)) \ above)
                   /\ IsOpened(lines, above, StripLeadingHeader(lines).name)
  BY HowOpened
<1>2. Occurs(lines, x) \subseteq (1 .. Len(lines)) \ above
  BY <1>1 DEF IsOpened, Occurs, LooksLikeLabel
<1> QED
  BY <1>1, <1>2, PickedAsOften

\* The review: an ad for every part that is not skipped, each once, under the
\* name of its own header or else the one above the first ad.
IsReviewed(all, found, above, parsed, skipped, at) ==
    /\ IsList(all)
    /\ \A k \in 1 .. Len(all) :
           LET own == CapturedName(found.parts[at[k]])
           IN  /\ at[k] \in 1 .. Len(parsed) /\ all[k].parsed = parsed[at[k]]
               /\ all[k].page = IF own # Null THEN own ELSE above
    /\ \A j, k \in 1 .. Len(all) : at[j] = at[k] => j = k
    /\ \A i \in 1 .. Len(parsed) : i \in skipped \/ \E k \in 1 .. Len(all) : at[k] = i

LEMMA HowReviewed ==
  ASSUME NEW found, NEW above, NEW parsed, IsList(parsed), NEW skipped, NEW competitor, NEW aliases
  PROVE  \E at : IsReviewed(ReviewParts(found, above, parsed, skipped, competitor, aliases).candidates,
                            found, above, parsed, skipped, at)
<1> DEFINE D == DOMAIN parsed
           places == [i \in D |-> i]
           chosen == IF skipped = D THEN skipped ELSE D \ skipped
           kept == Picked(places, chosen)
           Name(own) == IF own # Null THEN own ELSE above
           ads == [k \in DOMAIN kept |-> parsed[kept[k]]]
           names == [k \in DOMAIN kept |-> Name(CapturedName(found.parts[kept[k]]))]
           all == Candidates(ads, names, found.at, competitor, aliases)
<1>1. D = 1 .. Len(parsed) /\ Len(parsed) \in Nat
  BY ListIsSeq
<1>2. IsList(places) /\ Len(places) = Len(parsed)
  BY <1>1, MadeIsList
<1>3. PICK at : HowPicked(places, chosen, Len(places), kept, at)
  BY <1>2, PickedProperties
<1>4. Len(kept) \in Nat /\ DOMAIN kept = 1 .. Len(kept)
  BY <1>2, PickedProperties, ListIsSeq
<1>5. all = ReviewParts(found, above, parsed, skipped, competitor, aliases).candidates
  BY DEF ReviewParts
<1> HIDE DEF kept
<1>6. \A k \in 1 .. Len(kept) : at[k] \in 1 .. Len(parsed) /\ kept[k] = at[k]
  BY <1>1, <1>2, <1>3 DEF HowPicked
<1>7. \A j, k \in 1 .. Len(kept) : at[j] = at[k] => j = k
  <2>1. \A k \in 1 .. Len(kept) : at[k] \in Nat
    BY <1>6
  <2> QED
    BY <1>3, <1>4, <2>1 DEF HowPicked
<1>8. \A i \in 1 .. Len(parsed) : i \in skipped \/ \E k \in 1 .. Len(kept) : at[k] = i
  <2>1. \A i \in 1 .. Len(parsed) : i \in skipped \/ i \in chosen
    BY <1>1
  <2> HIDE DEF chosen, places
  <2> QED
    BY <1>2, <1>3, <2>1 DEF HowPicked
<1> HIDE DEF D, chosen
<1>9. \A k \in 1 .. Len(kept) :
          /\ ads[k] = parsed[at[k]]
          /\ names[k] = Name(CapturedName(found.parts[at[k]]))
  BY <1>4, <1>6
<1>10. DOMAIN ads = 1 .. Len(kept)
  BY <1>4
<1> HIDE DEF ads, names
<1>11. /\ all = [k \in 1 .. Len(kept) |-> all[k]]
       /\ \A k \in 1 .. Len(kept) : all[k].parsed = ads[k] /\ all[k].page = names[k]
  BY <1>10 DEF Candidates
<1> HIDE DEF all
<1>12. IsList(all) /\ Len(all) = Len(kept)
  BY <1>4, <1>11, MadeIsList
<1>13. IsReviewed(all, found, above, parsed, skipped, at)
  BY <1>6, <1>7, <1>8, <1>9, <1>11, <1>12 DEF IsReviewed
<1> QED
  BY <1>5, <1>13

\* A part with copy that hits a theme of the ads' is an ad.
IsNoAd(ad) == Completeness(ad).status \in {"malformed", "empty"} \/ IsLinkCard(ad)

LEMMA CopyIsNotSkipped ==
  ASSUME NEW text, IsList(text), NEW x, Solid(x), Occurs(text, x) # {}
  PROVE  ~IsNoAd(ParseAd(text))
<1> DEFINE parsed == ParseAd(text)
<1>1. PICK i \in 1 .. Len(text) : text[i] = x
  BY DEF Occurs
<1>2. text[i].k = "copy" /\ text[i].says \cap AdThemes # {}
  BY <1>1 DEF Solid
<1>3. parsed.raw = text /\ parsed.mode = ParseMode(text) /\ parsed.says = Themes(Kept(text))
  BY DEF ParseAd
<1>4. parsed.mode \in {"labeled", "native"}
  BY <1>2, <1>3 DEF ParseMode
<1>5. parsed.mode = "native" => parsed.hook
  BY <1>2, <1>3 DEF ParseAd
<1>6. text[i].says \subseteq parsed.says
  <2> DEFINE places == {j \in 1 .. Len(text) : ~IsDisclaimed(text, text[j])}
             p == Kept(text)
  <2>1. i \in places /\ p = Picked(text, places)
    BY <1>2 DEF IsDisclaimed, Kept
  <2> HIDE DEF places, p
  <2>2. text[i] \in Members(p)
    BY <2>1, PickedMembers
  <2>3. PICK j \in 1 .. Len(p) : p[j] = text[i]
    BY <2>2 DEF Members
  <2>4. Themed(p[j])
    BY <2>3, <1>2 DEF Themed
  <2>5. p[j].says \subseteq Themes(p)
    BY <2>4 DEF Themes
  <2> QED
    BY <2>3, <2>5, <1>3 DEF p
<1>7. parsed.says # {} /\ parsed.says \cap AdThemes # {}
  BY <1>2, <1>6
<1>8. ~Fragment(parsed)
  BY <1>2, <1>3 DEF Fragment
<1>9. parsed.mode = "native" => "Hook" \in DetectedFields(parsed)
  BY <1>5 DEF DetectedFields
<1> HIDE DEF parsed
<1>10. Completeness(parsed).status \in {"complete", "partial"}
  <2>1. CASE parsed.mode = "labeled"
    BY <2>1, <1>7, <1>8 DEF Completeness
  <2>2. CASE parsed.mode # "labeled"
    <3>1. DetectedFields(parsed) # {}
      BY <2>2, <1>4, <1>9
    <3> QED
      BY <2>2, <3>1, <1>8 DEF Completeness
  <2> QED
    BY <2>1, <2>2
<1>11. ~IsLinkCard(parsed)
  BY <1>7 DEF IsLinkCard
<1> QED
  BY <1>10, <1>11 DEF parsed, IsNoAd

LEMMA UnmarkedAsOften ==
  ASSUME NEW part, IsList(part), NEW x, x.k = "copy"
  PROVE  /\ IsList(Unmarked(part)) /\ Members(Unmarked(part)) \subseteq Members(part)
         /\ ExistsBijection(Occurs(Unmarked(part), x), Occurs(part, x))
<1> DEFINE places == {i \in 1 .. Len(part) : part[i].k # "marker"}
           p == Picked(part, places)
<1>1. IsList(p) /\ Members(p) \subseteq Members(part)
  BY PickedWithin
<1>2. Occurs(part, x) \subseteq places
  BY DEF Occurs
<1>3. ExistsBijection(Occurs(p, x), Occurs(part, x))
  <2> HIDE DEF places
  <2> QED
    BY <1>2, PickedAsOften
<1> HIDE DEF p
<1>4. /\ IsList(Trimmed(p)) /\ Members(Trimmed(p)) \subseteq Members(p)
      /\ ExistsBijection(Occurs(Trimmed(p), x), Occurs(p, x))
  BY <1>1, TrimmedIsList, TrimmedAsOften
<1>5. ExistsBijection(Occurs(Trimmed(p), x), Occurs(part, x))
  BY <1>3, <1>4, Fun_ExistsBijTransitive
<1> QED
  BY <1>1, <1>4, <1>5 DEF Unmarked, p

\* processPageDump: the candidates are the texts of the parts that are ads.
IsProcessed(lines, competitor, all, parts, above, at) ==
    LET opened == StripLeadingHeader(lines)
    IN  /\ parts = DetectBoundaries(StripChrome(opened.rest, competitor)).parts
        /\ above = opened.name
        /\ AreLists(parts) /\ IsList(all)
        /\ \A k \in 1 .. Len(all) :
               LET own == CapturedName(parts[at[k]])
               IN  /\ at[k] \in 1 .. Len(parts) /\ all[k].parsed.raw = Unmarked(parts[at[k]])
                   /\ all[k].page = IF own # Null THEN own ELSE above
        /\ \A j, k \in 1 .. Len(all) : at[j] = at[k] => j = k
        /\ \A i \in 1 .. Len(parts) :
               IsNoAd(ParseAd(Unmarked(parts[i]))) \/ \E k \in 1 .. Len(all) : at[k] = i

LEMMA HowProcessed ==
  ASSUME NEW lines, IsList(lines), NEW competitor, NEW aliases
  PROVE  \E parts, above, at :
             IsProcessed(lines, competitor, ProcessPageDump(lines, competitor, aliases).candidates,
                         parts, above, at)
<1> DEFINE opened == StripLeadingHeader(lines)
           found == DetectBoundaries(StripChrome(opened.rest, competitor))
           parts == found.parts
           parsed == [i \in DOMAIN parts |-> ParseAd(Unmarked(parts[i]))]
           skipped == SkippedParts(parsed)
           all == ReviewParts(found, opened.name, parsed, skipped, competitor, aliases).candidates
<1>1. AreLists(parts)
  BY HeaderIsList, ChromeIsList, BoundariesAreLists
<1>2. DOMAIN parts = 1 .. Len(parts) /\ Len(parts) \in Nat
  BY <1>1, ListIsSeq DEF AreLists
<1>3. /\ parsed = [i \in 1 .. Len(parts) |-> parsed[i]]
      /\ \A i \in 1 .. Len(parts) : parsed[i] = ParseAd(Unmarked(parts[i]))
  BY <1>2
<1>4. all = ProcessPageDump(lines, competitor, aliases).candidates
  BY DEF ProcessPageDump
<1> HIDE DEF parsed
<1>5. IsList(parsed) /\ Len(parsed) = Len(parts)
  BY <1>2, <1>3, MadeIsList
<1> HIDE DEF skipped, found
<1>6. PICK at : IsReviewed(all, found, opened.name, parsed, skipped, at)
  BY <1>5, HowReviewed
<1> HIDE DEF all
<1>7. \A k \in 1 .. Len(all) :
          LET own == CapturedName(parts[at[k]])
          IN  /\ at[k] \in 1 .. Len(parts) /\ all[k].parsed.raw = Unmarked(parts[at[k]])
              /\ all[k].page = IF own # Null THEN own ELSE opened.name
  <2>1. TAKE k \in 1 .. Len(all)
  <2>2. /\ at[k] \in 1 .. Len(parsed) /\ all[k].parsed = parsed[at[k]]
        /\ all[k].page = IF CapturedName(parts[at[k]]) # Null THEN CapturedName(parts[at[k]])
                         ELSE opened.name
    BY <1>6 DEF IsReviewed
  <2>3. all[k].parsed = ParseAd(Unmarked(parts[at[k]])) /\ at[k] \in 1 .. Len(parts)
    BY <1>3, <1>5, <2>2
  <2> QED
    BY <2>2, <2>3, ParsedRaw
<1>8. \A i \in 1 .. Len(parts) :
          IsNoAd(ParseAd(Unmarked(parts[i]))) \/ \E k \in 1 .. Len(all) : at[k] = i
  <2>1. TAKE i \in 1 .. Len(parts)
  <2>2. i \in skipped \/ \E k \in 1 .. Len(all) : at[k] = i
    BY <1>5, <1>6 DEF IsReviewed
  <2>3. i \in skipped => IsNoAd(parsed[i])
    BY DEF skipped, SkippedParts, IsNoAd
  <2> QED
    BY <1>3, <2>2, <2>3
<1>9. IsProcessed(lines, competitor, all, parts, opened.name, at)
  BY <1>1, <1>6, <1>7, <1>8 DEF IsProcessed, IsReviewed, found
<1> QED
  BY <1>4, <1>9

\* The texts of the candidates, one after the other.
Texts(all) == [k \in 1 .. Len(all) |-> all[k].parsed.raw]

LEMMA CandidatesAsOften ==
  ASSUME NEW lines, IsList(lines), NEW competitor, NEW aliases, NEW x, Solid(x)
  PROVE  LET texts == Texts(ProcessPageDump(lines, competitor, aliases).candidates)
         IN  ExistsBijection(Occurs(Joined(texts), x), Occurs(lines, x))
<1> DEFINE all == ProcessPageDump(lines, competitor, aliases).candidates
           texts == Texts(all)
           rest == StripLeadingHeader(lines).rest
           stripped == StripChrome(rest, competitor)
<1>1. PICK parts, above, at : IsProcessed(lines, competitor, all, parts, above, at)
  BY HowProcessed
<1>2. x.k = "copy"
  BY DEF Solid
<1>3. IsList(rest) /\ ExistsBijection(Occurs(rest, x), Occurs(lines, x))
  BY <1>2, HeaderIsList, HeaderAsOften
<1> HIDE DEF rest
<1>4. IsList(stripped) /\ ExistsBijection(Occurs(stripped, x), Occurs(rest, x))
  BY <1>2, <1>3, ChromeIsList, ChromeAsOften
<1> HIDE DEF stripped
<1>5. ExistsBijection(Spots(parts, x), Occurs(stripped, x))
  <2>1. parts = DetectBoundaries(stripped).parts
    BY <1>1 DEF IsProcessed, stripped, rest
  <2> QED
    BY <2>1, <1>2, <1>4, BoundariesAsOften
<1>6. ExistsBijection(Spots(parts, x), Occurs(lines, x))
  BY <1>3, <1>4, <1>5, Fun_ExistsBijTransitive
<1> HIDE DEF all
<1>7. /\ IsList(parts) /\ Len(parts) \in Nat /\ \A i \in 1 .. Len(parts) : IsList(parts[i])
      /\ IsList(all) /\ Len(all) \in Nat
  <2>1. AreLists(parts) /\ IsList(all)
    BY <1>1 DEF IsProcessed
  <2> QED
    BY <2>1, ListIsSeq DEF AreLists, Members
<1> DEFINE raws == [i \in 1 .. Len(parts) |-> Unmarked(parts[i])]
<1>8. raws = [i \in 1 .. Len(parts) |-> raws[i]] /\ \A i \in 1 .. Len(parts) : raws[i] = Unmarked(parts[i])
  OBVIOUS
<1> HIDE DEF raws
<1>9. IsList(raws) /\ Len(raws) = Len(parts)
  BY <1>7, <1>8, MadeIsList
<1>10. \A i \in 1 .. Len(parts) :
           IsList(raws[i]) /\ ExistsBijection(Occurs(raws[i], x), Occurs(parts[i], x))
  BY <1>2, <1>7, <1>8, UnmarkedAsOften
<1>11. ExistsBijection(Spots(raws, x), Spots(parts, x))
  BY <1>7, <1>9, <1>10, EachAsOften
<1>12. IsList(texts) /\ Len(texts) = Len(all) /\ \A k \in 1 .. Len(all) : texts[k] = all[k].parsed.raw
  <2>1. texts = [k \in 1 .. Len(all) |-> texts[k]] /\ \A k \in 1 .. Len(all) : texts[k] = all[k].parsed.raw
    BY DEF Texts
  <2> HIDE DEF texts
  <2> QED
    BY <2>1, <1>7, MadeIsList
<1> HIDE DEF texts
<1>13. \A k \in 1 .. Len(all) : at[k] \in 1 .. Len(raws) /\ texts[k] = raws[at[k]]
  BY <1>1, <1>8, <1>9, <1>12 DEF IsProcessed
<1>14. \A i \in 1 .. Len(raws) : Occurs(raws[i], x) # {} => \E k \in 1 .. Len(texts) : at[k] = i
  <2>1. TAKE i \in 1 .. Len(raws)
  <2>2. HAVE Occurs(raws[i], x) # {}
  <2>3. ~IsNoAd(ParseAd(raws[i]))
    BY <2>2, <1>9, <1>10, CopyIsNotSkipped
  <2>4. i \in 1 .. Len(parts) /\ raws[i] = Unmarked(parts[i])
    BY <1>8, <1>9
  <2>5. IsNoAd(ParseAd(Unmarked(parts[i]))) \/ \E k \in 1 .. Len(all) : at[k] = i
    BY <1>1, <2>4 DEF IsProcessed
  <2> QED
    BY <2>3, <2>4, <2>5, <1>12
<1>15. \A j, k \in 1 .. Len(texts) : at[j] = at[k] => j = k
  BY <1>1, <1>12 DEF IsProcessed
<1>16. ExistsBijection(Spots(texts, x), Spots(raws, x))
  <2>1. Len(raws) \in Nat /\ Len(texts) \in Nat /\ \A i \in 1 .. Len(raws) : IsList(raws[i])
    BY <1>7, <1>9, <1>10, <1>12
  <2>2. \A k \in 1 .. Len(texts) : at[k] \in 1 .. Len(raws) /\ texts[k] = raws[at[k]]
    BY <1>12, <1>13
  <2> QED
    BY <2>1, <2>2, <1>14, <1>15, ChosenAsOften
<1>17. ExistsBijection(Occurs(Joined(texts), x), Spots(texts, x))
  <2>1. \A k \in 1 .. Len(texts) : IsList(texts[k])
    BY <1>9, <1>10, <1>12, <1>13
  <2> QED
    BY <2>1, <1>12, JoinedAsOften
<1>18. ExistsBijection(Occurs(Joined(texts), x), Spots(parts, x))
  BY <1>11, <1>16, <1>17, Fun_ExistsBijTransitive
<1>19. ExistsBijection(Occurs(Joined(texts), x), Occurs(lines, x))
  BY <1>6, <1>18, Fun_ExistsBijTransitive
<1> QED
  BY <1>19 DEF texts, all

-----------------------------------------------------------------------------
(* A line of copy in a dump: under no name but its own.                    *)
Borders == {"blank", "rule", "cta"}

\* The marker of a card's header is above its copy, without a border between.
IsMarked(lines) ==
    \A i \in 1 .. Len(lines) : Solid(lines[i]) =>
        \E h \in 1 .. i : /\ lines[h] = Marker(lines[i].of)
                          /\ \A j \in h .. i : lines[j].k \notin Borders

LEMMA PickedMarked ==
  ASSUME NEW lines, IsList(lines), NEW places,
         \A i \in places \cap 1 .. Len(lines) : Solid(lines[i]) =>
             \E h \in places \cap 1 .. i : /\ lines[h] = Marker(lines[i].of)
                                           /\ \A j \in places \cap h .. i : lines[j].k \notin Borders
  PROVE  IsMarked(Picked(lines, places))
<1> DEFINE p == Picked(lines, places)
<1>1. PICK at : HowPicked(lines, places, Len(lines), p, at)
  BY PickedProperties
<1>2. Len(p) \in Nat /\ Len(lines) \in Nat
  BY PickedProperties, ListIsSeq
<1> HIDE DEF p
<1>3. \A k \in 1 .. Len(p) : /\ at[k] \in 1 .. Len(lines) /\ at[k] \in Nat /\ at[k] \in places
                             /\ p[k] = lines[at[k]]
  BY <1>1, <1>2 DEF HowPicked
<1>4. \A j, k \in 1 .. Len(p) : j < k => at[j] < at[k]
  BY <1>1 DEF HowPicked
<1>5. \A i \in 1 .. Len(lines) : i \in places => \E k \in 1 .. Len(p) : at[k] = i
  BY <1>1 DEF HowPicked
<1>6. ASSUME NEW k \in 1 .. Len(p), Solid(p[k])
      PROVE  \E h \in 1 .. k : /\ p[h] = Marker(p[k].of)
                               /\ \A j \in h .. k : p[j].k \notin Borders
  <2>1. PICK g \in places \cap 1 .. at[k] :
            /\ lines[g] = Marker(p[k].of)
            /\ \A j \in places \cap g .. at[k] : lines[j].k \notin Borders
    BY <1>3, <1>6
  <2>2. PICK h \in 1 .. Len(p) : at[h] = g
    BY <1>2, <1>3, <1>5, <2>1
  <2>3. h \in 1 .. k
    <3>1. ~(k < h)
      BY <1>3, <1>4, <2>1, <2>2
    <3> QED
      BY <1>2, <3>1
  <2>4. ASSUME NEW j \in h .. k PROVE p[j].k \notin Borders
    <3>1. j \in 1 .. Len(p)
      BY <1>2, <2>3
    <3>2. at[h] <= at[j] /\ at[j] <= at[k]
      <4>1. h = j \/ h < j
        BY <2>3
      <4>2. j = k \/ j < k
        BY <2>3
      <4> QED
        BY <1>3, <1>4, <3>1, <4>1, <4>2
    <3>3. at[j] \in places \cap g .. at[k]
      BY <1>3, <2>1, <2>2, <3>1, <3>2
    <3> QED
      BY <1>3, <2>1, <3>1, <3>3
  <2> QED
    BY <1>3, <2>1, <2>2, <2>3, <2>4
<1>7. IsMarked(p)
  BY <1>6 DEF IsMarked
<1> QED
  BY <1>7 DEF p

LEMMA TrimmedMarked ==
  ASSUME NEW lines, IsList(lines), IsMarked(lines)
  PROVE  IsMarked(Trimmed(lines))
<1> DEFINE solid == {i \in 1 .. Len(lines) : lines[i].k # "blank"}
           places == {i \in 1 .. Len(lines) : \E a, b \in solid : a <= i /\ i <= b}
<1>1. Len(lines) \in Nat
  BY ListIsSeq
<1>2. solid \subseteq places
  <2>1. \A i \in solid : i \in 1 .. Len(lines) /\ i <= i
    BY <1>1
  <2> QED
    BY <2>1
<1>3. ASSUME NEW i \in places \cap 1 .. Len(lines), Solid(lines[i])
      PROVE  \E h \in places \cap 1 .. i : /\ lines[h] = Marker(lines[i].of)
                                           /\ \A j \in places \cap h .. i : lines[j].k \notin Borders
  <2>1. PICK h \in 1 .. i : /\ lines[h] = Marker(lines[i].of)
                            /\ \A j \in h .. i : lines[j].k \notin Borders
    BY <1>3 DEF IsMarked
  <2>2. h \in solid
    BY <1>1, <2>1 DEF Marker
  <2> HIDE DEF solid, places
  <2> QED
    BY <1>2, <2>1, <2>2
<1> HIDE DEF places
<1>4. IsMarked(Picked(lines, places))
  BY <1>3, PickedMarked
<1> QED
  BY <1>4 DEF Trimmed, places

\* stripChromeLines marks the copy of cards that show whose they are.
LEMMA ChromeMarked ==
  ASSUME NEW lines, IsList(lines), \A i \in 1 .. Len(lines) : Solid(lines[i]) => IsHeaded(lines, i),
         NEW competitor
  PROVE  IsMarked(StripChrome(lines, competitor))
<1>1. PICK marked, kept : /\ StripChrome(lines, competitor) = Picked(marked, kept)
                          /\ IsStripped(lines, marked, kept)
  BY HowStripped
<1>2. IsList(marked) /\ Len(marked) = Len(lines) /\ Len(lines) \in Nat
  BY <1>1, ListIsSeq DEF IsStripped
<1>3. \A i \in 1 .. Len(lines) : lines[i].k \notin Borders => marked[i].k \notin Borders
  BY <1>1 DEF IsStripped, Borders
<1>4. ASSUME NEW i \in kept \cap 1 .. Len(marked), Solid(marked[i])
      PROVE  \E g \in kept \cap 1 .. i : /\ marked[g] = Marker(marked[i].of)
                                         /\ \A j \in kept \cap g .. i : marked[j].k \notin Borders
  <2>1. marked[i] = lines[i] /\ i \in 1 .. Len(lines)
    BY <1>1, <1>2, <1>4 DEF IsStripped, Solid
  <2>2. PICK h \in 1 .. i - 1 :
            /\ Heads(lines, h) /\ lines[h].text = lines[i].of
            /\ \A j \in h .. i : lines[j].k \notin Borders
    BY <1>4, <2>1 DEF IsHeaded, Heads, Borders
  <2>3. h \in 1 .. Len(lines) - 1
    BY <1>2, <2>1
  <2>4. PICK g \in 1 .. h : /\ g \in kept /\ marked[g] = Marker(lines[h].text)
                            /\ g = h \/ (g = h - 1 /\ lines[g].k = "sponsored")
    BY <1>1, <2>2, <2>3 DEF IsStripped
  <2>5. ASSUME NEW j \in g .. i PROVE marked[j].k \notin Borders
    <3>1. j \in 1 .. Len(lines)
      BY <1>2, <2>1, <2>3, <2>4
    <3>2. j \in h .. i \/ (j = g /\ lines[j].k = "sponsored")
      BY <2>3, <2>4
    <3>3. lines[j].k \notin Borders
      BY <2>2, <3>2 DEF Borders
    <3> QED
      BY <1>3, <3>1, <3>3
  <2> QED
    BY <2>1, <2>2, <2>3, <2>4, <2>5
<1>5. IsMarked(Picked(marked, kept))
  BY <1>2, <1>4, PickedMarked
<1> QED
  BY <1>1, <1>5

\* What is swept from the top is no line of a card, unless a label is swept.
LEMMA RestHeaded ==
  ASSUME NEW lines, IsList(lines), \A i \in 1 .. Len(lines) : Solid(lines[i]) => IsHeaded(lines, i),
         \A i \in 1 .. Len(lines) : LooksLikeLabel(lines[i]) => lines[i].text # Null,
         StripLeadingHeader(lines).name = Null
  PROVE  LET rest == StripLeadingHeader(lines).rest
         IN  \A k \in 1 .. Len(rest) : Solid(rest[k]) => IsHeaded(rest, k)
<1> DEFINE rest == StripLeadingHeader(lines).rest
<1>1. PICK above : /\ rest = Picked(lines, (1 .. Len(lines)) \ above)
                   /\ IsOpened(lines, above, Null)
  BY HowOpened
<1>2. \A i \in 1 .. Len(lines) : i \in above => ~LooksLikeLabel(lines[i])
  BY <1>1 DEF IsOpened
<1>3. \A i \in 1 .. Len(lines) : i \in above => lines[i].k \in {"blank", "header"} /\ 1 .. i \subseteq above
  BY <1>1, <1>2 DEF IsOpened
<1> DEFINE places == (1 .. Len(lines)) \ above
<1>4. PICK at : HowPicked(lines, places, Len(lines), rest, at)
  BY <1>1, PickedProperties
<1>5. Len(rest) \in Nat /\ Len(lines) \in Nat
  BY <1>1, PickedProperties, ListIsSeq
<1> HIDE DEF rest
<1>6. \A k \in 1 .. Len(rest) : /\ at[k] \in 1 .. Len(lines) /\ at[k] \in Nat /\ at[k] \notin above
                                /\ rest[k] = lines[at[k]]
  BY <1>4, <1>5 DEF HowPicked
<1>7. \A j, k \in 1 .. Len(rest) : j < k => at[j] < at[k]
  BY <1>4 DEF HowPicked
<1>8. \A i \in 1 .. Len(lines) : i \in above \/ \E k \in 1 .. Len(rest) : at[k] = i
  BY <1>4 DEF HowPicked
<1>9. ASSUME NEW k \in 1 .. Len(rest), Solid(rest[k]) PROVE IsHeaded(rest, k)
  <2>1. PICK g \in 1 .. at[k] - 1 :
            /\ lines[g].k = "sponsoredBy" \/ (LooksLikeLabel(lines[g]) /\ lines[g + 1].k = "sponsored")
            /\ lines[g].text = rest[k].of
            /\ \A j \in g .. at[k] : lines[j].k \notin {"blank", "rule", "cta"}
    BY <1>6, <1>9 DEF IsHeaded
  <2>2. g \in 1 .. Len(lines) /\ g \in Nat /\ g + 1 <= at[k]
    BY <1>5, <1>6, <2>1
  <2>3. g \notin above
    BY <1>3, <2>1, <2>2 DEF LooksLikeLabel
  <2>4. PICK h \in 1 .. Len(rest) : at[h] = g
    BY <1>8, <2>2, <2>3
  <2>5. h \in 1 .. k - 1
    <3>1. ~(k < h) /\ k # h
      BY <1>6, <1>7, <2>2, <2>4
    <3> QED
      BY <1>5, <3>1
  <2>6. at[h + 1] = g + 1 /\ h + 1 \in 1 .. Len(rest)
    <3>1. h + 1 \in 1 .. Len(rest) /\ h < h + 1
      BY <1>5, <2>5
    <3>2. g + 1 \in 1 .. Len(lines) /\ g + 1 \notin above
      <4>1. g + 1 \in 1 .. Len(lines) /\ g \in 1 .. g + 1
        BY <1>5, <1>6, <2>2
      <4> QED
        BY <1>3, <2>3, <4>1
    <3>3. PICK m \in 1 .. Len(rest) : at[m] = g + 1
      BY <1>8, <3>2
    <3>4. ~(h + 1 < m)
      <4>1. at[h] < at[h + 1]
        BY <1>7, <3>1
      <4>2. SUFFICES ASSUME h + 1 < m PROVE FALSE
        OBVIOUS
      <4>3. at[h + 1] < at[m]
        BY <1>7, <3>1, <4>2
      <4> QED
        BY <1>6, <2>2, <2>4, <3>1, <3>3, <4>1, <4>3
    <3>5. ~(m < h) /\ m # h
      BY <1>6, <1>7, <2>2, <2>4, <3>3
    <3>6. m = h + 1
      BY <1>5, <3>4, <3>5
    <3> QED
      BY <3>1, <3>3, <3>6
  <2>7. ASSUME NEW j \in h .. k PROVE rest[j].k \notin {"blank", "rule", "cta"}
    <3>1. j \in 1 .. Len(rest)
      BY <1>5, <2>5
    <3>2. at[h] <= at[j] /\ at[j] <= at[k]
      <4>1. h = j \/ h < j
        BY <2>5
      <4>2. j = k \/ j < k
        BY <2>5
      <4> QED
        BY <1>6, <1>7, <3>1, <4>1, <4>2
    <3>3. at[j] \in g .. at[k]
      BY <1>6, <2>2, <2>4, <3>1, <3>2
    <3> QED
      BY <1>6, <2>1, <3>1, <3>3
  <2>8. rest[h] = lines[g] /\ rest[h + 1] = lines[g + 1]
    BY <1>6, <2>4, <2>6
  <2> QED
    BY <2>1, <2>5, <2>7, <2>8 DEF IsHeaded
<1> QED
  BY <1>9 DEF rest

\* A part names whose its copy is: the marker is in it too.
IsNamed(part) == \A x \in Members(part) : Solid(x) => Marker(x.of) \in Members(part)

LEMMA StretchNamed ==
  ASSUME NEW lines, IsList(lines), IsMarked(lines), NEW borders,
         \A i \in borders : i \in 1 .. Len(lines) /\ lines[i].k \in Borders,
         NEW cut, cut \subseteq borders, NEW n
  PROVE  IsNamed(Picked(lines, Stretch(lines, borders, n) \ cut))
<1> DEFINE places == Stretch(lines, borders, n) \ cut
           p == Picked(lines, places)
<1>1. Members(p) = {lines[i] : i \in places \cap 1 .. Len(lines)} /\ Len(lines) \in Nat
  BY PickedMembers, ListIsSeq
<1> HIDE DEF p
<1>2. ASSUME NEW i \in places, i \in 1 .. Len(lines), Solid(lines[i])
      PROVE  Marker(lines[i].of) \in Members(p)
  <2>1. PICK h \in 1 .. i : /\ lines[h] = Marker(lines[i].of)
                            /\ \A j \in h .. i : lines[j].k \notin Borders
    BY <1>2 DEF IsMarked
  <2>2. h \in 1 .. Len(lines) /\ h \in h .. i
    BY <1>1, <1>2, <2>1
  <2>3. h \notin borders
    BY <2>1, <2>2
  <2>4. {b \in borders : b < h} = {b \in borders : b < i}
    <3>1. ASSUME NEW b \in borders PROVE b < h <=> b < i
      <4>1. b \in 1 .. Len(lines) /\ b \notin h .. i
        BY <2>1
      <4> QED
        BY <1>1, <1>2, <2>1, <4>1
    <3> QED
      BY <3>1
  <2>5. h \in places
    BY <1>2, <2>2, <2>3, <2>4 DEF Stretch
  <2> QED
    BY <1>1, <2>1, <2>2, <2>5
<1>3. IsNamed(p)
  BY <1>1, <1>2 DEF IsNamed
<1> QED
  BY <1>3 DEF p

LEMMA TrimmedNamed ==
  ASSUME NEW part, IsList(part), IsNamed(part)
  PROVE  IsNamed(Trimmed(part))
<1> DEFINE solid == {i \in 1 .. Len(part) : part[i].k # "blank"}
           places == {i \in 1 .. Len(part) : \E a, b \in solid : a <= i /\ i <= b}
           p == Picked(part, places)
<1>1. Members(p) = {part[i] : i \in places \cap 1 .. Len(part)} /\ Len(part) \in Nat
  BY PickedMembers, ListIsSeq
<1>2. solid \subseteq places
  <2>1. \A i \in solid : i \in 1 .. Len(part) /\ i <= i
    BY <1>1
  <2> QED
    BY <2>1
<1> HIDE DEF p, places
<1>3. \A x \in Members(part) : x.k # "blank" => x \in Members(p)
  BY <1>1, <1>2 DEF Members
<1>4. \A x \in Members(p) : x \in Members(part)
  BY <1>1 DEF Members
<1>5. IsNamed(p)
  <2>1. SUFFICES ASSUME NEW x \in Members(p), Solid(x) PROVE Marker(x.of) \in Members(p)
    BY DEF IsNamed
  <2>2. Marker(x.of) \in Members(part)
    BY <2>1, <1>4 DEF IsNamed
  <2>3. Marker(x.of).k # "blank"
    BY DEF Marker
  <2> QED
    BY <1>3, <2>2, <2>3
<1> QED
  BY <1>5 DEF Trimmed, p, places

AreNamed(parts) == \A part \in Members(parts) : IsNamed(part)

LEMMA NonBlankNamed ==
  ASSUME NEW n \in Nat, NEW all, all = [k \in 1 .. n |-> all[k]], \A k \in 1 .. n : IsNamed(all[k])
  PROVE  AreNamed(NonBlank(all))
<1>1. IsList(all) /\ Len(all) = n
  BY MadeIsList
<1>2. \A part \in Members(all) : IsNamed(part)
  BY <1>1 DEF Members
<1>3. Members(NonBlank(all)) \subseteq Members(all)
  BY <1>1, NonBlankMembers
<1> QED
  BY <1>2, <1>3 DEF AreNamed

LEMMA PartsNamed ==
  ASSUME NEW lines, IsList(lines), IsMarked(lines), NEW kind \in Borders
  PROVE  AreNamed(Parts(lines, kind))
<1> DEFINE borders == {i \in 1 .. Len(lines) : lines[i].k = kind}
           n == Cardinality(borders) + 1
           Raw(k) == Picked(lines, Stretch(lines, borders, k) \ borders)
           all == [k \in 1 .. n |-> Trimmed(Raw(k))]
<1>1. n \in Nat
  BY CountIsNat
<1>2. \A i \in borders : i \in 1 .. Len(lines) /\ lines[i].k \in Borders
  OBVIOUS
<1>3. \A k \in 1 .. n : IsNamed(Trimmed(Raw(k)))
  <2>1. TAKE k \in 1 .. n
  <2>2. IsList(Raw(k))
    BY PickedMembers
  <2>3. IsNamed(Raw(k))
    <3> HIDE DEF borders
    <3> QED
      BY <1>2, StretchNamed
  <2> HIDE DEF Raw
  <2> QED
    BY <2>2, <2>3, TrimmedNamed
<1> HIDE DEF n, Raw
<1>4. all = [k \in 1 .. n |-> all[k]] /\ \A k \in 1 .. n : IsNamed(all[k])
  BY <1>3
<1> HIDE DEF all
<1>5. AreNamed(NonBlank(all))
  BY <1>1, <1>4, NonBlankNamed
<1> QED
  BY <1>5 DEF Parts, all, n, Raw

LEMMA ButtonsNamed ==
  ASSUME NEW lines, IsList(lines), IsMarked(lines)
  PROVE  AreNamed(AfterButtons(lines))
<1> DEFINE buttons == {i \in 1 .. Len(lines) : CtaLine(lines[i])}
           n == Cardinality(buttons) + 1
           Raw(k) == Picked(lines, Stretch(lines, buttons, k))
           all == [k \in 1 .. n |-> Raw(k)]
<1>1. n \in Nat
  BY CountIsNat
<1>2. \A i \in buttons : i \in 1 .. Len(lines) /\ lines[i].k \in Borders
  BY DEF CtaLine, Borders
<1>3. \A k \in 1 .. n : IsNamed(Raw(k))
  <2>1. TAKE k \in 1 .. n
  <2> DEFINE none == {}
  <2>2. Stretch(lines, buttons, k) = Stretch(lines, buttons, k) \ none /\ none \subseteq buttons
    OBVIOUS
  <2> HIDE DEF buttons, none
  <2>3. IsNamed(Picked(lines, Stretch(lines, buttons, k) \ none))
    BY <1>2, <2>2, StretchNamed
  <2> QED
    BY <2>2, <2>3
<1> HIDE DEF n, Raw
<1>4. all = [k \in 1 .. n |-> all[k]] /\ \A k \in 1 .. n : IsNamed(all[k])
  BY <1>3
<1> HIDE DEF all
<1>5. AreNamed(NonBlank(all))
  BY <1>1, <1>4, NonBlankNamed
<1> QED
  BY <1>5 DEF AfterButtons, all, n, Raw

LEMMA BoundariesNamed ==
  ASSUME NEW lines, IsList(lines), IsMarked(lines)
  PROVE  AreNamed(DetectBoundaries(lines).parts)
<1> DEFINE t == Trimmed(lines)
<1>1. IsList(t) /\ IsMarked(t)
  BY TrimmedIsList, TrimmedMarked
<1>2. AreNamed(SplitAdBlocks(lines))
  BY PartsNamed DEF SplitAdBlocks, Borders
<1> HIDE DEF t
<1>3. AreNamed(AfterButtons(t))
  BY <1>1, ButtonsNamed
<1>4. AreNamed(<<t>>)
  <2>1. IsNamed(t)
    <3>1. \A i \in 1 .. Len(t) : Solid(t[i]) => \E h \in 1 .. Len(t) : t[h] = Marker(t[i].of)
      <4>1. \A i \in 1 .. Len(t) : 1 .. i \subseteq 1 .. Len(t)
        BY <1>1, ListIsSeq
      <4> QED
        BY <1>1, <4>1 DEF IsMarked
    <3> QED
      BY <3>1 DEF IsNamed, Members
  <2>2. Members(<<t>>) = {t}
    BY DEF Members
  <2> QED
    BY <2>1, <2>2 DEF AreNamed
<1>5. AreNamed(<<>>)
  BY NoneAtAll DEF AreNamed, Members
<1> QED
  BY <1>2, <1>3, <1>4, <1>5 DEF DetectBoundaries, t

LEMMA NameIsItsOwn ==
  ASSUME NEW part, IsList(part), IsNamed(part), CapturedName(part) # Null,
         NEW x \in Members(part), Solid(x)
  PROVE  x.of = CapturedName(part)
<1> DEFINE names == MarkedNames(part)
           places == {j \in 1 .. Len(part) : part[j].k = "marker"}
           f == [i \in places |-> part[i].text]
<1>1. IsFiniteSet(places)
  <2>1. IsFiniteSet(1 .. Len(part))
    BY ListIsSeq, FS_Interval
  <2> QED
    BY <2>1, FS_Subset
<1>2. IsFiniteSet(names)
  <2>1. f \in Surjection(places, names)
    BY DEF Surjection, MarkedNames
  <2> HIDE DEF f, places, names
  <2> QED
    BY <1>1, <2>1, FS_Surjection
<1>3. x.of \in names
  <2>1. Marker(x.of) \in Members(part)
    BY DEF IsNamed
  <2>2. PICK i \in 1 .. Len(part) : part[i] = Marker(x.of)
    BY <2>1 DEF Members
  <2>3. part[i].k = "marker" /\ part[i].text = x.of
    BY <2>2 DEF Marker
  <2> QED
    BY <2>3 DEF MarkedNames
<1>4. Cardinality(names) = 1 /\ CapturedName(part) = CHOOSE m \in names : TRUE
  BY DEF CapturedName
<1> HIDE DEF names
<1>5. PICK m : names = {m}
  BY <1>2, <1>4, FS_Singleton
<1> QED
  BY <1>3, <1>4, <1>5

LEMMA CandidatesAreNamed ==
  ASSUME NEW lines, IsList(lines), NEW competitor, NEW aliases,
         \A i \in 1 .. Len(lines) : Solid(lines[i]) => IsHeaded(lines, i),
         \A i \in 1 .. Len(lines) : LooksLikeLabel(lines[i]) => lines[i].text # Null,
         StripLeadingHeader(lines).name = Null
  PROVE  LET all == ProcessPageDump(lines, competitor, aliases).candidates
         IN  \A k \in 1 .. Len(all) : all[k].page # Null =>
                 \A x \in Members(all[k].parsed.raw) : Solid(x) => x.of = all[k].page
<1> DEFINE all == ProcessPageDump(lines, competitor, aliases).candidates
           rest == StripLeadingHeader(lines).rest
           stripped == StripChrome(rest, competitor)
<1>1. PICK parts, above, at : IsProcessed(lines, competitor, all, parts, above, at)
  BY HowProcessed
<1>2. IsList(rest) /\ \A k \in 1 .. Len(rest) : Solid(rest[k]) => IsHeaded(rest, k)
  BY HeaderIsList, RestHeaded
<1>3. parts = DetectBoundaries(stripped).parts /\ above = Null /\ AreLists(parts)
  BY <1>1 DEF IsProcessed
<1> HIDE DEF rest
<1>4. IsList(stripped) /\ IsMarked(stripped)
  BY <1>2, ChromeIsList, ChromeMarked
<1> HIDE DEF stripped
<1>5. AreNamed(parts)
  BY <1>3, <1>4, BoundariesNamed
<1> HIDE DEF all
<1>6. ASSUME NEW k \in 1 .. Len(all), all[k].page # Null, NEW x \in Members(all[k].parsed.raw), Solid(x)
      PROVE  x.of = all[k].page
  <2> DEFINE part == parts[at[k]]
  <2>1. /\ at[k] \in 1 .. Len(parts) /\ all[k].parsed.raw = Unmarked(part)
        /\ all[k].page = IF CapturedName(part) # Null THEN CapturedName(part) ELSE above
    BY <1>1 DEF IsProcessed
  <2>2. IsList(part) /\ IsNamed(part)
    BY <1>3, <1>5, <2>1 DEF AreLists, AreNamed, Members
  <2> HIDE DEF part
  <2>3. all[k].page = CapturedName(part) /\ CapturedName(part) # Null
    BY <1>3, <1>6, <2>1
  <2>4. Members(Unmarked(part)) \subseteq Members(part)
    BY <1>6, <2>2, UnmarkedAsOften DEF Solid
  <2> QED
    BY <1>6, <2>1, <2>2, <2>3, <2>4, NameIsItsOwn
<1> QED
  BY <1>6 DEF all

\* The last processing was of the visit's page.
RunSound ==
    lastRun # Null =>
        /\ visit \in Visits /\ lastRun.lines = visit.dump
        /\ \E name, aliases : lastRun.out = ProcessPageDump(visit.dump, name, aliases)

LEMMA RunSteps ==
  ASSUME IInv, RunSound, [Next]_vars
  PROVE  RunSound'
<1>1. visit \in Visits /\ visit' = visit
  BY DEF IInv, Next, vars, SwitchMode, TypeName, TypeAliases, TypeNotes, Paste, ParseAds, ExtractAds,
         EditRawDump, AddBlock, UpdateBlock, RemoveBlock, ToggleBlock, TypeQuery, SearchPages,
         PagesArrive, SelectPage, FetchAds, LoadMore, AdsArrive, ToggleAd, Generate, ReportArrives,
         ClearMode, Reset, Disarm
<1>2. CASE ExtractAds
  <2>1. /\ lastRun'.lines = visit.dump
        /\ lastRun'.out = ProcessPageDump(visit.dump, Known(form.name), form.aliases)
    BY <1>2 DEF ExtractAds
  <2> QED
    BY <1>1, <2>1 DEF RunSound
<1>3. CASE UNCHANGED lastRun
  BY <1>1, <1>3 DEF RunSound
<1>4. ExtractAds \/ UNCHANGED lastRun
  BY DEF Next, vars, SwitchMode, TypeName, TypeAliases, TypeNotes, Paste, ParseAds, ExtractAds,
         EditRawDump, AddBlock, UpdateBlock, RemoveBlock, ToggleBlock, TypeQuery, SearchPages,
         PagesArrive, SelectPage, FetchAds, LoadMore, AdsArrive, ToggleAd, Generate, ReportArrives,
         ClearMode, Reset, Disarm
<1> QED
  BY <1>2, <1>3, <1>4

LEMMA RunAccounted == RunSound => DumpIsAccounted
<1> SUFFICES ASSUME RunSound, lastRun # Null PROVE DumpIsAccounted
  BY DEF DumpIsAccounted
<1> DEFINE page == visit.dump
           found == lastRun.out.candidates
           lines == Joined([i \in 1 .. Len(found) |-> found[i].parsed.raw])
<1>1. visit \in Visits /\ lastRun.lines = page
  BY DEF RunSound
<1>2. PICK name, aliases : lastRun.out = ProcessPageDump(page, name, aliases)
  BY DEF RunSound
<1>3. IsList(page) /\ \A i \in 1 .. Len(page) : LooksLikeLabel(page[i]) => page[i].text # Null
  BY <1>1, VisitAssumption
<1>4. IsList(found) /\ \A k \in 1 .. Len(found) : IsList(found[k].parsed.raw)
  BY <1>2, <1>3, ProcessedAds
<1>5. ASSUME NEW x, Solid(x) PROVE CopyCount(lines, x) = CopyCount(page, x)
  <2>1. lines = Joined(Texts(found))
    BY DEF Texts
  <2>2. ExistsBijection(Occurs(lines, x), Occurs(page, x))
    BY <1>2, <1>3, <1>5, <2>1, CandidatesAsOften
  <2> HIDE DEF lines
  <2>3. Cardinality(Occurs(lines, x)) = Cardinality(Occurs(page, x))
    BY <1>3, <2>2, AsOften
  <2> QED
    BY <2>3 DEF CopyCount, Occurs
<1>6. ASSUME \A i \in 1 .. Len(page) : Solid(page[i]) => IsHeaded(page, i),
             StripLeadingHeader(page).name = Null
      PROVE  \A i \in 1 .. Len(found) : found[i].page # Null =>
                 \A x \in ToSet(found[i].parsed.raw) : Solid(x) => x.of = found[i].page
  <2>1. \A k \in 1 .. Len(found) : found[k].page # Null =>
            \A x \in Members(found[k].parsed.raw) : Solid(x) => x.of = found[k].page
    BY <1>2, <1>3, <1>6, CandidatesAreNamed
  <2>2. \A k \in 1 .. Len(found) : ToSet(found[k].parsed.raw) = Members(found[k].parsed.raw)
    BY <1>4, MembersOf
  <2> HIDE DEF found
  <2> QED
    BY <2>1, <2>2
<1> HIDE DEF page, found, lines
<1>7. \A x \in {y \in ToSet(page) : Solid(y)} : CopyCount(lines, x) = CopyCount(page, x)
  BY <1>5
<1> QED
  BY <1>1, <1>6, <1>7 DEF DumpIsAccounted, found, lines

\* However the page of ads is cut at separators, blank lines or buttons, whatever
\* interface lines are taken out of it and whichever parts are skipped, a line of
\* copy that says what an ad is told by is in the review list as often as it was
\* pasted; and when the cards show whose they are, under no other advertiser's
\* name (pageDump.ts:423, 508).
THEOREM DumpAlwaysAccounted == Spec => []DumpIsAccounted
<1>1. Init => RunSound
  BY DEF Init, RunSound
<1>2. IInv /\ RunSound /\ [Next]_vars => RunSound'
  BY RunSteps
<1>3. Spec => []RunSound
  BY <1>1, <1>2, Invariance, PTL DEF Spec
<1> QED
  BY <1>3, RunAccounted, PTL
=============================================================================
