---------------------------- MODULE MCCompetitor ----------------------------
(* Visits of the competitor debrief, one theme each. *)
EXTENDS CompetitorSession

Copy(says, fam, of) == [k |-> "copy", says |-> says, fam |-> fam, of |-> of]
Line(k) == [k |-> k]
Label(text) == [k |-> "name", text |-> text]
Cta == Line("cta")
Legal(says) == [k |-> "disclaimer", says |-> says]

Visit == [modes |-> {"individual"}, paste |-> <<>>, dump |-> <<>>, names |-> {"nike"},
          aliases |-> {}, notes |-> <<>>, learnings |-> <<>>, edits |-> {}, strays |-> {<<>>}, does |-> {"generate"}]

Learning(outcome, words) == [outcome |-> outcome, words |-> words, winner |-> {}, loser |-> {}]

\* Ads pasted: two that say the same things, one of them twice, with a footer.
Craving == Copy({"cravings", "lighter", "metabolism / metabolic mechanism"}, "f1", "nike")
Needle == Copy({"injections / needles", "cravings", "testimonials", "natural / clean"}, "f2", "nike")
Quiz == Copy({"quiz funnel", "deep discount", "discounts", "testimonial / first-person story",
              "mechanism explanation", "metabolism / metabolic mechanism"}, "f3", "nike")
Footer == Legal({"clinically studied", "control", "clinical claims"})

Bulk(ads) == FoldLeft(LAMBDA all, ad : all \o <<Line("rule")>> \o ad, <<>>, ads)

PasteVisits ==
    {[Visit EXCEPT !.paste = Bulk(ads), !.names = {"nike", "web address"},
                   !.learnings = known] :
        ads \in {<< <<Craving, Footer, Cta>>, <<Craving, Footer, Cta>>, <<Quiz, Footer>> >>,
                 << <<Craving, Needle, Cta>>, <<Needle, Footer>>, <<Quiz, Footer, Cta>> >>,
                 << <<Quiz, Cta>>, <<Needle, Quiz, Footer>>, <<Needle>> >>,
                 << <<Copy({"control"}, "f4", "nike")>> >>},
        known \in {<<>>,
                   <<Learning("failed", {"deep", "discount"}),
                     Learning("avoid", {"metabolism / metabolic mechanism"})>>,
                   <<Learning("avoid", {"craving", "control"}), Learning("unknown", {"quiz"}),
                     Learning("avoid", {"natural / clean"}),
                     Learning("worked", {"discount"})>>,
                   <<[Learning("learning", {"testimonial", "opening"}) EXCEPT
                         !.winner = {"testimonial", "opening"}, !.loser = {"mechanism", "opening"}],
                     Learning("failed", {"anti", "injection"})>>}}

EditVisits ==
    {[Visit EXCEPT !.paste = <<Craving, Cta, Line("blank"), Line("domain")>>,
                   !.edits = {<<Needle>>}, !.does = {"edit", "generate"}, !.notes = <<Craving>>]}

\* Library pages: two advertisers' cards, whole or not, in some order.
Card(page, says, fam, button) ==
    <<Label(page), Line("sponsored"), Copy(says, fam, page)>> \o (IF button THEN <<Cta>> ELSE <<>>)
Cards ==
    {Card("nike", {"testimonials", "lighter"}, "f1", TRUE),
     Card("nike", {"testimonials", "discounts"}, "f1", TRUE),
     Card("nike", {"natural / clean"}, "f2", FALSE),
     Card("adidas", {"testimonials", "lighter", "discounts"}, "f1", TRUE),
     <<[k |-> "sponsoredBy", text |-> "adidas"], Copy({"routine-based"}, "f3", "adidas"), Cta>>}
LinkCard == <<[k |-> "domain", text |-> "nike.com"], Copy({}, "f4", "nike"), Cta>>
Glued(cards) == FoldLeft(LAMBDA all, c : all \o c, <<>>, cards)
Spaced(cards) == FoldLeft(LAMBDA all, c : all \o c \o <<Line("blank")>>, <<>>, cards)
Top == <<Line("header"), [k |-> "tag", text |-> "nike"]>>

Dumps ==
    {start \o Glued(cards) : start \in {<<>>, <<Line("header")>>}, cards \in [1 .. 2 -> Cards]}
    \cup {Glued(cards) : cards \in [1 .. 3 -> {Card("nike", {"testimonials", "lighter"}, "f1", TRUE),
                                       Card("adidas", {"discounts"}, "f1", TRUE),
                                       Card("nike", {"natural / clean"}, "f2", FALSE)}]}
    \cup {c \o LinkCard : c \in Cards}
    \cup {Spaced(cards) : cards \in [1 .. 2 -> Cards]}
    \cup {Top \o Tail(Glued(cards)) : cards \in [1 .. 2 -> Cards]}

DumpVisits ==
    {[Visit EXCEPT !.modes = {"individual", "pageDump"}, !.dump = d,
                   !.aliases = {{}, {"adidas"}}, !.does = {}] : d \in Dumps}
    \cup {[Visit EXCEPT !.modes = {"individual", "pageDump"}, !.paste = <<Craving, Cta>>,
                        !.dump = Glued(cards), !.does = {"generate", "clear", "reset"}] :
             cards \in [1 .. 2 -> {Card("nike", {"lighter"}, "f1", TRUE),
                                   Card("adidas", {"discounts"}, "f2", TRUE)}]}

\* The library: three ads of one page, one without a text of the other.
Ad(id, page, text) == [id |-> id, page |-> page, text |-> text]
Library ==
    [p \in {"nike", "adidas"} |->
        IF p = "nike" THEN <<Ad("n1", p, <<Craving>>), Ad("n2", p, <<Craving>>), Ad("n3", p, <<Quiz>>)>>
        ELSE <<Ad("a1", p, <<>>)>>]
Found == {<<"nike", "adidas", "nike">>, <<Null, "adidas">>}

SearchVisits ==
    LET search == [Visit EXCEPT !.modes = {"search"}, !.names = {},
                                !.strays = {<<>>, <<Ad("x1", "puma", <<Needle>>)>>}]
    IN  {search, [search EXCEPT !.modes = @ \cup {"individual"}, !.does = {"clear", "reset"}]}

TheVisits == PasteVisits \cup EditVisits \cup DumpVisits \cup SearchVisits
=============================================================================
