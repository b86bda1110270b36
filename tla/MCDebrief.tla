------------------------------ MODULE MCDebrief ------------------------------
(***************************************************************************)
(* The exports TLC sends to DebriefRun: every pick of up to MaxRows rows   *)
(* from a small catalogue for each KPI, read with every one of a few       *)
(* contexts, and the forms and files that are refused.                     *)
(***************************************************************************)
EXTENDS DebriefRun

CONSTANT MaxRows

Names == <<"a1", "a2", "a3", "a4", "a5">>

Row(tag, stage, window, cells) ==
    [name |-> Null, id |-> Null, tag |-> tag, stage |-> stage, window |-> window,
     rungs |-> {"ctr"}, segment |-> Null, tokens |-> <<>>, parts |-> <<>>, cells |-> cells]

Spent(s, p, v) == [spend |-> s, purchases |-> p, purchaseValue |-> v]
Format(label, row) == [row EXCEPT !.tokens = [k \in {"FOR"} |-> label]]
InSet(segment, row) == [row EXCEPT !.segment = segment, !.parts = <<segment, "v1">>]

\* What a row spent, how many purchases it had and what they were worth: good
\* ads with many, few and unknown purchases, a middling one, two poor ones
\* (one costly), one without a purchase, two that spent too little, and two a
\* tenth apart.
Clicked(p, v) == [clickPurchases |-> p, clickValue |-> v]

RoasRows == <<
    InSet("cold", Row("video", "TOFU", "click", Spent(20, 8, 60) @@ Clicked(6, 40))),
    InSet("warm", Row("ugc", "TOFU", "view", Spent(40, 3, 120) @@ Clicked(2, 40))),
    InSet("warm", Row("static", "BOFU", "click", [spend |-> 20, purchaseValue |-> 100])),
    InSet("cold", Row("static", "TOFU", "engaged", Spent(20, 4, 40) @@ Clicked(4, 40))),
    InSet("cold", Row("static", "BOFU", "click", Spent(20, 3, 20) @@ Clicked(0, 0))),
    Row("discount/promo", NoStage, "click", Spent(60, 7, 60)),
    Row("video", NoStage, Null, [spend |-> 60]),
    Row("untagged", "BOFU", "view", [spend |-> 4]),
    Row("video", "BOFU", "view", Spent(20, 9, 200)),
    Row("ugc", "TOFU", "click", Spent(20, 8, 220))>>

CpaRows == <<
    Format("video", Row("video", "TOFU", "click", [spend |-> 20, purchases |-> 10])),
    Format("static", Row("static", "BOFU", "view", [spend |-> 40, purchases |-> 4])),
    Format("static", Row("static", "TOFU", "click", [spend |-> 20, purchases |-> 4])),
    Format("video", Row("ugc", NoStage, Null, [spend |-> 60, purchases |-> 3])),
    Format("other", Row("untagged", "TOFU", "click", [spend |-> 60, purchases |-> 0])),
    Row("video", NoStage, "click", [spend |-> 20]),
    Row("video", NoStage, "click", [spend |-> 11, purchases |-> 0])>>

Split(click, view) == [clickPurchases |-> click, viewPurchases |-> view]

CountRows == <<
    Row("video", NoStage, "click", Spent(20, 10, 20) @@ Split(6, 4)),
    Row("static", NoStage, "click", Spent(20, 6, 60) @@ Split(6, 0)),
    Row("ugc", NoStage, "click", Spent(40, 3, 120)),
    Row("static", NoStage, "click", [spend |-> 20, purchases |-> 0]),
    Row("untagged", NoStage, "click", Spent(40, 5, 40)),
    Row("video", NoStage, "click", Spent(4, 1, 4))>>

ClickRows == <<
    Row("video", NoStage, "click", [spend |-> 20, linkClicks |-> 10, impressions |-> 100, purchaseValue |-> 20]),
    Row("static", NoStage, "click", [spend |-> 20, linkClicks |-> 4, impressions |-> 100, purchaseValue |-> 60]),
    Row("ugc", NoStage, "click", [spend |-> 40, linkClicks |-> 2, impressions |-> 100, purchaseValue |-> 40]),
    Row("untagged", NoStage, "click", [spend |-> 20, linkClicks |-> 0, impressions |-> 100, purchaseValue |-> 0]),
    Row("video", NoStage, "click", [spend |-> 20, linkClicks |-> 8, impressions |-> 100])>>

\* What the exports of a context have beside the columns every one has.
Extra(kpi, c) ==
    CASE kpi = "roas" -> <<{}, {"adSet"}, {"campaign"}, {"clickValue", "clickPurchases"}>>[c]
      [] kpi = "purchases" -> <<{}, {"clickPurchases", "viewPurchases"}>>[c]
      [] OTHER -> {}

Columns(kpi) == {"name", "dates", "spend", "window"} \cup
    CASE kpi \in {"roas", "purchases"} -> {"purchases", "purchaseValue"}
      [] kpi \in {"ctr", "cpc"} -> {"linkClicks", "impressions", "purchaseValue"}
      [] OTHER -> {"purchases"}

Rows(kpi) == CASE kpi = "roas" -> RoasRows [] kpi = "cpa" -> CpaRows
               [] kpi = "purchases" -> CountRows [] OTHER -> ClickRows

File(columns, rows) ==
    [columns |-> columns, rows |-> rows, inexact |-> {}, defects |-> {}, currency |-> Null,
     dates |-> Null]

\* The non-decreasing picks of up to n places of a catalogue.
Picks(n, size) == UNION {{p \in [1..k -> 1..size] : \A i \in 1..(k - 1) : p[i] <= p[i + 1]} : k \in 1..n}

Export(kpi, pick, columns) ==
    File(columns, [i \in DOMAIN pick |-> [Rows(kpi)[pick[i]] EXCEPT !.name = Names[i]]])

Plain(kpi) ==
    [kpi |-> kpi, target |-> Null, targetRoas |-> Null, spendGate |-> Null, minJudge |-> Null,
     minOutcome |-> Null, minBrief |-> Null, lossMultiple |-> Null, objective |-> Null,
     market |-> Null, notes |-> FALSE, controlled |-> Null, trackingChanged |-> FALSE,
     setupChanged |-> FALSE]

Contexts(kpi) ==
    CASE kpi = "roas" ->
            <<Plain(kpi),
              [Plain(kpi) EXCEPT !.targetRoas = 2, !.minOutcome = 2, !.market = {"founder-led"}],
              [Plain(kpi) EXCEPT !.targetRoas = 4, !.minJudge = 4, !.objective = "efficiency"],
              [Plain(kpi) EXCEPT !.notes = TRUE, !.controlled = "unsure", !.setupChanged = TRUE]>>
      [] kpi = "cpa" ->
            <<Plain(kpi), [Plain(kpi) EXCEPT !.target = 6, !.minBrief = 5]>>
      [] kpi = "purchases" -> <<Plain(kpi), [Plain(kpi) EXCEPT !.minJudge = 3, !.market = {"bundle"}]>>
      [] OTHER -> <<Plain(kpi), [Plain(kpi) EXCEPT !.minOutcome = 2, !.spendGate = 20]>>

Request(c, file) ==
    [problems |-> {}, file |-> file, prev |-> Null, context |-> c, overrides |-> <<>>,
     declared |-> <<>>]

\* The requests that are refused, and the fields read at the edge.
Problems == <<{"unreadable"}, {"no_file"}, {"invalid_kpi", "bad_groups"}, {"invalid_criterion"},
              {"bad_formats"}, {"bad_groups"}>>
DefectSets == <<{"too_large"}, {"empty", "no_header"}, {"binary"}, {"unparsable"},
                {"one_column", "too_many_rows"}, {"too_many_rows"}, {"no_header"}>>
Needed == <<"name", "spend", "purchaseValue", "dates">>

\* Every row twice, as an export with one row per day has them.
Twice(rows) == [n \in 1..(2 * Len(rows)) |-> rows[(n + 1) \div 2]]

Edges ==
    LET good == Export("roas", <<1, 4, 5>>, Columns("roas"))
        base == Request(Plain("roas"), good)
    IN  [n \in DOMAIN Problems |-> [base EXCEPT !.problems = Problems[n]]]
        \o [n \in DOMAIN DefectSets |-> [base EXCEPT !.file.defects = DefectSets[n]]]
        \o [n \in DOMAIN Needed |-> [base EXCEPT !.file.columns = good.columns \ {Needed[n]}]]
        \o <<[base EXCEPT !.file.rows = <<>>],
             [base EXCEPT !.file.rows = <<Row("video", NoStage, Null, [purchases |-> 1])>>],
             [base EXCEPT !.file.dates = [start |-> 1, end |-> 4], !.file.inexact = {"purchaseValue"}],
             [base EXCEPT !.file.rows = Twice(good.rows), !.file.columns = @ \cup {"breakdown"}],
             [base EXCEPT !.file.rows = Twice(good.rows), !.file.columns = @ \cup {"adSet"}],
             [base EXCEPT !.file.rows = Twice(good.rows)],
             [base EXCEPT !.overrides = [n \in {"a1"} |-> "static"],
                          !.declared = [n \in {"a1", "a2", "a3"} |-> {"hook"}]]>>

\* A stage whose median is zero beside one that is flat; a traffic export where
\* nothing was bought, the leader's value blank, the others' zero; and refunds
\* that bring the median below zero, with an ad near it and one far behind.
Staged(stage, value) == Row("video", stage, "click", [spend |-> 20, purchaseValue |-> value])
Doubtful ==
    LET flat == <<Staged("TOFU", 0), Staged("TOFU", 0), Staged("TOFU", 100),
                  Staged("BOFU", 400), Staged("BOFU", 440)>>
        refunded == <<Staged(NoStage, 40), Staged(NoStage, -80), Staged(NoStage, -100),
                      Staged(NoStage, -160)>>
        blank == <<ClickRows[5], [ClickRows[2] EXCEPT !.cells.purchaseValue = 0], ClickRows[4]>>
        named(rows) == [n \in DOMAIN rows |-> [rows[n] EXCEPT !.name = Names[n]]]
    IN  <<Request(Plain("roas"), File(Columns("roas"), named(flat))),
          Request(Plain("ctr"), File(Columns("ctr"), named(blank))),
          Request(Plain("roas"), File(Columns("roas"), named(refunded)))>>

----------------------------------------------------------------------------
(* Two periods: what an ad did in each, who it was called and which ID it  *)
(* ran under                                                               *)

Did == [strong |-> Spent(20, 10, 100), middling |-> Spent(20, 5, 60), weak |-> Spent(20, 2, 20),
        nothing |-> [spend |-> 80, purchases |-> 0], little |-> Spent(4, 1, 20)]

Ad(name, id) == [name |-> name, id |-> id]

\* Who the rows of the two exports are: plain names; IDs under new names; IDs
\* in one export only; an ad that came and one that went; an ad run under two
\* IDs; an ID under two names beside a row without one.
Plainly == <<Ad("a", Null), Ad("b", Null), Ad("c", Null)>>
WithIds == <<Ad("a", 1), Ad("b", 2), Ad("c", 3)>>
Castings ==
    <<[cur |-> Plainly, prev |-> Plainly],
      [cur |-> <<Ad("x", 1), Ad("b", 2), Ad("a", 3)>>, prev |-> WithIds],
      [cur |-> WithIds, prev |-> Plainly],
      [cur |-> <<Ad("a", Null), Ad("b", Null), Ad("d", Null)>>, prev |-> Plainly],
      [cur |-> <<Ad("a", 1), Ad("a", 4), Ad("b", 2)>>, prev |-> WithIds],
      [cur |-> WithIds, prev |-> <<Ad("a", 1), Ad("b", 1), Ad("c", Null)>>]>>

Days(s, e) == [start |-> s, end |-> e]
Calendars == <<[cur |-> Days(8, 14), prev |-> Days(1, 7)], [cur |-> Days(8, 14), prev |-> Days(6, 12)],
               [cur |-> Days(1, 7), prev |-> Days(8, 14)], [cur |-> Days(15, 28), prev |-> Days(1, 7)],
               [cur |-> Days(8, 14), prev |-> Null], [cur |-> Days(8, 14), prev |-> Days(1, 7)]>>

\* The same three ads a period apart.
Then == <<<<"strong", "middling", "weak">>, <<"middling", "strong", "nothing">>,
          <<"weak", "little", "strong">>>>
Now == [1..3 -> DOMAIN Did]

Period(kpi, casting, did, dates) ==
    LET ids == \E n \in DOMAIN casting : casting[n].id # Null
        row(n) == [Row("video", NoStage, "click", Did[did[n]]) EXCEPT
                       !.name = casting[n].name, !.id = casting[n].id]
    IN  [File(Columns(kpi) \cup (IF ids THEN {"adId"} ELSE {}), [n \in DOMAIN casting |-> row(n)])
            EXCEPT !.dates = dates]

Compared(kpi, c, then, now) ==
    [Request([Plain(kpi) EXCEPT !.spendGate = 10],
             Period(kpi, Castings[c].cur, now, Calendars[c].cur))
        EXCEPT !.prev = Period(kpi, Castings[c].prev, Then[then], Calendars[c].prev)]

\* A previous export that is refused.
PreviousEdges ==
    LET base == Compared("roas", 1, 1, Then[1])
    IN  [n \in DOMAIN DefectSets |-> [base EXCEPT !.prev.defects = DefectSets[n]]]
        \o <<[base EXCEPT !.prev.rows = <<>>],
             [base EXCEPT !.prev.columns = @ \ {"name"}],
             [base EXCEPT !.prev.columns = @ \ {"purchaseValue"}],
             [base EXCEPT !.prev.rows = <<Row("video", NoStage, Null, [purchases |-> 1])>>],
             [base EXCEPT !.prev.currency = "eur", !.file.currency = "usd"]>>

CompareCases ==
    {<<"compare", kpi, c, then, now>> :
        kpi \in {"roas", "cpa"}, c \in DOMAIN Castings, then \in DOMAIN Then, now \in Now}

----------------------------------------------------------------------------
DebriefKpis == {"roas", "cpa", "purchases", "ctr", "cpc"}

\* One row fewer where the user set no bar on ROAS.
Most(kpi, c) == IF kpi = "roas" /\ c \in {1, 4} THEN MaxRows - 1 ELSE MaxRows

DoubtfulCases == {<<"doubtful", n>> : n \in DOMAIN Doubtful}

DebriefCases ==
    UNION {{<<kpi, c, pick>> : pick \in Picks(Most(kpi, c), Len(Rows(kpi)))} :
               <<kpi, c>> \in UNION {{k} \X DOMAIN Contexts(k) : k \in DebriefKpis}}
    \cup {<<"edge", e>> : e \in 1..Len(Edges \o PreviousEdges)}
    \cup DoubtfulCases
    \cup CompareCases

DebriefRequest(x) ==
    CASE x[1] = "edge" -> (Edges \o PreviousEdges)[x[2]]
      [] x[1] = "doubtful" -> Doubtful[x[2]]
      [] x[1] = "compare" -> Compared(x[2], x[3], x[4], x[5])
      [] OTHER -> Request(Contexts(x[1])[x[2]], Export(x[1], x[3], Columns(x[1]) \cup Extra(x[1], x[2])))
=============================================================================
