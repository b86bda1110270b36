--------------------------- MODULE MCDebriefIntake ---------------------------
(***************************************************************************)
(* The exports for DebriefIntake: a shop's with purchases and their value, *)
(* the same account in another currency; a traffic campaign's with clicks  *)
(* only; a file that is no export; and what a pull brings, which has every *)
(* column: the ads of a lead campaign, whose ROAS cells are empty, or a    *)
(* window in which nothing delivered.  Either can also come from the disk. *)
(***************************************************************************)
EXTENDS DebriefIntake

Row(name, cells) ==
    [name |-> name, id |-> Null, tag |-> "video", stage |-> NoStage, window |-> "click",
     rungs |-> {}, segment |-> Null, tokens |-> <<>>, parts |-> <<>>, cells |-> cells]

File(columns, rows) ==
    [columns |-> columns \cup {"name", "spend"}, rows |-> rows, inexact |-> {}, defects |-> {}, currency |-> Null,
     dates |-> Null]

Bought == [spend |-> 20, purchases |-> 4, purchaseValue |-> 60]
Shop == File({"purchases", "purchaseValue"}, <<Row("a", Bought), Row("b", [Bought EXCEPT !.purchases = 2])>>)

Exports ==
    [shop    |-> [Shop EXCEPT !.currency = "usd"],
     abroad  |-> [Shop EXCEPT !.currency = "eur"],
     traffic |-> File({"linkClicks", "impressions", "currency"},
                      <<Row("a", [spend |-> 20, linkClicks |-> 10, impressions |-> 100])>>),
     leads   |-> File(InsightsColumns, <<Row("a", [spend |-> 20, leads |-> 5])>>),
     idle    |-> File(InsightsColumns, <<Row("a", [spend |-> 0])>>),
     broken  |-> [File({}, <<>>) EXCEPT !.defects = {"binary"}]]

IntakeFiles == DOMAIN Exports
PulledFiles == {"leads", "idle"}
IntakeFileOf(f) == Exports[f]
=============================================================================
