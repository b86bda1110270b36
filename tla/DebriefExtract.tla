--------------------------- MODULE DebriefExtract ---------------------------
(***************************************************************************)
(* From the rows of an export to the ads the analysis reads                *)
(* (modules/debrief/extract.ts, columns.ts, kpiUsability.ts,               *)
(* accountKpi.ts): the KPI value and the outcome count of a row, what is a *)
(* zero and what is missing, which rows are one creative, and which KPIs   *)
(* the columns can be read with.                                           *)
(*                                                                         *)
(* A file is a record [columns, rows, inexact, dates]: inexact are the     *)
(* conversion columns whose headers are not the standard ones, dates the   *)
(* period.  A row is a record [name, id, tag, stage, window, rungs,        *)
(* segment, tokens, parts, cells]: cells holds the numbers it has, by      *)
(* field; a field outside it is a blank or unreadable cell.  name is       *)
(* trimmed, id and segment (the ad set, or the campaign) Null when blank,  *)
(* tag the format its name shows, tokens and parts what a convention       *)
(* reads in it, stage the funnel stage its campaign names, rungs the       *)
(* upstream metrics it has.  Of the click and of the view windows an       *)
(* export can split by, one of each is kept.  Money, values and            *)
(* percentages are integers and a ratio is rounded down: an instance       *)
(* chooses numbers that divide.                                            *)
(***************************************************************************)
EXTENDS DebriefAnalysis

Cell(row, columns, field) ==
    IF field \in columns /\ field \in DOMAIN row.cells THEN row.cells[field] ELSE Null
OrElse(x, y) == IF x # Null THEN x ELSE y
Ratio(n, d) == IF n = Null \/ d = Null \/ d <= 0 THEN Null ELSE n \div d

\* Whether the columns a KPI needs are all there.
HasColumns(kpi, columns) ==
    /\ "spend" \in columns
    /\ CASE kpi \in {"purchases", "leads"} -> kpi \in columns
         [] kpi = "ctr" -> "ctr" \in columns \/ {"linkClicks", "impressions"} \subseteq columns
         [] kpi = "cpc" -> {"cpc", "linkClicks"} \cap columns # {}
         [] kpi = "cpa" -> {"costPerPurchase", "costPerLead", "purchases", "leads"} \cap columns # {}
         [] OTHER -> {"purchaseRoas", "purchaseValue"} \cap columns # {}

\* The click-only columns ROAS and CPA rank on when the export has them.
ClickBasis(kpi, columns) ==
    LET count == IF "clickPurchases" \in columns THEN "clickPurchases"
                 ELSE IF kpi = "cpa" /\ "clickLeads" \in columns THEN "clickLeads" ELSE Null
    IN  CASE kpi = "roas" /\ "clickValue" \in columns -> [value |-> "clickValue", count |-> count]
          [] kpi = "cpa" /\ count # Null -> [value |-> Null, count |-> count]
          [] OTHER -> Null

\* The columns a KPI is read from; those of a cost per lead are not those of
\* a cost per purchase.
KpiReadFields(kpi, columns, leadBased) ==
    LET Either(f, g) == (IF f \in columns THEN {f} ELSE {g}) \cap columns
    IN  CASE kpi = "cpa" /\ leadBased ->
                 ({"leads"} \cap columns)
                 \cup (IF "costPerPurchase" \in columns THEN {} ELSE {"costPerLead"} \cap columns)
          [] kpi = "cpa" /\ ~leadBased ->
                 Either("costPerPurchase", "costPerLead") \cup Either("purchases", "leads")
          [] kpi = "roas" ->
                 Either("purchaseRoas", "purchaseValue") \cup ({"purchases"} \cap columns)
          [] OTHER -> {kpi} \cap {"purchases", "leads"} \cap columns

\* Those whose headers are not the standard ones.
KpiColumnSources(kpi, file, leadBased) ==
    KpiReadFields(kpi, file.columns, leadBased) \cap file.inexact

\* The fields whose attribution split matters to a KPI, and the split columns
\* an export has for them.
AttributionFields(kpi, leadBased) ==
    CASE kpi = "roas" -> {"value", "purchases"}
      [] kpi = "cpa" -> IF leadBased THEN {"leads"} ELSE {"purchases", "leads"}
      [] OTHER -> {kpi} \cap {"purchases", "leads"}
SplitColumns(field) ==
    CASE field = "value" -> {"clickValue", "viewValue"}
      [] field = "purchases" -> {"clickPurchases", "viewPurchases"}
      [] OTHER -> {"clickLeads", "viewLeads"}
AttributionColumns(kpi, columns, leadBased) ==
    columns \cap UNION {SplitColumns(f) : f \in AttributionFields(kpi, leadBased)}

----------------------------------------------------------------------------
(* One row *)

KpiValueForRow(row, columns, kpi) ==
    LET C(field) == Cell(row, columns, field)
        direct == IF "costPerPurchase" \in columns THEN C("costPerPurchase") ELSE C("costPerLead")
        Value(click, spend) ==
            CASE click # Null /\ kpi = "roas" -> Ratio(C(click.value), spend)
              [] click # Null /\ kpi = "cpa" -> Ratio(spend, C(click.count))
              [] kpi \in {"purchases", "leads"} -> C(kpi)
              [] kpi = "ctr" ->
                     OrElse(C("ctr"), IF C("linkClicks") = Null THEN Null
                                      ELSE Ratio(100 * C("linkClicks"), C("impressions")))
              [] kpi = "cpc" -> OrElse(C("cpc"), Ratio(spend, C("linkClicks")))
              [] kpi = "cpa" /\ click = Null ->
                     OrElse(direct, Ratio(spend, OrElse(C("purchases"), C("leads"))))
              [] OTHER -> OrElse(C("purchaseRoas"), Ratio(C("purchaseValue"), spend))
    IN  Value(ClickBasis(kpi, columns), OrElse(C("spend"), 0))

\* Which count the CPA of a row comes from.
CpaBasisForRow(row, columns) ==
    LET C(field) == Cell(row, columns, field)
        Basis(click) ==
            CASE click # Null /\ C(click.count) = Null -> Null
              [] click # Null /\ C(click.count) # Null ->
                     IF click.count = "clickLeads" THEN "lead" ELSE "purchase"
              [] click = Null /\ C("costPerPurchase") # Null -> "purchase"
              [] click = Null /\ "costPerPurchase" \notin columns /\ C("costPerLead") # Null -> "lead"
              [] OTHER -> IF C("purchases") # Null THEN "purchase"
                          ELSE IF C("leads") # Null THEN "lead" ELSE Null
    IN  Basis(ClickBasis("cpa", columns))

\* The rows with a CPA, and whether all of them have it from leads.
RowsWithCpa(file) ==
    {n \in DOMAIN file.rows : KpiValueForRow(file.rows[n], file.columns, "cpa") # Null}
LeadsOnly(file) ==
    \A n \in RowsWithCpa(file) : CpaBasisForRow(file.rows[n], file.columns) = "lead"

\* A CPA row with a count of zero; a blank count is not one.
CpaZeroConversions(row, columns) ==
    LET click == ClickBasis("cpa", columns)
        C(field) == Cell(row, columns, field)
    IN  0 = IF click # Null THEN C(click.count) ELSE OrElse(C("purchases"), C("leads"))

\* A ROAS row without a value that recorded no purchase: a zero in either
\* cell, or two blanks where the column holds numbers on other rows.
RoasZeroPurchases(row, file) ==
    LET click == ClickBasis("roas", file.columns)
        countField == IF click # Null THEN click.count ELSE "purchases"
        valueField == IF click # Null THEN click.value ELSE "purchaseValue"
        C(r, field) == IF field = Null THEN Null ELSE Cell(r, file.columns, field)
        HasNumber(field) == \E n \in DOMAIN file.rows : C(file.rows[n], field) # Null
    IN  /\ HasNumber(valueField) \/ (click = Null /\ HasNumber("purchaseRoas"))
        /\ \/ 0 \in {C(row, countField), C(row, valueField)}
           \/ /\ {C(row, countField), C(row, valueField)} = {Null}
              /\ HasNumber(countField) \/ HasNumber(valueField)

ConversionsForRow(row, columns, kpi) ==
    LET click == ClickBasis(kpi, columns)
    IN  CASE ~HasOutcome(kpi) -> Null
          [] click # Null /\ click.count # Null -> Cell(row, columns, click.count)
          [] kpi = "leads" -> Cell(row, columns, "leads")
          [] OTHER -> Cell(row, columns, "purchases")

\* The outcomes of a row by window, when the export splits them both ways.
ViewThroughForRow(row, columns, kpi) ==
    LET C(field) == Cell(row, columns, field)
        purchases == SplitColumns("purchases") \cap columns # {}
        both == CASE kpi = "leads" \/ (kpi = "cpa" /\ ~purchases) ->
                         [click |-> C("clickLeads"), view |-> C("viewLeads")]
                  [] kpi \in {"roas", "purchases"} \/ (kpi = "cpa" /\ purchases) ->
                         [click |-> C("clickPurchases"), view |-> C("viewPurchases")]
                  [] OTHER -> [click |-> Null, view |-> Null]
    IN  IF Null \in {both.click, both.view} THEN Null ELSE both

\* A row without a value that is a zero outcome all the same.
RowZero(row, file, kpi, spend) ==
    \/ kpi = "cpa" /\ CpaZeroConversions(row, file.columns)
    \/ kpi = "roas" /\ spend > 0 /\ RoasZeroPurchases(row, file)

\* A row as an ad. The CPA of an account whose values all come from leads
\* counts leads.
RowAd(row, file, kpi, leadBased) ==
    LET C(field) == Cell(row, file.columns, field)
        LeadField(click) == IF click = Null THEN "leads" ELSE click.count
        Ad(spend, value, zero) ==
            [name  |-> row.name,
             id    |-> IF "adId" \in file.columns THEN row.id ELSE Null,
             spend |-> spend,
             value |-> IF kpi = "roas" /\ zero THEN 0 ELSE value,
             zero  |-> zero,
             conv  |-> IF kpi = "roas" /\ zero THEN 0
                       ELSE IF leadBased THEN C(LeadField(ClickBasis("cpa", file.columns)))
                       ELSE ConversionsForRow(row, file.columns, kpi),
             clicks      |-> C("linkClicks"),
             impressions |-> C("impressions"),
             tag |-> row.tag, stage |-> row.stage, rungs |-> row.rungs,
             tokens |-> row.tokens, parts |-> row.parts, rows |-> 1,
             viewThrough |-> ViewThroughForRow(row, file.columns, kpi),
             segment |-> IF {"adSet", "campaign"} \cap file.columns = {} THEN Null
                         ELSE row.segment,
             window |-> IF "window" \in file.columns THEN row.window ELSE Null]
        Read(spend, value) == Ad(spend, value, value = Null /\ RowZero(row, file, kpi, spend))
    IN  Read(OrElse(C("spend"), 0), KpiValueForRow(row, file.columns, kpi))

\* The rows of a file as ads, those with neither spend nor a value left out.
RowAds(file, kpi) ==
    LET leadBased == kpi = "cpa" /\ RowsWithCpa(file) # {} /\ LeadsOnly(file)
        NotBlank(ads) == Picked(ads, {n \in DOMAIN ads : ads[n].spend > 0 \/ ads[n].value # Null})
    IN  NotBlank([n \in DOMAIN file.rows |-> RowAd(file.rows[n], file, kpi, leadBased)])

----------------------------------------------------------------------------
(* One creative from the rows that share its name *)

\* Null when a part is unknown: an unknown part makes the sum unknown.
SumOrNull(F(_), S) == IF \E i \in S : F(i) = Null THEN Null ELSE SumOver(F, S)
SharedOr(F(_), S, none) == IF Cardinality({F(i) : i \in S}) = 1 THEN F(Min(S)) ELSE none

\* The count a row's ratio stands for, when its own count is missing.
RowClicks(ad, kpi) ==
    CASE ad.clicks # Null -> ad.clicks
      [] ad.clicks = Null /\ kpi = "ctr" /\ ad.value # Null /\ ad.impressions # Null ->
             (ad.value * ad.impressions) \div 100
      [] OTHER -> IF kpi = "cpc" /\ ad.value # Null THEN Ratio(ad.spend, ad.value) ELSE Null
RowOutcomes(ad, kpi) ==
    CASE ad.conv # Null -> ad.conv
      [] ad.conv = Null /\ ad.zero -> 0
      [] OTHER -> IF kpi = "cpa" THEN Ratio(ad.spend, ad.value) ELSE Null

\* The ratio is recomputed from the sums.
MergeAds(ads, G, kpi) ==
    LET spend == TotalSpend(ads, G)
        allZero == \A i \in G : ads[i].zero
        clicks == SumOrNull(LAMBDA i : RowClicks(ads[i], kpi), G)
        impressions == SumOrNull(LAMBDA i : ads[i].impressions, G)
        outcomes == SumOrNull(LAMBDA i : RowOutcomes(ads[i], kpi), G)
        worth == SumOrNull(LAMBDA i : IF ads[i].value = Null THEN Null
                                      ELSE ads[i].value * ads[i].spend, G)
    IN  [ads[Min(G)] EXCEPT
            !.id = SharedOr(LAMBDA i : ads[i].id, G, Null),
            !.spend = spend,
            !.value = CASE kpi = "roas" -> Ratio(worth, spend)
                        [] kpi = "cpa" -> Ratio(spend, outcomes)
                        [] kpi = "ctr" -> IF clicks = Null THEN Null ELSE Ratio(100 * clicks, impressions)
                        [] kpi = "cpc" -> Ratio(spend, clicks)
                        [] OTHER -> SumOrNull(LAMBDA i : ads[i].value, G),
            !.zero = CASE kpi = "roas" -> allZero
                       [] kpi = "cpa" -> outcomes = 0 /\ \E i \in G : ads[i].zero
                       [] OTHER -> FALSE,
            !.conv = IF ~HasOutcome(kpi) THEN Null
                     ELSE IF allZero THEN 0 ELSE SumOrNull(LAMBDA i : ads[i].conv, G),
            !.rows = Cardinality(G),
            !.segment = SharedOr(LAMBDA i : ads[i].segment, G, Null),
            !.viewThrough =
                IF \E i \in G : ads[i].viewThrough = Null THEN Null
                ELSE [click |-> SumOver(LAMBDA i : ads[i].viewThrough.click, G),
                      view  |-> SumOver(LAMBDA i : ads[i].viewThrough.view, G)],
            !.clicks = SumOrNull(LAMBDA i : ads[i].clicks, G),
            !.impressions = impressions,
            !.stage = SharedOr(LAMBDA i : ads[i].stage, G, NoStage),
            !.window = SharedOr(LAMBDA i : ads[i].window, G, "mixed"),
            !.rungs = {r \in ads[Min(G)].rungs : \A i \in G : r \in ads[i].rungs}]

\* With an ID on every row, rows that share one go under the name it first
\* had; then the rows under one name are one creative.
AggregateDuplicateRows(ads, kpi) ==
    LET byId == \A n \in DOMAIN ads : ads[n].id # Null
        key == [n \in DOMAIN ads |->
                   IF byId THEN ads[Min({m \in DOMAIN ads : ads[m].id = ads[n].id})].name
                   ELSE ads[n].name]
        Group(n) == {m \in DOMAIN ads : key[m] = key[n]}
        firsts == Picked([n \in DOMAIN ads |-> n], {n \in DOMAIN ads : n = Min(Group(n))})
    IN  [k \in DOMAIN firsts |-> LET G == Group(firsts[k])
                                 IN  IF Cardinality(G) = 1 THEN ads[firsts[k]]
                                     ELSE MergeAds(ads, G, kpi)]

ExtractAds(file, kpi) == AggregateDuplicateRows(RowAds(file, kpi), kpi)

\* The formats the user confirmed replace the tag a name suggests.
ApplyFormatOverrides(ads, overrides) ==
    [n \in DOMAIN ads |-> IF ads[n].name \in DOMAIN overrides
                          THEN [ads[n] EXCEPT !.tag = overrides[ads[n].name]] ELSE ads[n]]

----------------------------------------------------------------------------
(* What the file adds to the context *)

\* The outcome KPI the columns of a proxy run support.
OutcomeKpi(kpi, columns) ==
    CASE ~IsProxy(kpi) -> Null
      [] IsProxy(kpi) /\ HasColumns("roas", columns) -> "roas"
      [] OTHER -> IF HasColumns("cpa", columns) THEN "cpa" ELSE Null

\* The ads of a run, each with its result on that outcome KPI, found by name.
WithOther(ads, others) ==
    LET Other(same) == IF same = {} THEN [value |-> Null, zero |-> FALSE]
                       ELSE [value |-> others[Max(same)].value, zero |-> others[Max(same)].zero]
    IN  [n \in DOMAIN ads |->
            With(ads[n], [other |-> Other({m \in DOMAIN others : others[m].name = ads[n].name})])]
AdsOf(file, kpi) ==
    LET Others(outcome) == IF outcome = Null THEN <<>> ELSE ExtractAds(file, outcome)
    IN  WithOther(ExtractAds(file, kpi), Others(OutcomeKpi(kpi, file.columns)))

\* The length in days of the period the rows report; Null when it is not known.
AnalysisWindowDays(file) ==
    LET d == IF "dates" \in file.columns THEN file.dates ELSE Null
    IN  IF d = Null THEN Null ELSE IF d.end < d.start THEN Null ELSE d.end - d.start + 1

\* The ads a file has a value for on a KPI.
WithValue(file, kpi) ==
    LET In(ads) == {n \in DOMAIN ads : ads[n].value # Null}
    IN  IF ~HasColumns(kpi, file.columns) THEN {} ELSE In(ExtractAds(file, kpi))
Usable(file, kpi) == WithValue(file, kpi) # {}

\* Every CPA value comes from leads.
CpaLeadBased(file) == Usable(file, "cpa") /\ LeadsOnly(file)

AutoPreference == <<"roas", "cpa", "purchases", "cpl", "leads", "ctr", "cpc">>

\* The first KPI of the preference that the file can be read with; a CPA of
\* leads comes after the purchase count.
PreferredUsableKpi(file, except) ==
    LET Kpi(p) == IF p = "cpl" THEN "cpa" ELSE p
        Fits(p) == /\ Kpi(p) # except
                   /\ Usable(file, Kpi(p))
                   /\ p \in {"cpl", "cpa"} => (p = "cpl" <=> CpaLeadBased(file))
        Pick(fitting) == IF fitting = {} THEN Null ELSE Kpi(AutoPreference[Min(fitting)])
    IN  Pick({n \in DOMAIN AutoPreference : Fits(AutoPreference[n])})

\* What the user asked, with what is read from the file.
ReadWith(c, file, leads) ==
    With(c,
         [complete   |-> {"name", "dates"} \subseteq file.columns,
          hasName    |-> "name" \in file.columns,
          hasDates   |-> "dates" \in file.columns,
          hasAdSet   |-> "adSet" \in file.columns,
          hasAdId    |-> "adId" \in file.columns,
          hasRoas    |-> HasColumns("roas", file.columns),
          preferred  |-> PreferredUsableKpi(file, c.kpi),
          breakdowns |-> "breakdown" \in file.columns,
          segmentBy  |-> IF "adSet" \in file.columns THEN "ad_set"
                         ELSE IF "campaign" \in file.columns THEN "campaign" ELSE Null,
          days       |-> AnalysisWindowDays(file),
          sources    |-> KpiColumnSources(c.kpi, file, leads),
          clickBasis |-> ClickBasis(c.kpi, file.columns) # Null,
          splits     |-> AttributionColumns(c.kpi, file.columns, leads) # {},
          leadBased  |-> leads,
          outcomeKpi |-> OutcomeKpi(c.kpi, file.columns),
          settings   |-> {file.rows[n].window : n \in {m \in DOMAIN file.rows :
                              /\ "window" \in file.columns
                              /\ OrElse(Cell(file.rows[m], file.columns, "spend"), 0) > 0}} \ {Null}])
InContext(c, file) == ReadWith(c, file, c.kpi = "cpa" /\ CpaLeadBased(file))

----------------------------------------------------------------------------
(* Which KPIs a file can be read with *)

\* Never away from a KPI picked by hand, nor from a usable one.
ChooseAutoKpi(current, file, manual) ==
    IF manual \/ Usable(file, current) THEN Null ELSE PreferredUsableKpi(file, current)

\* The account's own result on a KPI, from totals: [num, den, covered].
AccountKpi(ads, kpi) ==
    LET Num(ad) == CASE kpi = "roas" -> IF ad.value # Null THEN ad.value * ad.spend
                                        ELSE IF ad.conv = 0 THEN 0 ELSE Null
                     [] kpi \in {"cpa", "cpc"} -> ad.spend
                     [] kpi = "ctr" -> RowClicks(ad, kpi)
                     [] OTHER -> ad.value
        Den(ad) == CASE kpi = "roas" -> ad.spend
                     [] kpi = "cpa" -> RowOutcomes(ad, kpi)
                     [] kpi = "ctr" -> ad.impressions
                     [] kpi = "cpc" -> RowClicks(ad, kpi)
                     [] OTHER -> 0
        covered == {n \in DOMAIN ads : Num(ads[n]) # Null /\ Den(ads[n]) # Null}
    IN  [num     |-> SumOver(LAMBDA n : Num(ads[n]), covered),
         den     |-> SumOver(LAMBDA n : Den(ads[n]), covered),
         covered |-> covered]
=============================================================================
