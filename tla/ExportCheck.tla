----------------------------- MODULE ExportCheck -----------------------------
(***************************************************************************)
(* Whether an export can be used (modules/debrief/fileCheck.ts, and what   *)
(* app/api/debrief/route.ts checks beyond it): the checks the page runs on *)
(* a chosen file, those the request runs on the file and on the one of the *)
(* previous period, and the order they come in.                            *)
(*                                                                         *)
(* Beside its columns and rows a file has defects, the ways its text is    *)
(* not an export, and currency (Null when its columns name none).          *)
(***************************************************************************)
EXTENDS DebriefExtract

\* The first defect of a file in the order they are looked for; Null if none.
FirstDefect(file, order) == First(SelectSeq(order, LAMBDA d : d \in file.defects))

StructureOrder ==
    <<"too_large", "empty", "binary", "unparsable", "one_column", "too_many_rows", "no_header">>

\* checkExportStructure: what does not depend on the KPI.
CheckExportStructure(file) ==
    CASE FirstDefect(file, StructureOrder) # Null -> FirstDefect(file, StructureOrder)
      [] FirstDefect(file, StructureOrder) = Null /\ file.rows = <<>> -> "no_rows"
      [] OTHER -> IF "name" \notin file.columns THEN "no_ad_name" ELSE Null

\* checkExportKpi: the columns of the KPI.
CheckExportKpi(file, kpi) ==
    CASE "spend" \notin file.columns -> "no_spend"
      [] "spend" \in file.columns /\ ~HasColumns(kpi, file.columns) -> "no_kpi_column"
      [] OTHER -> Null

\* checkExport: what both the page and the request run.
CheckExport(file, kpi) == OrElse(CheckExportStructure(file), CheckExportKpi(file, kpi))

\* What the request answers about its file; Null when it can be analyzed.
RequestCheck(file, kpi) ==
    IF CheckExport(file, kpi) # Null THEN CheckExport(file, kpi)
    ELSE IF ExtractAds(file, kpi) = <<>> THEN "no_ad_rows" ELSE Null

PreviousOrder ==
    <<"empty", "too_large", "binary", "unparsable", "too_many_rows", "one_column", "no_header">>

\* parsePreviousPeriod, and the refusal to compare two currencies.
PreviousCheck(prev, file, kpi) ==
    CASE FirstDefect(prev, PreviousOrder) # Null -> FirstDefect(prev, PreviousOrder)
      [] FirstDefect(prev, PreviousOrder) = Null /\ prev.rows = <<>> -> "no_rows"
      [] OTHER -> CASE "name" \notin prev.columns -> "no_ad_name"
                    [] "name" \in prev.columns /\ ~HasColumns(kpi, prev.columns) -> "no_kpi_column"
                    [] OTHER -> IF ExtractAds(prev, kpi) = <<>> THEN "no_ad_rows"
                                ELSE IF /\ Null \notin {prev.currency, file.currency}
                                        /\ prev.currency # file.currency
                                THEN "currencies_differ" ELSE Null
=============================================================================
