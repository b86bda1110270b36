SPECIFICATION ViewSpec
CONSTANTS
    Sections = {"verdict", "patterns", "creativeBriefs", "confidence", "underperformers", "nextTests"}
    Charts = {"ranking", "movement"}
    Tests = {1, 2}
    MaxLogos = 2
    Null = Null
INVARIANTS
    PresetTellsTruth
    BriefsOfTheSelection
