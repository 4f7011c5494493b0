SPECIFICATION Spec
CONSTANTS
    Procs = {p1, p2}
    Ids = {a}
    Intents = {i}
    IntentOf <- OneIntent
    Starts <- BothWays
    Main = Main
    Diffs = {d1}
    Clean = Clean
    Partial = Partial
    Absent = Absent
    InPlaceFirst <- InPlaceLast
    MaxRuns = 1
    MaxChanges = 2
    MaxPatches = 1
    MaxRank = 2
SYMMETRY Symmetry
INVARIANTS ChainComplete SubmittedHasPatch RecordedHasTree EvidenceWhole
PROPERTIES OutcomeStands
