\* Three drafts in two languages; two editors; siblings can be read.
CONSTANTS
    Words <- Vocabulary
    GenericNouns <- Generic
    NoSource = NoSource  e1 = e1  e2 = e2
    Superlatives <- SuperlativeTerms
    Draft <- ThreeDrafts
    Sources <- Registry
    Detected_ <- BothLanguages
    Template <- BothLanguages
    Capses <- SomeCaps
    CallPrice = 2
    ExtractPrice = 3
    EstimatedCell = 1
    RunCeiling = 4
    GlobalCap = 12
    WeeklyCap = 14
    SpentThisWeek = 5
    SignedBefore <- SomeSigned
    Editors <- TwoEditors
    Kinds <- ShellAndConsole
    Faults <- DiesOrLosesAnUpdate
SPECIFICATION Spec
INVARIANTS PassedIsSourced NoTwinsPass SpendIsBounded SignedAssetsHeal
CHECK_DEADLOCK FALSE
