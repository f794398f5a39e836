SPECIFICATION Spec
CONSTANTS
    Unnamed = ""
    Width = 2
    Indexes = 2
    MaxEntries = 2
    UsedDigits = {0, 1, 9}
    Parts = 2
    Label <- Labels
    BoardOf <- Boards2
    OsOf <- Distros
    DefaultOs <- Defaults
    Version <- Versions2
    Archive = {"a", "b", "c", "d", "e", "f", "bad"}
    Unusable = {"bad"}
    Answers <- SmallAnswers
INVARIANTS
    WizardHasBoard
CHECK_DEADLOCK FALSE
