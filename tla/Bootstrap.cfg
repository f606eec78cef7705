SPECIFICATION Spec
CONSTANTS
    WordsOf <- MCWordsOf
    Stem <- MCStem
    Quantity = {"no", "count"}
    LanguageOf <- MCLanguageOf
    FamilyOf <- MCFamilyOf
    Rank <- MCRank
    Mentions = {}
    Chinese = {"cut"}
    Damaged = {"cut"}
    Cleaned <- MCCleaned
    Archive = "source_attributes"
    Name = "name"
    None = None
    p = p
    q = q
    Layers = {p, q}
    Source <- MCSource
    Panel <- MCPanel
    Classes <- MCClasses
    a = a
    b = b
    Tracks = {a, b}
    Archived = {}
    Collections <- MCCollections
    Served <- MCServed
    Writable = {}
    Choices <- MCChoices
    Bulk = TRUE
    ChunkSize = 2
    CanStyle = TRUE
    NoStyle = NoStyle
    ShortReads = FALSE
    MaxRuns = 2
    MaxLosses = 1
SYMMETRY TrackSymmetry
INVARIANTS ExhaustiveIsSwept RecordsAreTrue
PROPERTIES LabelsAreWellFormed CopiesAreAsked
