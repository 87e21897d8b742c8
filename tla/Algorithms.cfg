SPECIFICATION Spec
CONSTANTS
    Absent = Absent
    VcsPaths = {"v"}
    Unset = Unset
    Word = 8
    NoBytes = NoBytes
    Missing = Missing
    HitSymbol = "x"
    PageInputs <- MCPages
    CutInputs <- MCCuts
    SearchInputs <- MCSearches
    EditInputs <- MCEdits
    SessionInputs <- MCSessions
    HistoryInputs <- MCHistories
    SyncInputs <- MCSyncs
    BlameInputs <- MCBlames
    CodeInputs <- MCCode
    SymbolInputs <- MCSymbols
    RequestInputs <- MCRequests
    ErrorInputs <- MCErrors
INVARIANTS
    PagesReassemble
    ContextIsNeighbours
    EditLandsOnFirst
    ChangesAgree
    HistoryInPages
    ReadsShowRevision
    AddressesAnswered
    FrontEndsAgree
