SPECIFICATION RulingsSpec
CONSTANTS
    server = server
    e2e = e2e
    computeE2e = computeE2e
    goods = goods
    credit = credit
    retired = retired
    lease = lease
    Malformed = Malformed
    NoCode = NoCode
    Invented = Invented
    HsCodes <- MCHsCodes
    chapterOf <- MCChapterOf
    headingOf <- MCHeadingOf
    ProhibitedHeadings = {"3604"}
    ProhibitedChapters = {"93"}
    PurposeFlags = {"weapon"}
    IntegrityFlags = {"double_counting"}
    RecognisedRegistries = {"VCS"}
    RawConfidences <- MCRawConfidences
    Processes <- MCProcesses
    ledgerOf <- MCLedgerOf
    Rulings <- MCRulings
    processOf <- MCProcessOf
    kindOf <- MCKindOf
    Served = server
    MaxCalls = 2
    Attempts = 2
    HsAnswers <- MCHsAnswers
    GroundAnswers <- MCGroundAnswers
    CarbonAnswers <- MCCarbonAnswers
    ComputeAnswers <- MCComputeAnswers
    Classes <- MCClasses
    Tonnes = 1
    ThisYear = 2026
INVARIANTS OverrunBounded  FactsOutrankModel
CHECK_DEADLOCK FALSE
