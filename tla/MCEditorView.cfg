SPECIFICATION Spec
CONSTANTS
    a = a
    nl = nl
    cr = cr
    nul = nul
    EditBuffSize = 6
    ClipboardSize = 2
    MaxR = 4
    MaxC = 2
    PageLines = 2
    OpenContext = 1
    SearchContext = 1
    PrintableChars <- MCPrintable
    FileBytes = {}
    NL <- nl
    CR <- cr
    NUL <- nul
    Documents <- EditDocuments
    SearchTerms <- MCSearchTerms
    ErrorLines <- EditErrorLines
INVARIANTS
    TypeOK
PROPERTIES
    ColumnVisible
    LineKeysKeepRowVisible
    SearchVisitsNextHit
