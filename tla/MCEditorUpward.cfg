SPECIFICATION Spec
CONSTANTS
    a = a
    nl = nl
    cr = cr
    nul = nul
    EditBuffSize = 7
    ClipboardSize = 8
    MaxR = 9
    MaxC = 8
    PageLines = 2
    OpenContext = 1
    SearchContext = 1
    PrintableChars = {}
    FileBytes <- MCPrintable
    NL <- nl
    CR <- cr
    NUL <- nul
    Documents <- EditDocuments
    SearchTerms = {}
    ErrorLines = {}
PROPERTIES
    CopyFromBottomToTop
