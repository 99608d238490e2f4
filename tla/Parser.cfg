\* Every line of up to four characters, and the lines of up to six of MCParser.
SPECIFICATION Spec
CONSTANTS
    Plain = {"a"}
    Lines <- MCLines
    MaxToken = 5
    TokenSize = 3
    MaxArgs = 3
    Statuses = {"0"}
    SyntaxError = "2"
    MemoryError = "1"
INVARIANTS
    TypeOK
    TokensCoverLine
    ParsesGrammar
