SPECIFICATION FairSpec
CONSTANTS
    Texts <- MCTexts
    Moded <- SymbolTexts
    Letters <- MCLetters
    Reserved <- MCReserved
    Keys = {"key"}
PROPERTIES
    ImplementsLexer
    EachCallReturns
