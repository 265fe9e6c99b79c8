SPECIFICATION Spec
CONSTANTS
    Texts <- CommentTexts
    Moded <- NoTexts
    Letters <- MCLetters
    Reserved <- MCReserved
    Keys = {"key"}
INVARIANTS
    TokensAreThoseOfTheText
