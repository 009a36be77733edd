\* A file of up to four characters, an old and a new text of up to two.
CONSTANTS
    Alphabet = {"x", "$", "&", "n"}
    Newline = "n"
    MaxText = 4
    MaxOldText = 2
    MaxNewText = 2
SPECIFICATION EditTextSpec
INVARIANTS
    EditIsWhatWasAsked
CHECK_DEADLOCK FALSE
