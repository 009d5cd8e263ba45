SPECIFICATION Spec
CONSTANTS
    MaxLen = 3
    Hash = hash
    MaxTitle = 6
INVARIANT SlugIsWellFormed
INVARIANT TrimKeepsWholeWords
