CONSTANTS
    Bad = Bad
    Nil = Nil
    NoName = NoName
    Registries <- MCRegistries
    Tags <- MCTags
    Digests <- MCDigests
    MaxTags = 2

SPECIFICATION Spec
INVARIANT SameChoiceAsDetermine
CHECK_DEADLOCK FALSE
