SPECIFICATION Spec
CONSTANTS
    Cache = {1, 2}
    Tag = {"a", "b"}
    NoTag = "none"
    Variants <- MCVariants
INVARIANTS NoLineTwice OneOwner ListIsRecency VictimIsFree
PROPERTY VictimFollowsUse
