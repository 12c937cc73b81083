CONSTANTS
    Workers = {w1, w2, w3}
    Caps = {0, 1, 2}
    MaxLimiters = 3
SPECIFICATION LiveSpec
INVARIANT TokensExact
PROPERTY NobodyStarves
