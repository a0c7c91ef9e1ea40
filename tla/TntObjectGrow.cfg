CONSTANTS
    StackInit = 2
    StackMax = 4
    FixMax = 1
    ShortMax = 2
    DeclaredSizes = {0, 2}
    MaxAdds = 5
SPECIFICATION ObjectSpec
INVARIANT ClosesKnown
