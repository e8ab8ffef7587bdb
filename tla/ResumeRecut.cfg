CONSTANTS
    Builds = {1}
    SizeOf <- OnlyOne
    Lengths = {1, 2}
SPECIFICATION Spec
INVARIANT RecutIsSafe
