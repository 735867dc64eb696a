SPECIFICATION Spec
CONSTANTS
    p = p
    q = q
    k1 = k1
    k2 = k2
    Adder = {p, q}
    Name = {"bob.old", "bob.new"}
    FileOf <- MCFileOf
    Key = {k1, k2}
    Missing = Missing
    Truncated = Truncated
    MaxRuns = 3
PROPERTIES
    ValidatorFilesFit
    KeysAreKept
SYMMETRY MCSymmetry
