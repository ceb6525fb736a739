\* Two clients, two attributes of up to two bytes.
CONSTANTS
    n1 = n1
    n2 = n2
    a = a
    b = b
    c1 = c1
    c2 = c2
    Names = {n1, n2}
    Byte = {a, b}
    Clients = {c1, c2}
    MaxLength = 2
SYMMETRY Symmetry
SPECIFICATION Spec
INVARIANT TypeOK
PROPERTY ImplementsAttributes
