SPECIFICATION LinkSpec
CONSTANT MaxVersion = 3
INVARIANTS LinkInv Undone
