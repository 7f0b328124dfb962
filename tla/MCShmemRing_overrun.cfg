\* The slot count does not divide the index range, as 15 does not divide 2^32.
CONSTANTS
    m1 = m1
    m2 = m2
    Zero = Zero
    Messages <- MCMessages
    Slots = 3
    Modulus = 7
    IndexLimit = 7
    MaxFlips = 0
SPECIFICATION Spec
INVARIANT NoOverwrite
