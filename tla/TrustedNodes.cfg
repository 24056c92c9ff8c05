CONSTANTS
    NumFaults = 1
    ConstFactor = 2
    Dummy = Dummy
    A = A
    Hash <- MCHash
    Proposed <- MCProposed
    Unsigned <- MCUnsigned
    MaxStamp <- MCMaxStamp
SPECIFICATION Spec
INVARIANTS TypeOK SignOnce UniqueCertificate LockBacked
PROPERTIES NeverBack RefinesSigner
CHECK_DEADLOCK FALSE
