CONSTANTS
    Certs = {c1, c2}
    NoCert = NoCert
    NoDigest = NoDigest
    KnownAlgs <- MCKnownAlgs
    UnknownAlgs <- MCUnknownAlgs
    Lengths <- MCLengths
    DigestSize <- MCDigestSize
    MaxSignal = 2
SYMMETRY MCSymmetry
SPECIFICATION Spec
INVARIANTS
    ExportNeverCrashes
