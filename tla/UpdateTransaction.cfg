SPECIFICATION FairSpec
CONSTANTS
    MaxVersion = 4
    MaxNonce = 3
    Digest <- MCDigest
INVARIANTS
    Recoverable
    Consistent
    NeverDowngrades
    GuiObligation
    RecoveryInvariant
PROPERTIES
    ServiceReturns
