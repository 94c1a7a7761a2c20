SPECIFICATION Spec
CONSTANTS
    MaxVersion = 2
    MaxNonce = 1
    Digest <- MCDigest
INVARIANTS
    NeverKillsServing
