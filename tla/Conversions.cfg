\* Every message type with every choice of lengths, up to three missing words; two
\* endpoints; the list_parameters service for up to two names and two prefixes.
CONSTANTS
    Parts = {"a", ""}
    MaxParts = 3
    MaxPrefixes = 2
    MaxDepth = 2
    Declared = 2
    Matrix = 1
    Lens = {0, 1, 3, 4, 6}
    ShortLens = {0, 4}
    Garbage <- OtherBytes
    MaxCut = 9
    FragmentSizes = {5, 16}
    Overlaps = {0, 3, 7}
    Tokens <- NameTokens
    MaxTokens = 2
    Namespaces <- NodeNamespaces
SPECIFICATION Spec
INVARIANTS
    ListedExactly
    WireRoundTrip
    TruncationNoticed
    ReadersAgree
    ReaderStaysInBuffer
    EndpointsMeet
    ShownAsNamed
CHECK_DEADLOCK FALSE
