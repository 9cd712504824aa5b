CONSTANTS
    N <- MCN
    ParentEntry <- MCParentEntry
    PrevSibling <- MCPrevSibling
    Href <- MCHref
    Pages <- MCPages
    Suffixes <- MCSuffixes
    InitiallyExpanded <- MCInitiallyExpanded
    Offsets <- MCOffsets
    Center <- MCCenter
    NoValue = NoValue
    StorageModes = {TRUE, FALSE}
SPECIFICATION Spec
INVARIANTS
    TypeOK
    AtMostOneActive
    CurrentPageActive
    ActivePathExpanded
PROPERTIES
    LoadCompletes
    ScrollRoundTrip
    AbstractSpec
