CONSTANTS
    GatewayMatches <- MCGatewayMatches
    GatewayClaims <- MCGatewayClaims
    Aggregating = {"service"}
    Contributed <- MCContributed
    DomainLayout <- MCDomainLayout
    Inputs <- MCInputs
    Paged <- MCPaged
    PageSize = 2
    Views <- MCViews
    NodeThreshold = 2
    Keep = 1
    Exploring <- MCExploring
    Extracted <- MCExtracted
    Judged <- MCJudged
    Companions <- MCCompanions
    GateChoices <- MCGates
    Slices <- MCSlices
    Cell = 4000
    Limit = 4
    SetOrders <- MCSetOrders
    ContextKinds = {"gateway"}
SPECIFICATION Spec
CHECK_DEADLOCK FALSE
INVARIANTS NothingIsLost ImplementationsAgree TimeAddsUp FindingsExplain SignalsStayVisible VerdictsAreEarned
