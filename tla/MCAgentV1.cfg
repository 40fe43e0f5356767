SPECIFICATION Spec
CONSTANTS
    p1 = p1
    p2 = p2
    Pods <- MCPods
    This = "here"
    Nodes <- MCNodes
    Specs <- MCSpecs
    Hosts <- CgroupV1
    MaxVer = 2
    MaxFails = 0
    MaxKills = 0
INVARIANTS MainFlowOnlyOnV2
CHECK_DEADLOCK FALSE
