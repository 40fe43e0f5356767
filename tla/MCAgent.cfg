SPECIFICATION Spec
CONSTANTS
    p1 = p1
    p2 = p2
    Pods <- MCPods
    This = "here"
    Nodes <- MCNodes
    Specs <- MCSpecs
    Hosts <- MCHosts
    MaxVer = 2
    MaxFails = 1
    MaxKills = 1
INVARIANTS TypeOK IInv NoForgottenPod
PROPERTIES HandsOverItsOwn Converges
CHECK_DEADLOCK FALSE
