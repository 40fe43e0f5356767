SPECIFICATION Spec
CONSTANTS
    p1 = p1
    p2 = p2
    Words <- MCWords
    Pods <- MCPods
    Qos <- MCQos
    Nodes <- AllNodes
    Defaults <- MCDefaults
    MaxChanges = 1
    MaxFails = 1
INVARIANTS TypeOK IInv ServerIsKubelets ToolkitOnItsCgroup
PROPERTIES EveryPodGetsToolkit
