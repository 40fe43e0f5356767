SPECIFICATION Spec
CONSTANTS
    p1 = p1
    p2 = p2
    Words <- MCWords
    Pods <- MCPods
    Qos <- MCQos
    Nodes <- OldNodes
    Defaults <- MCDefaults
    MaxChanges = 0
    MaxFails = 0
INVARIANTS AdaptsOldKubelet
