\* The decision against the policy the doc comment of tunnel_should_be_kept states.
CONSTANTS
    p1 = p1
    p2 = p2
    Ports <- MCPorts
SYMMETRY MCSymmetry
SPECIFICATION Spec
PROPERTY GCFollowsPolicy
