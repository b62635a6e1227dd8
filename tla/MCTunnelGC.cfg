\* Two tunnels, every observation, every GC decision.
CONSTANTS
    p1 = p1
    p2 = p2
    Ports <- MCPorts
SYMMETRY MCSymmetry
SPECIFICATION Spec
PROPERTY ActiveTunnelKept
