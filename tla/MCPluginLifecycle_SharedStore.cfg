SPECIFICATION Spec
CONSTANTS
    Servers = {s1, s2}
    Plugins = {"m", "n"}
    Versions = {1, 2}
    Requires <- MCRequires
    Builtins <- NoBuiltins
    Required = {}
    Renders = {}
    MaxLoads = 3
    MaxLostReplies = 0
INVARIANT StoreStartable
