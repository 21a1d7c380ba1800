SPECIFICATION Spec
CONSTANTS
    Servers = {s1}
    Plugins = {"m", "n"}
    Versions = {1, 2}
    Requires <- MCRequires
    Builtins <- MCBuiltins
    Required = {"n"}
    Renders = {r1, r2}
    MaxLoads = 3
    MaxLostReplies = 1
INVARIANTS ClosedWhenDrained PublishedGraph RestartsAsIs
PROPERTIES ReplacedAtOnce UnpublishedCloses
