SPECIFICATION Spec
CONSTANTS
    Lower <- MCLower
    Paths <- MCPaths
    Trees <- MCTrees
    Links <- MCLinks
    Backing <- MCBacking
    Calls <- MCCalls
    MaxLinks = 2
    NoAnswer = NoAnswer
    MaxChanges = 1
PROPERTY CaseInsensitive
