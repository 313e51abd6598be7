SPECIFICATION Spec
CONSTANTS
  Ranks <- Two
  Links <- NearLinks
  MaxCleans = 1
INVARIANT ZeroedBeforeLeave
