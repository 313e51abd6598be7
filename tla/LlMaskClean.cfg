SPECIFICATION Spec
CONSTANTS
  Ranks <- Three
  Links <- MCLinks
  MaxCleans = 1
 
PROPERTY CleansEnd
