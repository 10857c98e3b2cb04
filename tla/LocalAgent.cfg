SPECIFICATION FairSpec
CONSTANTS
  Agents = {a1}
  Sessions = {s1, s2}
  Invokes = {i1}
  Switches = {w1}
  Workspaces = {home}
  None = None
INVARIANT TypeOK
PROPERTIES SessionSound BrokenLinkWakes
