\* Room for one session each, so that the third node's connection evicts; two
\* connections at a time, opened anew for ever.
SPECIFICATION FairSpec
CONSTANTS
  Nodes = {1, 2, 3}
  Connections = {c1, c2}
  Dials <- MCDials
  Expellable <- MCExpellable
  SessionsMax = 1
  HandshakesMax = 1
  None = None
INVARIANT TypeOK ServedIsHeld DialsConverge
PROPERTY RefusedStayOut TablesAgree
