SPECIFICATION FairSpec
CONSTANTS
  u1 = u1
  u2 = u2
  u3 = u3
  cufeA = cufeA
  cufeB = cufeB
  h1 = h1
  h2 = h2
  x = x
  y = y
  r1 = r1
  Cufes = {cufeA, cufeB}
  Heads = {h1, h2}
  Bodies = {x, y}
  Docs <- MCDocs
  Uploads = {u1, u2, u3}
  Readers = {r1}
INVARIANT TypeOK
INVARIANT ReadIsOneVersion
PROPERTY SaveIsAtomic
PROPERTY IdsAreStable
PROPERTY EverySaveEnds
