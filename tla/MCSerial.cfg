SPECIFICATION FairSpec
CONSTANTS
  INTQ_BUFSIZE = 3
  NULL = NULL
  Main = main
  Writer = {main, w1}
  Reader = {r1, r2}
  MaxOut = 5
  MaxIn = 3
INVARIANTS
  CharactersInOrder
  WaitersServed
PROPERTIES
  OutputSent
  WriterResumes
