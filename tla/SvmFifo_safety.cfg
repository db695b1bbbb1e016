SPECIFICATION Spec
CONSTANTS
  c1 = c1
  c2 = c2
  c3 = c3
  Nil = Nil
  Chunks = {c1, c2, c3}
  Length = 2
  W = 16
  Size = 4
  MinAlloc = 2
  MaxLen = 3
  Roles = {"rx", "tx"}
SYMMETRY Symmetry
INVARIANT ReadExact
INVARIANT ChunksConserved
INVARIANT NoStaleChunk
INVARIANT OooCanonical
PROPERTY IsReassembly
