CONSTANTS
  p1 = p1
  p2 = p2
  src = src
  hdr = hdr
  a = a
  b = b
  Procs = {p1, p2}
  Files = {src, hdr}
  Contents = {a, b}
  Inputs <- MCInputs
  Imports <- MCImports
  Granule = 2
  Cuts = {0}
  MaxTime = 5
  MaxInode = 2
  MaxEdits = 2
  Nobody = Nobody
  Null = Null
  Torn = Torn

SPECIFICATION Spec

SYMMETRY Symmetry

INVARIANTS
  
  ManifestTruthful
  HashMatchesFiles
  HitIsRight

PROPERTIES
  NoSpuriousMiss
