SPECIFICATION Spec
CONSTANTS
  a = a
  b = b
  empty = empty
  f = f
  g = g
  null = null
  Names <- TwoNames
  Empty = empty
  Files <- TwoFiles
  None = null
  Flags <- SomeFlags
  Stored <- WithStorage
  Found <- SomeFound
  MountPaths <- WhereToMount
  OpenPaths <- WhatToOpen
INVARIANTS
  TypeOK
  SiblingsUnique

  
