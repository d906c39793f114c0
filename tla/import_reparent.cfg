SPECIFICATION Spec
\* an import ends when it is saved
CHECK_DEADLOCK FALSE
CONSTANTS
  free = free
  locked = locked
  Blank = Blank
  Kode = {free, locked}
  Top = 2
  MaxRows = 3
  FileRow <- MCFileRow
  NewKode = {free}
  NewPagu = {5}
  NewSd = {3}
  MaxEdits = 1
INVARIANT ShownIsSaved
