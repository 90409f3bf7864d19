CONSTANTS
  MaxLines = 6
  Lengths = {1, 2}
  Fac = 2
  Slots = 1
  Width = 2
SPECIFICATION Spec
INVARIANT TypeOK
INVARIANT FileIsSerial
INVARIANT SortSeesWholeBatch
PROPERTY LinesStay
