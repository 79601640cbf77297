SPECIFICATION Spec
CONSTANTS
  MaxChars = 3
  Wide = {2}
  MaxNum = 2
INVARIANTS OutputOnce NumbersFollow CharsInOrder
PROPERTIES CharsArrive
