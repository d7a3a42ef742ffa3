SPECIFICATION Spec
CONSTANTS
  a = a
  b = b
  c = c
  Message = {a, b, c}
  RateWindow = 2
  MaxEvents = 2
  Suppression = 3
  MaxTracked = 3
  Never = Never
  MaxPending = 2
  MaxSent = 7
  MaxTime = 7
SYMMETRY Symmetry
INVARIANTS DropsAreDue TwoWindowsAtMost NoEarlyRepeats
