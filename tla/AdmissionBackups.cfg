SPECIFICATION Spec
CONSTANTS
  Attendees = {a1}
  Operations = {o1}
  Requests = {r1}
  Backups = {b1, b2}
  None = None
  MaxSerial = 1
  MaxVersion = 2
  MaxFaults = 2
SYMMETRY Symmetry
INVARIANT AckIsInJournal
