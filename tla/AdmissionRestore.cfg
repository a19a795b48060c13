SPECIFICATION Spec
CONSTANTS
  Attendees = {a1}
  Operations = {o1, o2}
  Requests = {r1}
  Backups = {b1, b2}
  None = None
  MaxSerial = 2
  MaxVersion = 1
  MaxFaults = 2
SYMMETRY Symmetry
INVARIANTS TypeOK SingleAdmission AckIsDurable AckIsUsed UsedHasAdmission
PROPERTIES DeadCredentialStaysDead RecordIsKept
