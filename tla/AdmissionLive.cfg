SPECIFICATION FairSpec
CONSTANTS
  Attendees = {a1}
  Operations = {o1, o2}
  Requests = {r1, r2}
  Backups = {}
  None = None
  MaxSerial = 2
  MaxVersion = 2
  MaxFaults = 1
PROPERTY AdmissionIsAnswered
