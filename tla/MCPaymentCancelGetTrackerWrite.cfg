CONSTANTS
  m1 = m1
  m2 = m2
  p1 = p1
  p2 = p2
  Merchants = {m1, m2}
  Payments = {p1, p2}
  Owner <- MCOwner
  Reasons = {rs1}
  None = None
  Requests = {t1, t2}
SPECIFICATION Spec
PROPERTY GetTrackerFailureWritesNothing
