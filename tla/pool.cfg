CONSTANTS
  t1 = t1
  t2 = t2
  t3 = t3
  c1 = c1
  c2 = c2
  Thread = {t1, t2, t3}
  Conn = {c1, c2}
  MaxConn = 1
  NoThread = NoThread
  NoConn = NoConn
  MaxOutages = 1
SPECIFICATION Spec
SYMMETRY Symmetric
INVARIANTS OneHolder SlotsReturned CapKept
