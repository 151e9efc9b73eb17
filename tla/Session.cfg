CONSTANTS
  t1 = t1  t2 = t2  alice = alice  bob = bob
  Threads = {t1, t2}
  Clients = {alice, bob}
  Nobody = Nobody
  maxAge = 1
  MaxTime = 2
  MaxSessions = 2
SYMMETRY Symmetry
SPECIFICATION Spec
INVARIANTS TypeOK Isolation ActiveKept LogoutFinal LapseFinal
CHECK_DEADLOCK FALSE
