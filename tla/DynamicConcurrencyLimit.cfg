SPECIFICATION Spec
CONSTANTS
  Tasks = {t1, t2, t3, t4, t5}
  MaxLimit = 3
INVARIANTS
  TypeOK
  SlotConservation
  NoLostWakeup
PROPERTIES
  EveryWaiterServed
