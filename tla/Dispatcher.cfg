SPECIFICATION Spec
CONSTANTS
  Stores = {1, 2, 3}
  Authorized = {1, 2}
  Stocked = {1, 3}
  Runs = {r1, r2}
  Mortal = {r1, r2}
  MaxSlot = 2
  MaxJobs = 2
  Nobody = Nobody
INVARIANT TypeOK
INVARIANT NoDoubleDispatch
INVARIANT SlotIsServed
INVARIANT LocksAreReleased
SYMMETRY RunSymmetry
