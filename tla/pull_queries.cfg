SPECIFICATION Spec
CONSTANTS
  t1 = t1
  t2 = t2
  t3 = t3
  NoDevice = NoDevice
  None = None
  Wake = Wake
  Task = {t1, t3}
  Device = {0, 1}
  Pref <- Mixed
  s1 = s1
  s2 = s2
  Slot = {s1, s2}
  Faulty = {t1}
  MaxQuery = 2
  MaxRetry = 1
  MaxOom = 1
  MaxBorrow = 1
PROPERTY DeviceIsForgottenOnlyByStart
INVARIANT NoMissedMatch
INVARIANT SlotsAccounted
INVARIANT PreferenceIsBinding
SYMMETRY Symmetry
CHECK_DEADLOCK FALSE
