SPECIFICATION FairSpec
CONSTANTS
  Threads = {t1, t2}
  Serial = TRUE
  Unpluggable = TRUE
  NFds = 3
  MaxOther = 3
  Threshold = 2
  Wrap = 3
INVARIANTS
  OneSocket
  NoForeignFile
PROPERTY
  LinkComesBack
