SPECIFICATION FairSpec
CONSTANTS
  Threads = {t1}
  Serial = TRUE
  Unpluggable = TRUE
  NFds = 2
  MaxOther = 1
  Threshold = 2
  Wrap = 2
PROPERTY
  RecoversAfterReplug
