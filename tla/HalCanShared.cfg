SPECIFICATION Spec
CONSTANTS
  Threads = {t1, t2}
  Serial = FALSE
  Unpluggable = TRUE
  NFds = 2
  MaxOther = 1
  Threshold = 1
  Wrap = 2
SYMMETRY Symmetric
PROPERTY
  ImplementsPort
