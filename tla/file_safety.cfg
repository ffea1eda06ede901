SPECIFICATION Spec
CONSTANTS
  cipher = cipher  variants = variants  oneShot = oneShot  archive = archive  refused = refused
  Calls = {cipher, variants, oneShot}  Variants = {variants}  Oversize = {}  Large = {oneShot}  Retaining = {cipher}
  Mode <- MCMode  Whole <- MCWhole  Cut <- MCCut
  Chunks = 3  Interval = 2
CHECK_DEADLOCK FALSE
INVARIANTS TypeOK MemoryIsBounded ProgressEndsFull
PROPERTIES SettledIsOver KeepsPromise
