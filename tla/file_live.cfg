SPECIFICATION FairSpec
CONSTANTS
  cipher = cipher  variants = variants  oneShot = oneShot  archive = archive  refused = refused
  Calls = {cipher, archive, refused}  Variants = {}  Oversize = {refused}  Large = {archive}  Retaining = {cipher}
  Mode <- MCMode  Whole <- MCWhole  Cut <- MCCut
  Chunks = 2  Interval = 2
CHECK_DEADLOCK FALSE
PROPERTIES Settles
