SPECIFICATION FairSpec
CONSTANTS
  reads = reads  derives = derives  stampF = stampF  stampG = stampG  f = f  g = g
  Specs = {reads, derives}
  Texts = {a, bad}  Undecodable = {bad}  Files = {f, g}
  Stamp <- MCStamp  ReadsInput <- MCReads
  EmptyText = EmptyText  NoFile = NoFile  None = None
  MaxJob = 5  MaxMount = 2
CHECK_DEADLOCK FALSE
INVARIANTS TypeOK UnmarkedIsCurrent OnlyNewestReads
PROPERTIES AnswersLatest RunEnds
