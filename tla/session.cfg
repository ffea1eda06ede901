SPECIFICATION FairSpec
CONSTANTS
  hash = hash  generator = generator  keys = keys  s1 = s1  s2 = s2
  f = f  stampF = stampF  stampG = stampG  Stamp <- MCStamp
  Tools = {hash, keys, generator}  Specs = {s1, s2}
  Texts = {a, b}  Undecodable = {b}  Files = {f, g, h}
  EmptyText = EmptyText  NoFile = NoFile  NoSpec = NoSpec
  AcceptedModes <- MCAccepted  ReadsInput <- MCReads  HasMaterial <- MCMaterial
  MaxJob = 2
CHECK_DEADLOCK FALSE
INVARIANTS TypeOK TimerIsCurrent AutoIsFresh AutoNeverStalls
PROPERTIES JobsArePressed SettingsReasonIsTrue AnswersLatest AutoSettles FilesStayCurrent
