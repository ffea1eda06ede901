SPECIFICATION Spec
CONSTANTS
  hash = hash  generator = generator  keys = keys  s1 = s1  s2 = s2
  f = f  stampF = stampF  stampG = stampG  Stamp <- MCStamp
  Tools = {hash}  Specs = {s1, s2}
  Texts = {a, b}  Undecodable = {b}  Files = {f}
  EmptyText = EmptyText  NoFile = NoFile  NoSpec = NoSpec
  AcceptedModes <- MCAccepted  ReadsInput <- MCReads  HasMaterial <- MCMaterial
  MaxJob = 3
CHECK_DEADLOCK FALSE
INVARIANT TextDoneIsCurrent
