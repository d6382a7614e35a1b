CONSTANTS
  r1 = r1
  r2 = r2
  Requests = {r1, r2}
  Inputs <- AllInputs
  Assets <- AssetBytes
  UploadPath <- UploadBytes
  Nobody = Nobody
SPECIFICATION Spec
CHECK_DEADLOCK FALSE
INVARIANTS TypeOK OwnEnvironment UploadIsAuthorized LoggedIsSent AnswersAsPromised
PROPERTY RequestsEnd
