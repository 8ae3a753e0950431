CONSTANTS
  NameFields = {"full_name"}
  ContactFields = {"phone_number"}
  NeedFields = {"business_requirement"}
  KnownFields = {"full_name", "phone_number"}
  MaxEdits = 1
  Requests = {r1, r2, r3}
  StartRows <- MCStartRows
  TriedReplies <- MCReplies
SPECIFICATION Spec
INVARIANTS TypeOK
PROPERTIES OnlyResetReopens DriftNeedsTornRead EndsUnlessSpokenOver
CHECK_DEADLOCK FALSE
