CONSTANTS
  NameFields = {"full_name"}
  ContactFields = {"phone_number"}
  NeedFields = {"business_requirement"}
  KnownFields = {"full_name"}
  MaxEdits = 1
SPECIFICATION Spec
PROPERTY SummaryNeedsYes
