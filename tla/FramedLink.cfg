SPECIFICATION FairSpec
CONSTANTS
  Requests <- MCRequests
  ReplyTo <- MCReplyTo
INVARIANTS
  TypeOK
  InStep
PROPERTIES
  LinkSpec
  AllAnswered
CHECK_DEADLOCK FALSE
