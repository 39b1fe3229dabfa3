\* The lexer's tables, on some of the bytes.
SPECIFICATION FairWalkSpec
CONSTANTS
  Bytes <- SomeBytes
  States <- LEXSTATES
  Start = 0
  Fail <- FAIL
  Accepting <- ACCEPTING
  LastState = 67
  Delta <- SomeDelta
  Period = 2
INVARIANTS SentIsAccepted ChoiceExists
PROPERTIES MessagesEnd
