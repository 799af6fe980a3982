CONSTANTS
  MaxCalls = 3
  Types = {"dev", "custom"}
  Namespaces = {"a", "b"}
  Asks = {{}, {"*"}, {"a", "b"}}
  CustomRoles = {"r1"}
SPECIFICATION Spec
INVARIANTS  GrantedAccountWorks
PROPERTIES DeletedStaysDeleted
CHECK_DEADLOCK FALSE
