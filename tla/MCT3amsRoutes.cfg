SPECIFICATION Spec
PROPERTIES FreshIsAcknowledged RetainedIsHandled
CHECK_DEADLOCK FALSE
CONSTANTS
  alice = alice
  bob = bob
  None = none
