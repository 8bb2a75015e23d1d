SPECIFICATION Spec
CONSTANTS
  READ_BUFFER_SIZE = 3
  MaxBody = 7
CHECK_DEADLOCK FALSE
INVARIANTS TypeOK ListenerGetsBody ReportsOnce NoUseAfterDelete StackStaysFlat SuccessIsWhole
