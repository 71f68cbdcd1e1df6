CONSTANTS
  t1 = t1  pnp = pnp
  Setters = {t1}
  Pnp = pnp
  BaudRates <- ListedRates
  LineControls <- SomeLineControls
  HandFlows <- SomeHandFlows
SPECIFICATION Spec
INVARIANTS ContextIsCurrent BaudAsAsked StoredBaudIsAccepted
PROPERTY OneLineAtATime
CHECK_DEADLOCK FALSE
