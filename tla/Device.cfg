CONSTANTS
  NULL = NULL
  a = a  b = b  v1 = v1
  Devices = {a, b}
  Port = a
  PortNames = {3, 10}
  MaxAdds = 2
  Writes = {v1}
SPECIFICATION FairSpec
INVARIANTS TypeOK NoStaleEntry BuffersAccounted WriteHasPipe
PROPERTIES ImplementsService CancelIsAnswered
