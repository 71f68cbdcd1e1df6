CONSTANTS
  NULL = NULL
  a = a  b = b  v1 = v1
  Devices = {a}
  Port = a
  PortNames = {3, 10}
  MaxAdds = 1
  Writes = {}
SPECIFICATION Spec
INVARIANT WorkingDeviceHasBuffer
