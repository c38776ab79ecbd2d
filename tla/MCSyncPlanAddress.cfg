SPECIFICATION PlanSpec
CONSTANTS
  Hosts = {1, 2}
  Gateways = {"g1"}
  Focuses = {"address"}
PROPERTY AddressOfTransport
CHECK_DEADLOCK FALSE
