\* Configs with and without the optional client block, every bind form of
\* MCBindAll, and open, set_option and bind failing with any of the errors they report.
CONSTANTS
  c1 = c1
  c2 = c2
  Clients <- MCClients
  W = 3
  ChannelVals <- MCChannelVals
  ClientOpts = {"absent", "visible"}
  BindSpecs <- MCBindAll
  Endpoints = {"e1", "e2"}
  AcceptorFaults = {"address_in_use", "address_not_available", "permission_denied", "no_protocol_option", "address_family_not_supported"}
SPECIFICATION Spec
SYMMETRY MCSymmetry
INVARIANT ValidatedConfigServes
\* A rejected, failed or exited start-up stops the process.
CHECK_DEADLOCK FALSE
