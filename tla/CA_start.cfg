\* Every config with a client block and a well-formed bind; a resolver that
\* may fail or answer with one or two addresses; open/bind failing only with
\* the errors handle_error treats as fatal.  Alloc and free by two clients.
CONSTANTS
  c1 = c1
  c2 = c2
  Clients <- MCClients
  W = 3
  ChannelVals <- MCChannelVals
  ClientOpts = {"visible", "bogus"}
  BindSpecs <- MCBindWellFormed
  Endpoints = {"e1", "e2"}
  AcceptorFaults = {"address_in_use", "address_not_available"}
SPECIFICATION Spec
SYMMETRY MCSymmetry
INVARIANT ValidatedConfigServes ChannelsDistinct
\* A rejected, failed or exited start-up stops the process.
CHECK_DEADLOCK FALSE
