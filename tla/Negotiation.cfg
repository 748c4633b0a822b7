SPECIFICATION MCSpec
CONSTANTS
  None = None
  MaxEarly = 1
  Ip4s <- MCIp4s
  Ip6s <- MCIp6s
  Ports <- MCPorts
  Names <- MCNames
  LengthOf <- MCLengthOf
  TextOf <- MCTextOf
  NulNames <- MCNulNames
  Requests <- MCRequests
  Clients <- MCClients
  Outbounds <- MCOutbounds
  Binds <- MCBinds
  Sources <- MCSources
  Splits <- MCSplits
  AppData <- MCAppData
  RemoteData <- MCRemoteData
  Unspecified <- MCUnspecified
  Proxy <- MCProxy
  RelaySocket <- MCRelaySocket
  DnsOf <- MCDnsOf
  Packing <- MCPacking
  Files <- MCFiles
  Args <- MCArgs
  Sockets <- MCSockets
  PskLen <- MCPskLen
  NumberOf <- MCNumberOf
INVARIANTS SettingsInEffect Routed StreamsIntact
PROPERTIES RequestAnswered SetupEnds
CHECK_DEADLOCK FALSE
