SPECIFICATION HostSpec
CONSTANTS
  Null = Null
  Unstated <- Unsaid
  Ips = {"any", "lan1", "lan2", "v6"}
  AnyIp = "any"
  Catalog <- Channeled
  Default <- Product
  Forms <- Drafted
  Issued <- Certified
  Files <- Chosen
  Clients <- Presented
  Lans = {"lan1", "lan2"}
  Ports = {1}
  Unresolved = {"gone"}
  MaxTimeout = 2
  MaxBody = 2
  MaxU32 = 2
  Channels = {"one", "two"}
  Conns = {"a", "b"}
  MaxStarts = 2
  MaxAccepts = 2
  Plans <- AllPlans
  DefaultChunk = 2
  Second = 2
  MaxStall = 1
INVARIANTS SavedStarts OwnIdentityAdmitted InOrder EndsAreTrue EstimateCovers
PROPERTIES StatusIsTrue
CHECK_DEADLOCK FALSE
