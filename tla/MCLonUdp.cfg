SPECIFICATION FairSpec
CONSTANTS
    Nodes = {"a", "b"}
    Announcers = {"b"}
    Talkers = {"a"}
    LonAddresses <- MCLonAddresses
    RandomAddresses <- MCRandomAddresses
    Ips <- MCIps
    FirstIps <- MCFirstIps
    MaxMapInfo = 2
    MaxInFlight = 1
    MaxChanges = 1
    None = None
PROPERTIES
    ReplyReachesSender
    AddresseeIsReached
INVARIANTS
    SourceIsTrue
    MappingIsUnique
