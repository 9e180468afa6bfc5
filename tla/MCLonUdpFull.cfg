SPECIFICATION Spec
CONSTANTS
    Nodes = {"a", "b"}
    Announcers = {"b"}
    Talkers = {"a"}
    LonAddresses <- MCLonAddresses
    RandomAddresses <- MCRandomAddresses
    Ips <- MCIps
    FirstIps <- MCFirstIps
    MaxMapInfo = 1
    MaxInFlight = 1
    MaxChanges = 1
    None = None
PROPERTY ReplyReachesSender
