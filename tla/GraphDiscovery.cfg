\* Two peers announce their nodes.
CONSTANTS
    self = self
    lite = lite
    ros = ros
    ownReader = ownReader
    writer = writer
    reader = reader
    liteNode = liteNode
    rosNode = rosNode
    rosEnclave = rosEnclave
    NoName = NoName
    Peers = {self, lite, ros}
    Self = self
    Endpoints = {writer}
    Home <- HomeRos
    Writers = {writer}
    Topic <- TopicOf
    Kind <- KindOf
    Plumbing = {"rosout"}
    Enclave <- Enclaves
    NodeName <- Announces
    Ros = {ros}
    Batch = 1
    MaxLogs = 1
    Records = 0
    MayFail = FALSE
SPECIFICATION Spec
INVARIANT
    DiscoveryIsCurrent
CHECK_DEADLOCK FALSE
