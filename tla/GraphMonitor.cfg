\* An rcllite peer with a writer and a reader, and the monitor with a reader of its own.
CONSTANTS
    self = self
    lite = lite
    ros = ros
    ownReader = ownReader
    writer = writer
    reader = reader
    liteNode = liteNode
    rosNode = rosNode
    rosEnclave = rosEnclave
    NoName = NoName
    Peers = {self, lite}
    Self = self
    Endpoints = {ownReader, writer, reader}
    Home <- HomeLite
    Writers = {writer}
    Topic <- TopicOf
    Kind <- KindOf
    Plumbing = {"rosout"}
    Enclave <- Enclaves
    NodeName <- Announces
    Ros = {}
    Batch = 1
    MaxLogs = 2
    Records = 4
    MayFail = TRUE
SPECIFICATION Spec
INVARIANTS
    CaughtUp
    ObserverInvisible
    LogsAreNewest
PROPERTIES
    StopEnds
CHECK_DEADLOCK FALSE
