SPECIFICATION FairSpec
CONSTANTS
    Base = 3
    NS_PROTOCOL_VERSION = 1
    Types <- MCTypes
    NS_PACKET_BODY_MAX = 2
    Headers <- MCHeaders
    NS_PACKET_HEADER_SIZE = 3
    MaxPackets = 3
    WireCap = 3
INVARIANTS
    TypeOK
    InOrderUnlessCut
    WithinBuffers
    EndHasCause
PROPERTIES
    ChannelSpec
    WholeIsDelivered
