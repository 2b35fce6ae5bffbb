SPECIFICATION Spec
CONSTANTS
    Base = 3
    NS_PROTOCOL_VERSION = 1
    Types <- MCTypes
    NS_PACKET_BODY_MAX = 2
    Headers <- MCLegal
    NS_PACKET_HEADER_SIZE = 2
    MaxPackets = 2
    WireCap = 2
INVARIANT DeliveredInOrder
