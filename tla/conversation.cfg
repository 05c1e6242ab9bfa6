\* Both nodes may open a conversation of every kind.
CONSTANTS
    A = A
    B = B
    Kinds = {"handshake", "ping", "heartbeat", "membership"}
SPECIFICATION Spec
PROPERTIES FallsSilent
CHECK_DEADLOCK FALSE
