\* Bytes of three values, sizes and CRCs of two bytes; three frames.
CONSTANTS
    Codes <- MCCodes
    Bodies <- MCBodies
    Radix = 3
    SIZE_SIZE = 2
    CRC_SIZE = 2
    MaxFrames = 3
SPECIFICATION Spec
PROPERTIES
    ImplementsQueue
    Received
    Told
CHECK_DEADLOCK FALSE
