SPECIFICATION FairSpec
CONSTANTS
    Bits = 2
    RingSize = 3
    MaxUnread = 2
    UART_TIME_DELAY = 1
    SPI_TIME_DELAY = 1
    Programs <- MCPrograms
    Written <- MCTwo
    Arriving <- MCTwo
INVARIANTS
    OneAtATime
    StatusTrue
PROPERTIES
    ReadInOrder
    HeardAsWritten
    Exchanged
    AccessAnswered
