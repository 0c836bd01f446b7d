SPECIFICATION RxSpec
CONSTANTS
    UART_TIME_DELAY = 4
    BitTime = 5
    Byte <- MCEightBits
PROPERTIES StoredAsSent
