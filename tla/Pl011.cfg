CONSTANTS
  UART_CLK_HZ = 125000000
  UART_BAUD = 115200
  RX_RING_CAP = 3
  FIFO = 2
  Texts <- SomeTexts
  Sizes <- SomeSizes
  MaxIn = 4
  MaxOut = 4
SPECIFICATION FairSpec
INVARIANTS RingInv Faithful Clocked
PROPERTIES ImplementsLossyQueue Written
CHECK_DEADLOCK FALSE
