\* Buffers small enough to fill, fall behind and be emptied within three bytes.
SPECIFICATION FairSpec
CONSTANTS
  FIFO_SIZE = 2
  GPS_BUF_SIZE = 2
  HAL_BUF_SIZE = 1
  MaxStream = 3
INVARIANTS InOrder ReadReturnsData PolledReadFinds
PROPERTY DataReachesSleeper
