CONSTANTS
  Writers = {w1}
  PacketSize = 4
  ReadChunks = {6, 8}
  WriteChunks = {2}
  ReadSizes = {1, 3, 4}
  WriteSizes = {0, 3}
  ChipTypes = {"AM", "BM", "232H"}
  Rates <- MCRates
  MaxSent = 5
  MaxOpens = 3
  MaxFaults = 1
SPECIFICATION FtdiSpec
INVARIANTS FtdiTypeOK ReadsInOrder WritesInOrder RateIsKept
CHECK_DEADLOCK FALSE
