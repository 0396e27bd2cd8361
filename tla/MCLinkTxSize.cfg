CONSTANTS
  FrameLen = {20, 133, 200}
  Header = 44
  Alignment = 8
  MaxTransfer = 243
  MaxPackets = 2
  MaxPacket = 64
  TxDepth = 2
  MaxQueue = 2
  NoFrame = NoFrame
SPECIFICATION Spec
PROPERTIES WithinAdvertisedSize
CHECK_DEADLOCK FALSE
