SPECIFICATION FairSpec
CONSTANTS
  MAX_TELNET_CMD_SIZE = 5
  MAX_TELNET_CMD_XMIT_BUF = 10
  allow_2217 = TRUE
  Modes = {"telnet", "raw", "rawlp"}
  PORT_BUFSIZE = 4
  telnet_init_seq <- MCInitSeq
  Streams <- MCStreams
  DevStreams <- MCDevStreams
  Banners <- MCBanners
  StrayBytes = {2}
  RawCommands <- MCRawCommands
  ModemStates = {0, 240}
  MaxSessions = 2
  MaxNotify = 1
  MaxSpurious = 1
INVARIANTS TypeOK DeviceGetsClientData DataKeepsOrder ClientDecodes PendingOutputWatched
PROPERTIES OutputDrains
