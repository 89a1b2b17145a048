SPECIFICATION Spec
CONSTANTS
  Base = 8
  ByteBits = 3
  ExpBits <- MCExpBits
  Precision = 8
  CmdSize = 5
  IpSize = 2
  BufSize = 80
  Magic = 77
  Names <- MCNames
  Sha256 <- MCSha256
  Ripemd160 <- MCRipemd160
  Times <- MCTimes
  FirstTime = 50021
  OwnVers = 700
  Height = 1234
  LocalIp <- MCLocalIp
  Port = 33
  Texts <- MCTexts
  TextSize = 4
  Replies <- MCReplies
  MaxAddrs = 2
  Junk <- MCJunk
  Tests <- MCTests
INVARIANTS TypeOK RequestReads ShowsReply PacketReadsBack
PROPERTY ClientEnds
