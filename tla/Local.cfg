CONSTANTS
  HttpScripts <- Patient
  SocksScripts <- Handshakes
  BufCap = 2
  MaxHeader = 6
  MaxBody = 4
  MaxSpoken = 2
SPECIFICATION FairSpec
INVARIANTS TypeOK Faithful AnswerFirst WholeRequest NeverStarved
PROPERTIES Settles Freed
CHECK_DEADLOCK FALSE
