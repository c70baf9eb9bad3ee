SPECIFICATION FairSpec
CONSTANTS
  Streams <- SomeStreams
  Layouts <- SomeLayouts
  Replies <- SomeReplies
  Secrets <- SomeSecrets
  Others = {"unknown"}
  Dcs = {2, 203}
  Lengths = {0, 1, 4, 5, 125, 126, 127, 255, 256, 65535, 65536, 66000}
  Sizes = {0, 1, 16384, 16385, 32768, 40000}
  Known = {"default"}
  Guessed = {"added", "unknown"}
  Clocks <- SomeClocks
CHECK_DEADLOCK FALSE
INVARIANTS UpInOrder WholePackets UpComplete DownComplete NothingAfterClose CiphersInStep FramesInStep HellosInStep
PROPERTY EndsTogether
