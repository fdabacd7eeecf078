SPECIFICATION Spec
CONSTANTS
  Word = 16
  Characters = {"A", "P"}
  Paths = {"", "config/config.yaml", "itch.bin"}
  CommandLines <- AllCommandLines
  Descriptors = {0, 3}
  Addresses = {"239.1.1.1", "127.0.0.1"}
  Groups = {"239.1.1.1"}
  NoConfig = NoConfig
  Configs <- AllConfigs
INVARIANTS TypeOK Owned ReadyToReceive AsAsked SuccessEarned
