\* Three troubles at any moment, with the device's own count of milliseconds.
CONSTANTS
  CountMod = 256
  Noticed = 250
  FirstLens = {8, 64}
  ConfLens = {0, 255, 512}
  Addrs = {1, 2}
  MaxTrouble = 3
SPECIFICATION FairSpec
INVARIANTS TypeOK SessionAgrees DescriptorsAgree
PROPERTIES Recovers EveryStepCloser
