CONSTANTS
  Half = 32768
  Word = 1073741824
  CommandLines <- Default
  Inputs <- Built
  Headers <- OneHeader
SPECIFICATION PayloadSpec
INVARIANT InstalledDiskBoots
