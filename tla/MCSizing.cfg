CONSTANTS
  PAGE_SIZE = 4
  Mems <- MCMems
  Ratios <- MCRatios
  MaxCpus = 4
  VCpus <- MCVCpus
  Nums <- MCNums
SPECIFICATION Spec
INVARIANTS
  TypeOK
  SizesCoverMem
  GuestSeesConfig
  AffinityAsDesigned
