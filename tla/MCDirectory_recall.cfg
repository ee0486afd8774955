CONSTANTS
  NCores = 2
  Configs <- MCRecall
SPECIFICATION Spec
INVARIANT NoFault
