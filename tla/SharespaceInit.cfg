SPECIFICATION Spec
INVARIANTS AdoptsTheOffer ArmSeesWholeHead ReadyIsMutual
PROPERTIES EventuallyReady
