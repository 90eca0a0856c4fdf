SPECIFICATION Spec
CONSTANTS
  Grace = 1
  NegInf <- MCNegInf
  PosInf = 100
  Unusable = Unusable
  MaxOffer = 4
  Event <- MCEvent
  Moment <- MCMoment
INVARIANTS TypeOK CanonicalOrder ExactlyOnce GraceHonoured
PROPERTY ImplementsCanonicalStream
