SPECIFICATION Spec
CONSTANTS
  ann = ann
  ben = ben
  vera = vera
  vic = vic
  Agents <- MCAgents
  Nobody = Nobody
  Evidence = {e1, e2}
  NoEvidence = NoEvidence
  Tasks = {1, 2}
  Offers <- MCOffers
  ClaimTimeout = 1
  MaxNow = 4
  MaxRound = 2
SYMMETRY Symmetry
INVARIANTS
  ActiveListExact
  VerifiedBeforePaid
PROPERTIES
  DelivererKept
CHECK_DEADLOCK FALSE
