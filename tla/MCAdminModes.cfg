SPECIFICATION FairSpec
CONSTANTS
  alice = alice
  bob = bob
  carol = carol
  Clients <- MCClients
  Admins <- MCAdmins
INVARIANTS
  TypeOK
  RecoveryReachable
  AgreedModeDurable
PROPERTIES
  FrozenWhileAgreed
  OperatorRecovers
