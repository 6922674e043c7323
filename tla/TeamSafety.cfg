SPECIFICATION Spec
CONSTANTS
  Requests = {r1, r2, r3}
  ann = ann
  bob = bob
  cid = cid
  bot = bot
  eve = eve
  adm = adm
  i1 = i1
  i2 = i2
  i3 = i3
  Users = {ann, bob, cid, bot, eve, adm}
  Bots = {bot}
  Admins = {adm}
  Founder = ann
  Roles = {i1, i2, i3}
  FirstRoles <- TheRoles
  FirstTeam <- TheTeam
  Asks <- AllAsks
  None = None
SYMMETRY RequestSymmetry
CHECK_DEADLOCK FALSE
INVARIANTS
  OwnerIsHuman
  DistinctPositions
PROPERTIES
  HandoverToMember
  OrderlyHandover
  DeletionIsExact
