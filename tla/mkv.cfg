CONSTANTS
  c1 = c1
  c2 = c2
  c3 = c3
  Clients = {c1, c2, c3}
  k1 = k1
  Keys = {k1, k2}
  short = short
  long = long
  Vals = {short, long}
  NoVal = NoVal
  Length <- OneOrTwo
  Prefixes <- AllKeys
  Caps = {1, 2}
  Factory <- FactoryShort
  Asks <- AmpleByRole
  Depth = 1
SPECIFICATION FairSpec
INVARIANTS TypeOK RequestReply
PROPERTIES ImplementsService Answered
