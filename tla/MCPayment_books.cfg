SPECIFICATION Spec
CONSTANTS
  s1 = s1
  s2 = s2
  c1 = c1
  None = None
  Requests = {r1, r2}
  Gates = {g1}
  Fee <- MCFee
  Cards = {c1}
  Members = {c1}
  EntryCard <- MCEntryCard
  Stays = {s1, s2}
  Types = {"car"}
  Amounts = {2}
  Statuses = {"SUCCESS", "LOST_CONTACT"}
  MaxEmoney = 2
  Peripherals = {}
  Aborts = TRUE
SYMMETRY Workers
INVARIANTS
  TypeOK
  BooksAgree
PROPERTIES
  SettledOnce
