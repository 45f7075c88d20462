CONSTANTS
  b1 = b1
  c1 = c1
  c2 = c2
  u1 = u1
  u2 = u2
  e1 = e1
  e2 = e2
  Browser = {b1}
  Conn = {c1, c2}
  User = {u1, u2}
  Event = {e1}
  BrowserOf <- MCBrowserOf
  TokenOf <- MCTokenOf
  Admin = {u1}
  Addressee <- MCAddressee
  Admins = Admins
  NoUser = NoUser
  NoConn = NoConn
  Capacity = 1
  MaxUplink = 1
SPECIFICATION Spec
INVARIANTS TypeOK MapMatchesChannels PrivateDelivery AnswersAreRouted
CHECK_DEADLOCK FALSE
