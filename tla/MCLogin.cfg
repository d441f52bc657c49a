CONSTANTS
  ann = ann
  eve = eve
  annMail = annMail
  eveMail = eveMail
  s1 = s1
  s2 = s2
  NULL = NULL
  People = {ann, eve}
  Addresses = {annMail, eveMail}
  AddressOf <- MCAddressOf
  Founder = eve
  Sessions = {s1, s2}
  MaxRows = 3
SPECIFICATION Spec
INVARIANTS
  LoginTypeOK
  SessionsAreRegistered
  AdministratorsWereGranted
