SPECIFICATION IssuerSpec
CONSTANTS
  Parents = {par1}
  Children = {c1, c2, c3}
  Scopes = {s1}
  KeyIds = {k1, k2}
  FirstKey = k1
  MaxBudget = 2
  MaxGrant = 2
PROPERTY NoChildAfterRevocation
