CONSTANTS
  Namespaces = {n1, n2}
  Project = P
  Fields <- MCFields
  Amounts = {0, 1, 2}
  Limits <- MCLimits
  ProjectQuotas <- MCProjectQuotas
  NoQuota = NoQuota
  QuotaIds = {1, 2}
  MaxChanges = 2
SPECIFICATION FairSpec
INVARIANTS
  TypeOK QuotasFit
PROPERTIES
  AppliedInTheEnd
