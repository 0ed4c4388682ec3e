SPECIFICATION FairSpec
CONSTANTS
  u1 = u1
  u2 = u2
  bogota = bogota
  A = A
  s1 = s1
  laptop = laptop
  Laptop = Laptop
  unknown = unknown
  Null = Null
  Nobody = Nobody
  NoCity = NoCity
  NoEnd = NoEnd
  Fraction = 10
  Uploads = {u1, u2}
  Cufes = {1, 2}
  Issuers = {A}
  SKUs = {s1}
  Descriptions = {laptop, Laptop}
  Keys = {laptop}
  Replies = {1, unknown}
  Concepts = {1, 2}
  Cities = {bogota}
  IsVATWithholdingAgent = TRUE
  Normal <- MCNormal
  Files <- MCFiles
  TaxRules <- MCTaxRules
  UVTValues <- MCUVTValues
  Matches <- MCMatches
INVARIANT TypeOK
INVARIANT ResponseIsStored
INVARIANT NoOrphanCalculations
INVARIANT IncompleteOnlyAfterError
INVARIANT StoredConceptIsCached
INVARIANT StoredItemIsNotAskedAgain
INVARIANT BaseIsNearStoredLines
PROPERTY EveryUploadEnds
PROPERTY ClassifiesAsAlone
