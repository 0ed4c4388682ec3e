SPECIFICATION Spec
CONSTANTS
  u1 = u1
  u2 = u2
  bogota = bogota
  medellin = medellin
  girardota = girardota
  Bogota = Bogota
  Girardot = Girardot
  Cali = Cali
  Null = Null
  NoCity = NoCity
  NoEnd = NoEnd
  Fraction = 10
  Uploads = {u1, u2}
  Concepts = {1, 2}
  Cities = {bogota, medellin, girardota}
  IsVATWithholdingAgent = TRUE
  TaxRules <- MCTaxRules
  UVTValues <- MCUVTValues
  Matches <- MCMatches
  Invoices <- MCInvoices
INVARIANT TypeOK
INVARIANT WithheldWithinBase
INVARIANT ThresholdIsPerInvoice
INVARIANT TariffIsInForce
INVARIANT OrderOfLinesIsIrrelevant
