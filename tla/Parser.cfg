SPECIFICATION Spec
CONSTANTS
  Blank = Blank
  Malformed = Malformed
  Rejected = Rejected
  Null = Null
  Roots = {"Invoice", "AttachedDocument", "CreditNote", ""}
  Texts <- MCTexts
  Documents <- MCDocuments
  Decimal <- MCDecimal
  Dates <- MCDates
  Number <- MCNumber
  Words <- MCWords
INVARIANT TypeOK
INVARIANT EqualSubtotalsCountOnce
INVARIANT LastBlockOfAKindIsReported
INVARIANT RequiredFieldsDecide
