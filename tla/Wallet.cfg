CONSTANTS
  plain = plain
  satmint = satmint
  None = None
  Change = Change
  MaxU64 = 9
  Lower <- MCLower
  Mints = {plain, satmint}
  Units = {"sat", "usd"}
  WordsOf <- MCWordsOf
  Spelling <- MCSpelling
  Memos <- MCMemos
  Amounts = {0, 2, 3}
SPECIFICATION Spec
CHECK_DEADLOCK FALSE
INVARIANTS
  MetadataIsTheTokens
  ClaimIsTheCredit
  ChangeIsTheTokenSent
