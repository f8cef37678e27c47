SPECIFICATION Spec
CONSTANTS
  Nothing = Nothing
  Components <- Storage
INVARIANTS OutcomesTrue NoLostUpdate ReadsExact
PROPERTY RecordOrder
