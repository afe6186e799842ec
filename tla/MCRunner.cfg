SPECIFICATION PartsSpec
INVARIANTS
  PartsTypeOK RequestsAsAsked  ReportIsRight
