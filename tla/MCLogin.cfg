SPECIFICATION LoginSpec
CONSTANTS
  Emails = {e1}
  Codes = {d1, d2}
  States = {s1, s2}
  Teams = {t1}
  MaxTokens = 2
  MaxCommands = 2
  MaxOutages = 1
  Nobody = Nobody
INVARIANTS CredentialsAgree
PROPERTIES LoginEnds
CHECK_DEADLOCK FALSE
