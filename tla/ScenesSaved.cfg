SPECIFICATION Spec
CONSTANTS
  Alphanumeric <- MCAlphanumeric
  FatCase <- MCFatCase
  SavedMax = 2
  Ssids <- DistinctSsids
  Passwords <- MCPasswords
  Securities = {"WPA"}
  DefaultSecurity = "WPA"
  NfcErrorTicks = 2
  Visits = {"EditSsid", "Saved"}
  MaxQueue = 2
  MaxFailures = 1
INVARIANTS TypeOK DeleteOnlySaved DeletableIsShown SentIsKept
PROPERTIES OnlyTheNamedIsDeleted OpensChosen
