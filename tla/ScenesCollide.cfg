SPECIFICATION Spec
CONSTANTS
  Alphanumeric <- MCAlphanumeric
  FatCase <- MCFatCase
  SavedMax = 2
  Ssids <- CollidingSsids
  Passwords <- OnePassword
  Securities = {"WPA", "Open"}
  DefaultSecurity = "WPA"
  NfcErrorTicks = 2
  Visits = {"EditSsid", "Saved"}
  MaxQueue = 2
  MaxFailures = 0
INVARIANT SentIsKept
