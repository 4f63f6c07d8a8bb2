SPECIFICATION FairSpec
CONSTANTS
  Alphanumeric <- MCAlphanumeric
  FatCase <- MCFatCase
  SavedMax = 2
  Ssids <- OneSsid
  Passwords <- OnePassword
  Securities = {"WPA"}
  DefaultSecurity = "WPA"
  NfcErrorTicks = 2
  Visits = {"ScanNfc", "Settings", "About"}
  MaxQueue = 2
  MaxFailures = 1
INVARIANTS ScanAlive SettingsSurvive
PROPERTY ScanResumes
