SPECIFICATION Spec
CONSTANTS
  Methods = {"GetDeviceInfo", "GetEth0Info", "SetEth0Info", "GetWifiInfo", "SetWifiInfo",
             "AddProgram", "GetTimeInfo", "SetTimeInfo", "GetLuminancePloy", "SetLuminancePloy",
             "GetSwitchTime", "SetSwitchTime", "GetFiles", "DeleteFiles", "GetBootLogo",
             "SetBootLogoName", "ClearBootLogo", "GetSDKTcpServer", "SetSDKTcpServer"}
  Numbers <- MCNumbers
  Spellings <- MCSpellings
  U32 = 999
  I63 = 999
  Indices = {0, 1, 11}
  Callers = {c1, c2}
  None = None
  Focuses <- MCFocuses
  Bodies <- MCBodies
  Samples <- MCSamples
  Percents = {42}
  Screens <- MCScreens
  Panel <- MCPanel
  MaxCalls = 3
SYMMETRY Symmetry
INVARIANTS
  TypeOK
  ReadingIsTrue
  SetIsDone
  ScreenArrives
CHECK_DEADLOCK FALSE
