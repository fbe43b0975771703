\* Screens: does a sign-in show the tabs?
SPECIFICATION ScreensSpec
CONSTANTS
  f1 = f1
  f2 = f2
  a1 = a1
  a2 = a2
  NoUser = NoUser
  Restored = Restored
  Attempts <- TwoAttempts
  Accounts <- TwoAccounts
  MaxScreens = 3
PROPERTIES
  SignInShowsTabs
