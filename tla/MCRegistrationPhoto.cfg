\* Registration: what happens without a photo?
SPECIFICATION Spec
CONSTANTS
  f1 = f1
  f2 = f2
  a1 = a1
  a2 = a2
  NoUser = NoUser
  Restored = Restored
  Attempts <- TwoAttempts
  Accounts <- TwoAccounts
INVARIANTS
  EmptyPhotoIsAnswered
