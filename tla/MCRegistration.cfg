\* Registration: two attempts that may overlap, restarts and lost answers
SPECIFICATION FairSpec
CONSTANTS
  f1 = f1
  f2 = f2
  a1 = a1
  a2 = a2
  NoUser = NoUser
  Restored = Restored
  Attempts <- TwoAttempts
  Accounts <- TwoAccounts
INVARIANTS
  Inductive
  AccountsAreSafe
  NamesBelongToOwners
PROPERTIES
  OrphansStayOrphans
  KeepsLifecycle
  
  AttemptsEnd
