------------------------- MODULE RegistrationProofs -------------------------
(***************************************************************************)
(* Proofs about Registration: the inductive invariant, the safety          *)
(* properties that follow from it, that orphans stay orphans, that it      *)
(* implements AccountLifecycle, and what users who wait are promised, for  *)
(* any sets of attempts and accounts.                                      *)
(***************************************************************************)
EXTENDS Registration, TLAPS

USE DEF Waiting, Ended, Lost, UserObjects, UserOf,
        server, session, screen, started, profileChange
-----------------------------------------------------------------------------
(* The fresh installation satisfies the invariant: nothing is registered,  *)
(* nobody is signed in and no attempt was made.                            *)
LEMMA InitInductive == Init => Inductive
<1> SUFFICES ASSUME Init PROVE Inductive
  OBVIOUS
<1>1. TypeOK
  BY SentinelsAssumption DEF Init, FirstControls, TypeOK
<1>2. QED
  BY <1>1, SentinelsAssumption DEF Init, Inductive, RecordsAreBacked, SessionIsSaved, SessionOfThisProcess,
              OneThingPending, BackendMatches, Exclusive, Carries

(* A restart keeps the invariant when every waiting attempt is lost and    *)
(* the others keep their state, or crash before they began.                *)
LEMMA RestartInductive ==
  ASSUME Inductive, NEW fates, Restart(fates),
         fates \in [Attempts -> {"idle"} \cup Ended \cup Lost],
         \A g \in Attempts : \/ fates[g] = pc[g]
                             \/ pc[g] \in Waiting /\ fates[g] = "killed"
                             \/ pc[g] = "idle" /\ fates[g] = "crashed",
         hurried' \in BOOLEAN
  PROVE  Inductive'
<1> USE DEF Restart, Inductive
<1>1. current' = NoUser \/ (/\ keychain \in Accounts
                            /\ current' = [by |-> Restored, account |-> keychain])
  BY DEF SavedUser, TypeOK
<1>2. TypeOK'
  <2>1. photo' \in BOOLEAN
    OBVIOUS
  <2>2. current' \in UserObjects \cup {NoUser}
    BY <1>1
  <2>3. reach' \subseteq {"register", "signin", "logout"}
    BY DEF FirstControls
  <2>4. change' \in [Attempts -> {"none", "sent", "stray", "done", "failed", "evicted"}]
    BY DEF TypeOK
  <2>5. QED
    BY <2>1, <2>2, <2>3, <2>4 DEF TypeOK
<1>3. SessionIsSaved' /\ RecordsAreBacked'
  BY <1>1 DEF SessionIsSaved, RecordsAreBacked
<1>4. SessionOfThisProcess'
  BY <1>1, SentinelsAssumption DEF SessionOfThisProcess
<1>5. ASSUME NEW f \in Attempts PROVE (Carries(f)' => Carries(f)) /\ OneThingPending(f)' /\ BackendMatches(f)'
  BY <1>5 DEF TypeOK, OneThingPending, BackendMatches, Carries
<1>6. QED
  BY <1>2, <1>3, <1>4, <1>5 DEF Exclusive
-----------------------------------------------------------------------------
(* The user's taps.                                                        *)
LEMMA TapInductive == ASSUME Inductive, Tap PROVE Inductive'
<1> USE DEF Inductive, TypeOK, RecordsAreBacked, SessionIsSaved, SessionOfThisProcess,
            OneThingPending, BackendMatches, Exclusive, Carries
<1>1. CASE OpenSignUp
  <2>1. photo' \in BOOLEAN
    BY <1>1 DEF OpenSignUp
  <2>2. QED
    BY <1>1, <2>1 DEF OpenSignUp
<1>2. CASE PickPhoto
  BY <1>2 DEF PickPhoto
<1> Tapped => hurried' \in BOOLEAN
  BY DEF Tapped
<1>3. CASE LogOut
  <2>1. Tapped /\ current' = NoUser /\ keychain' \in {keychain, NoUser}
    BY <1>3 DEF LogOut
  <2>2. QED
    BY <1>3, <2>1 DEF LogOut
<1>4. ASSUME NEW f \in Attempts, NEW a \in Accounts, Register(f, a) PROVE Inductive'
  <2>1. CASE photo
    <3>1. /\ pc[f] = "idle"
          /\ Start(f, a, "create")
          /\ UNCHANGED <<server, session, screen, reply, profileChange>>
          /\ hurried' \in BOOLEAN
      BY <1>4, <2>1 DEF Register, Start
    <3>2. QED
      BY <3>1, SMTT(30) DEF Start
  <2>2. CASE ~photo
    <3> DEFINE fates == [Killed EXCEPT ![f] = "crashed"]
    <3>1. pc[f] = "idle" /\ Restart(fates) /\ hurried' \in BOOLEAN
      BY <1>4, <2>2 DEF Register
    <3>2. fates \in [Attempts -> {"idle"} \cup Ended \cup Lost]
      BY DEF Killed
    <3>3. \A g \in Attempts : \/ fates[g] = pc[g]
                              \/ pc[g] \in Waiting /\ fates[g] = "killed"
                              \/ pc[g] = "idle" /\ fates[g] = "crashed"
      BY <3>1 DEF Killed
    <3>4. QED
      BY <3>1, <3>2, <3>3, RestartInductive
  <2>3. QED
    BY <2>1, <2>2
<1>5. ASSUME NEW f \in Attempts, NEW a \in Accounts, SignIn(f, a) PROVE Inductive'
  <2>1. Start(f, a, "signin") /\ hurried' \in BOOLEAN
    BY <1>5 DEF SignIn, Start
  <2>2. QED
    BY <1>5, <2>1, SentinelsAssumption DEF SignIn, Start
<1>6. QED
  BY <1>1, <1>2, <1>3, <1>4, <1>5 DEF Tap

(* The process is killed and launched again.                               *)
LEMMA RelaunchInductive == ASSUME Inductive, Relaunch PROVE Inductive'
<1>1. Killed \in [Attempts -> {"idle"} \cup Ended \cup Lost]
  BY DEF Inductive, TypeOK, Killed
<1>2. \A g \in Attempts : Killed[g] = pc[g] \/ (pc[g] \in Waiting /\ Killed[g] = "killed")
  BY DEF Killed
<1>3. QED
  BY <1>1, <1>2, RestartInductive DEF Relaunch, Inductive, TypeOK

(* The backend's answers.  The step that matters is CreateAccount: the     *)
(* account is new, so no other attempt can be carrying it.                 *)
LEMMA ServeInductive == ASSUME Inductive, NEW f \in Attempts, Serve(f) PROVE Inductive'
<1> USE DEF Inductive, TypeOK, RecordsAreBacked, SessionIsSaved, SessionOfThisProcess,
            OneThingPending, BackendMatches, Exclusive, Carries, Answer
<1>1. CASE CreateAccount(f)
  BY <1>1, SMTT(30) DEF CreateAccount, IsNew
<1>2. CASE GrantSignIn(f)
  BY <1>2, SMTT(30) DEF GrantSignIn
<1>3. CASE StorePhoto(f)
  BY <1>3, SMTT(30) DEF StorePhoto
<1>4. CASE GiveURL(f)
  BY <1>4, SMTT(30) DEF GiveURL
<1>5. CASE StoreProfile(f)
  BY <1>5, SMTT(30) DEF StoreProfile
<1>6. CASE StoreProfileUnacknowledged(f)
  BY <1>6, SMTT(30) DEF StoreProfileUnacknowledged
<1>7. CASE Refuse(f)
  BY <1>7, SMTT(30) DEF Refuse
<1>8. QED
  BY <1>1, <1>2, <1>3, <1>4, <1>5, <1>6, <1>7 DEF Serve

(* The auth queue saves the user before it makes the user current.         *)
LEMMA SetCurrentUserInductive ==
  ASSUME Inductive, NEW f \in Attempts, SetCurrentUser(f) PROVE Inductive'
BY SentinelsAssumption, SMTT(30)
   DEF SetCurrentUser, Inductive, TypeOK, RecordsAreBacked, SessionIsSaved,
       SessionOfThisProcess, OneThingPending, BackendMatches, Exclusive, Carries

(* The callbacks on the main queue.                                        *)
LEMMA CallbackInductive == ASSUME Inductive, NEW f \in Attempts, Callback(f) PROVE Inductive'
<1> USE DEF Inductive, TypeOK, RecordsAreBacked, SessionIsSaved, SessionOfThisProcess,
            OneThingPending, BackendMatches, Exclusive, Carries, Proceed, Finish
<1>1. CASE ShowError(f)
  BY <1>1, SMTT(30) DEF ShowError
<1>2. CASE AfterCreate(f)
  BY <1>2, SMTT(30) DEF AfterCreate
<1>3. CASE AfterSignIn(f)
  BY <1>3, SMTT(30) DEF AfterSignIn
<1>4. CASE AfterPut(f)
  BY <1>4, SMTT(30) DEF AfterPut
<1>5. CASE AfterURL(f)
  BY <1>5, SMTT(30) DEF AfterURL
<1>6. CASE AfterWrite(f)
  BY <1>6, SMTT(30) DEF AfterWrite
<1>7. QED
  BY <1>1, <1>2, <1>3, <1>4, <1>5, <1>6 DEF Callback

(* The profile change touches the displayed names and the session only; an *)
(* eviction clears the session, whatever becomes of the keychain.          *)
LEMMA ProfileChangeInductive ==
  ASSUME Inductive, NEW f \in Attempts, ProfileChange(f) PROVE Inductive'
<1> USE DEF Inductive, RecordsAreBacked, SessionIsSaved, SessionOfThisProcess,
            OneThingPending, BackendMatches, Exclusive, Carries, Settle
<1>1. CASE ChangeName(f)
  BY <1>1, SMTT(30) DEF ChangeName, TypeOK
<1>2. CASE FailChange(f)
  BY <1>2, SMTT(30) DEF FailChange, TypeOK
<1>3. CASE RejectToken(f)
  <2>1. keychain' \in Accounts \cup {NoUser} /\ current' \in UserObjects \cup {NoUser}
    BY <1>3 DEF RejectToken, TypeOK
  <2>2. \E outcome \in {"failed", "evicted"} : Settle(f, outcome)
    BY <1>3 DEF RejectToken
  <2>3. TypeOK'
    BY <1>3, <2>1, <2>2 DEF RejectToken, TypeOK
  <2>4. QED
    BY <1>3, <2>3, SMTT(30) DEF RejectToken, TypeOK
<1>4. QED
  BY <1>1, <1>2, <1>3 DEF ProfileChange

(* Every step of the app, the backend and the client keeps the invariant.  *)
THEOREM NextInductive == Inductive /\ [Next]_vars => Inductive'
<1> SUFFICES ASSUME Inductive, [Next]_vars PROVE Inductive'
  OBVIOUS
<1>2. CASE UNCHANGED vars
  BY <1>2 DEF vars, Inductive, TypeOK, RecordsAreBacked, SessionIsSaved, SessionOfThisProcess,
              OneThingPending, BackendMatches, Exclusive, Carries
<1>3. CASE Next
  BY <1>3, TapInductive, RelaunchInductive, ServeInductive, SetCurrentUserInductive,
     CallbackInductive, ProfileChangeInductive DEF Next
<1>4. QED
  BY <1>2, <1>3

(* The inductive invariant holds in every reachable state.                 *)
THEOREM InductiveInvariant == Spec => []Inductive
<1>1. QED
  BY InitInductive, NextInductive, PTL DEF Spec
-----------------------------------------------------------------------------
(* The safety properties checked by TLC follow from the invariant.         *)
LEMMA InductiveImpliesSafety ==
  Inductive => /\ TypeOK
               /\ RecordsAreBacked
               /\ OneCarrierPerAccount
               /\ CompleteMeansProfile
               /\ SessionIsSaved
               /\ SessionOfThisProcess
               /\ SilenceMeansOrphan
<1>1. ASSUME Inductive PROVE SilenceMeansOrphan
  <2>1. SUFFICES ASSUME NEW f \in Attempts, pc[f] = "silent" PROVE account[f] \in Orphans
    BY DEF SilenceMeansOrphan
  <2>2. account[f] \in registered \ profiles
    BY <1>1, <2>1 DEF Inductive, BackendMatches
  <2>3. ASSUME NEW g \in Attempts, account[g] = account[f], Carries(g) PROVE FALSE
    <3>1. g = f
      BY <1>1, <2>1, <2>3 DEF Inductive, Exclusive
    <3>2. pc[g] = "silent" /\ req[g] = "none"
      BY <1>1, <2>1, <3>1 DEF Inductive, OneThingPending
    <3>3. QED
      BY <2>3, <3>2 DEF Carries
  <2>4. QED
    BY <2>2, <2>3 DEF Orphans
<1>2. QED
  BY <1>1 DEF Inductive, OneCarrierPerAccount, CompleteMeansProfile, BackendMatches, Exclusive

(* Every variable keeps its type.                                          *)
THEOREM TypeCorrect == Spec => []TypeOK
<1>1. QED
  BY InductiveInvariant, InductiveImpliesSafety, PTL

(* No step of a sign-up is skipped: profiles have photos, photos accounts. *)
THEOREM RecordsBacked == Spec => []RecordsAreBacked
<1>1. QED
  BY InductiveInvariant, InductiveImpliesSafety, PTL

(* Of all attempts with one address, at most one carries the account on.   *)
THEOREM OneCarrier == Spec => []OneCarrierPerAccount
<1>1. QED
  BY InductiveInvariant, InductiveImpliesSafety, PTL

(* Reported success means a complete account.                              *)
THEOREM CompleteHasProfile == Spec => []CompleteMeansProfile
<1>1. QED
  BY InductiveInvariant, InductiveImpliesSafety, PTL

(* The keychain backs the session.                                         *)
THEOREM SessionSaved == Spec => []SessionIsSaved
<1>1. QED
  BY InductiveInvariant, InductiveImpliesSafety, PTL

(* The session belongs to an attempt of this process or to the keychain.   *)
THEOREM SessionCurrent == Spec => []SessionOfThisProcess
<1>1. QED
  BY InductiveInvariant, InductiveImpliesSafety, PTL

(* An attempt that ends silently leaves an orphan behind.                  *)
THEOREM SilenceIsOrphan == Spec => []SilenceMeansOrphan
<1>1. QED
  BY InductiveInvariant, InductiveImpliesSafety, PTL

(* What the database shows, who carries an account, what a completed and   *)
(* what a silent attempt leave behind, together.                           *)
THEOREM AccountsSafe == Spec => []AccountsAreSafe
<1>1. ASSUME RecordsAreBacked, OneCarrierPerAccount,
             CompleteMeansProfile, SilenceMeansOrphan
      PROVE  AccountsAreSafe
  BY <1>1 DEF AccountsAreSafe
<1>2. QED
  BY <1>1, RecordsBacked, OneCarrier, CompleteHasProfile, SilenceIsOrphan, PTL
-----------------------------------------------------------------------------
(* What one step can do to the three stores of the backend.                *)
Stores == <<registered, photos, profiles>>

Creates(f) == /\ account[f] \in Accounts \ registered
              /\ registered' = registered \cup {account[f]}
              /\ UNCHANGED <<photos, profiles>>
AddsPhoto(f) == /\ Carries(f)
                /\ photos' = photos \cup {account[f]}
                /\ UNCHANGED <<registered, profiles>>
AddsProfile(f) == /\ Carries(f)
                  /\ account[f] \in photos
                  /\ profiles' = profiles \cup {account[f]}
                  /\ UNCHANGED <<registered, photos>>

(* Only three kinds of steps change the accounts, photos and records  *)
(* of the backend.                                                         *)
LEMMA StoreSteps ==
  ASSUME Inductive, [Next]_vars
  PROVE  \/ UNCHANGED Stores
         \/ \E f \in Attempts : Creates(f) \/ AddsPhoto(f) \/ AddsProfile(f)
<1> USE DEF Stores
<1>1. CASE UNCHANGED vars
  BY <1>1 DEF vars
<1>2. CASE Tap \/ Relaunch
  BY <1>2 DEF Tap, OpenSignUp, PickPhoto, LogOut, Register, SignIn, Relaunch, Restart
<1>3. ASSUME NEW f \in Attempts, SetCurrentUser(f) \/ Callback(f) \/ ProfileChange(f)
      PROVE  UNCHANGED Stores
  BY <1>3 DEF SetCurrentUser, Callback, ShowError, AfterCreate, AfterSignIn, AfterPut,
              AfterURL, AfterWrite, ProfileChange, ChangeName, FailChange, RejectToken
<1>4. ASSUME NEW f \in Attempts, Serve(f)
      PROVE  UNCHANGED Stores \/ Creates(f) \/ AddsPhoto(f) \/ AddsProfile(f)
  <2>1. OneThingPending(f) /\ BackendMatches(f) /\ pc[f] \in {"idle"} \cup Waiting \cup Ended \cup Lost
    BY DEF Inductive, TypeOK
  <2>2. QED
    BY <1>4, <2>1, SMTT(30)
       DEF Serve, CreateAccount, GrantSignIn, StorePhoto, GiveURL, StoreProfile,
           StoreProfileUnacknowledged, Refuse, IsNew, OneThingPending, BackendMatches,
           Carries, Creates, AddsPhoto, AddsProfile
<1>5. QED
  BY <1>1, <1>2, <1>3, <1>4 DEF Next

(* Who carries an account in the next state carried it before, or has just *)
(* created it.                                                             *)
LEMMA NewCarriers ==
  ASSUME Inductive, [Next]_vars, NEW g \in Attempts, Carries(g)'
  PROVE  /\ account'[g] = account[g]
         /\ Carries(g) \/ Creates(g)
<1> USE DEF Inductive, TypeOK, OneThingPending, Carries
<1>1. CASE UNCHANGED vars
  BY <1>1 DEF vars
<1>2. CASE Tap
  <2>1. CASE OpenSignUp \/ PickPhoto \/ LogOut
    BY <2>1 DEF OpenSignUp, PickPhoto, LogOut
  <2>2. ASSUME NEW f \in Attempts, NEW a \in Accounts, NEW call \in {"create", "signin"},
               pc[f] = "idle", Start(f, a, call), UNCHANGED reply
        PROVE  account'[g] = account[g] /\ Carries(g)
    BY <2>2 DEF Start
  <2>3. ASSUME NEW f \in Attempts, NEW a \in Accounts, Register(f, a)
        PROVE  account'[g] = account[g] /\ Carries(g)
    <3>1. CASE photo
      BY <2>2, <2>3, <3>1 DEF Register
    <3>2. CASE ~photo
      <4>1. Restart([Killed EXCEPT ![f] = "crashed"])
        BY <2>3, <3>2 DEF Register
      <4>2. pc'[g] \notin Waiting
        BY <4>1 DEF Restart, Killed
      <4>3. UNCHANGED <<account, req>>
        BY <4>1 DEF Restart
      <4>4. QED
        BY <4>2, <4>3
    <3>3. QED
      BY <3>1, <3>2
  <2>4. ASSUME NEW f \in Attempts, NEW a \in Accounts, SignIn(f, a)
        PROVE  account'[g] = account[g] /\ Carries(g)
    BY <2>2, <2>4 DEF SignIn
  <2>5. QED
    BY <1>2, <2>1, <2>3, <2>4 DEF Tap
<1>3. CASE Relaunch
  BY <1>3 DEF Relaunch, Restart, Killed
<1>4. ASSUME NEW f \in Attempts, Serve(f)
      PROVE  account'[g] = account[g] /\ (Carries(g) \/ Creates(g))
  BY <1>4, SMTT(30) DEF Serve, CreateAccount, GrantSignIn, StorePhoto, GiveURL, StoreProfile,
     StoreProfileUnacknowledged, Refuse, Answer, IsNew, Creates
<1>5. ASSUME NEW f \in Attempts, SetCurrentUser(f) \/ Callback(f)
      PROVE  account'[g] = account[g] /\ Carries(g)
  BY <1>5, SMTT(30) DEF SetCurrentUser, Callback, ShowError, AfterCreate, AfterSignIn,
     AfterPut, AfterURL, AfterWrite, Proceed, Finish
<1>6. ASSUME NEW f \in Attempts, ProfileChange(f)
      PROVE  account'[g] = account[g] /\ Carries(g)
  BY <1>6 DEF ProfileChange, ChangeName, FailChange, RejectToken, Settle
<1>7. QED
  BY <1>1, <1>2, <1>3, <1>4, <1>5, <1>6 DEF Next

(* An account without profile that nobody carries on never gets one.       *)
THEOREM OrphansRemain == Spec => OrphansStayOrphans
<1>1. ASSUME Inductive, [Next]_vars PROVE Orphans \subseteq Orphans'
  <2>1. SUFFICES ASSUME NEW a \in Orphans PROVE a \in Orphans'
    OBVIOUS
  <2>2. a \in registered /\ a \notin profiles /\ \A f \in Attempts : account[f] = a => ~Carries(f)
    BY DEF Orphans
  <2>3. a \in registered' /\ a \notin profiles'
    BY <1>1, <2>2, StoreSteps DEF Stores, Creates, AddsPhoto, AddsProfile
  <2>4. \A f \in Attempts : account'[f] = a => ~Carries(f)'
    BY <1>1, <2>2, NewCarriers DEF Creates
  <2>5. QED
    BY <2>3, <2>4 DEF Orphans
<1>2. QED
  BY <1>1, InductiveInvariant, PTL DEF Spec, OrphansStayOrphans
-----------------------------------------------------------------------------
(* Stage and Carried turn every step into one of AccountLifecycle: nobody  *)
(* becomes carried but by creating an account.                             *)
LEMMA CarriedSteps ==
  ASSUME Inductive, [Next]_vars
  PROVE  /\ Carried \subseteq registered
         /\ \A a \in Carried' : a \in Carried \/ \E f \in Attempts : account[f] = a /\ Creates(f)
<1>1. Carried \subseteq registered
  BY DEF Carried, Inductive, BackendMatches
<1>2. ASSUME NEW a \in Carried', a \notin Carried
      PROVE  \E f \in Attempts : account[f] = a /\ Creates(f)
  <2>1. PICK f \in Attempts : Carries(f)' /\ account'[f] = a
    BY <1>2 DEF Carried
  <2>2. a \in Accounts
    BY <1>2 DEF Carried
  <2>3. QED
    BY <1>2, <2>1, <2>2, NewCarriers DEF Carried
<1>3. QED
  BY <1>1, <1>2

(* A fresh installation is a fresh account life cycle.                     *)
LEMMA InitRefines == Init => Lifecycle!Init
BY DEF Init, Lifecycle!Init, Stage, Carried, Carries

(* Every step registers, pictures, profiles or abandons accounts, or shows *)
(* nothing of it in AccountLifecycle.                                      *)
LEMMA StepRefines == Inductive /\ Inductive' /\ [Next]_vars => [Lifecycle!Next]_(Lifecycle!vars)
<1> SUFFICES ASSUME Inductive, Inductive', [Next]_vars
             PROVE  Lifecycle!Next
  BY DEF Lifecycle!vars
<1>1. /\ profiles \subseteq photos /\ photos \subseteq registered
      /\ profiles' \subseteq photos' /\ photos' \subseteq registered'
  BY DEF Inductive, RecordsAreBacked
<1>2. CASE UNCHANGED Stores
  <2>1. Carried' \subseteq Carried
    BY <1>2, CarriedSteps DEF Stores, Creates
  <2>2. UNCHANGED Stage
    BY <1>2 DEF Stage, Stores
  <2>3. QED
    BY <2>1, <2>2 DEF Lifecycle!Next, Lifecycle!Close
<1>3. ASSUME NEW f \in Attempts, Creates(f) PROVE Lifecycle!Next
  <2>1. account[f] \in Accounts /\ Stage[account[f]] = "absent"
    BY <1>1, <1>3 DEF Stage, Creates
  <2>2. Stage' = [Stage EXCEPT ![account[f]] = "registered"]
    BY <1>1, <1>3 DEF Stage, Creates
  <2>3. Carried' \subseteq Carried \cup {account[f]}
    BY <1>3, CarriedSteps DEF Creates
  <2>4. QED
    BY <2>1, <2>2, <2>3 DEF Lifecycle!Next, Lifecycle!Create
<1>4. ASSUME NEW f \in Attempts, AddsPhoto(f) PROVE Lifecycle!Next
  <2>1. account[f] \in Carried /\ account[f] \in registered
    BY <1>4, CarriedSteps DEF AddsPhoto, Carried, Inductive, OneThingPending, BackendMatches, TypeOK
  <2>2. Carried' \subseteq Carried
    BY <1>4, CarriedSteps DEF AddsPhoto, Creates
  <2>3. CASE account[f] \in photos
    <3>1. UNCHANGED Stage
      BY <1>4, <2>3 DEF Stage, AddsPhoto
    <3>2. QED
      BY <2>2, <3>1 DEF Lifecycle!Next, Lifecycle!Close
  <2>4. CASE account[f] \notin photos
    <3>1. Stage[account[f]] = "registered" /\ account[f] \in Accounts
      BY <1>1, <2>1, <2>4 DEF Stage, Carried
    <3>2. Stage' = [Stage EXCEPT ![account[f]] = "pictured"]
      BY <1>1, <1>4, <2>1, <2>4 DEF Stage, AddsPhoto
    <3>3. QED
      BY <2>1, <2>2, <3>1, <3>2 DEF Lifecycle!Next, Lifecycle!AddPhoto
  <2>5. QED
    BY <2>3, <2>4
<1>5. ASSUME NEW f \in Attempts, AddsProfile(f) PROVE Lifecycle!Next
  <2>1. account[f] \in Carried
    BY <1>5 DEF AddsProfile, Carried, Inductive, BackendMatches, TypeOK
  <2>2. Carried' \subseteq Carried
    BY <1>5, CarriedSteps DEF AddsProfile, Creates
  <2>3. CASE account[f] \in profiles
    <3>1. UNCHANGED Stage
      BY <1>5, <2>3 DEF Stage, AddsProfile
    <3>2. QED
      BY <2>2, <3>1 DEF Lifecycle!Next, Lifecycle!Close
  <2>4. CASE account[f] \notin profiles
    <3>1. Stage[account[f]] = "pictured" /\ account[f] \in Accounts
      BY <1>5, <2>1, <2>4 DEF Stage, Carried, AddsProfile
    <3>2. Stage' = [Stage EXCEPT ![account[f]] = "profiled"]
      BY <1>5, <2>1, <2>4 DEF Stage, AddsProfile
    <3>3. QED
      BY <2>1, <2>2, <3>1, <3>2 DEF Lifecycle!Next, Lifecycle!AddProfile
  <2>5. QED
    BY <2>3, <2>4
<1>6. QED
  BY <1>2, <1>3, <1>4, <1>5, StoreSteps

(* Registration implements AccountLifecycle.                               *)
THEOREM Refinement == Spec => KeepsLifecycle
<1>1. QED
  BY InitRefines, StepRefines, InductiveInvariant, PTL DEF Spec, KeepsLifecycle, Lifecycle!Spec
-----------------------------------------------------------------------------
(* A user who waits for every attempt has at most one under way.  Once it  *)
(* was granted the session is its own, unless its own profile change was   *)
(* rejected; and that change is made on its own user object.               *)
Granted(f) == \/ pc[f] \in {"put", "url", "write"}
              \/ pc[f] \in {"create", "signin"} /\ reply[f] = "ok"

Patience == ~hurried =>
    /\ \A f, g \in Attempts : pc[f] \in Waiting /\ pc[g] \in Waiting => f = g
    /\ \A f \in Attempts : Granted(f) => current = UserOf(f) \/ change[f] = "evicted"
    /\ \A f \in Attempts : change[f] \in {"sent", "stray"} => target[f] = UserOf(f)
    /\ \A f \in Attempts : change[f] # "none" => pc[f] \notin {"idle", "create", "signin", "put", "url"}
    /\ \A a \in Accounts : named[a] # NoUser => account[named[a]] = a /\ pc[named[a]] # "idle"

(* A restart ends whatever was under way.                                  *)
LEMMA RestartPatience ==
  ASSUME Inductive, Patience, NEW fates, Restart(fates),
         fates \in [Attempts -> {"idle"} \cup Ended \cup Lost],
         \A g \in Attempts : \/ fates[g] = pc[g]
                             \/ pc[g] \in Waiting /\ fates[g] = "killed"
                             \/ pc[g] = "idle" /\ fates[g] = "crashed",
         hurried \in BOOLEAN, ~hurried' => ~hurried
  PROVE  Patience'
<1> SUFFICES ASSUME ~hurried' PROVE Patience'
  BY DEF Patience
<1>1. /\ pc' = fates /\ UNCHANGED <<account, named, target>>
      /\ \A g \in Attempts : change'[g] = IF change[g] = "sent" THEN "stray" ELSE change[g]
  BY DEF Restart
<1>2. \A g \in Attempts : pc'[g] \notin Waiting /\ (pc'[g] = "idle" => pc[g] = "idle")
  BY <1>1
<1>3. \A a \in Accounts : named[a] # NoUser => named[a] \in Attempts
  BY DEF Inductive, TypeOK
<1>4. QED
  BY <1>1, <1>2, <1>3 DEF Patience, Granted

(* A tap while an attempt is under way is what a patient user never does.  *)
LEMMA StartPatience ==
  ASSUME Inductive, Patience, NEW f \in Attempts, NEW a \in Accounts, NEW call \in {"create", "signin"},
         pc[f] = "idle", Start(f, a, call), UNCHANGED <<server, session, screen, reply, profileChange>>
  PROVE  Patience'
<1> SUFFICES ASSUME ~hurried' PROVE Patience'
  BY DEF Patience
<1>1. ~hurried /\ \A g \in Attempts : pc[g] \notin Waiting
  BY DEF Start, Tapped
<1>2. /\ pc \in [Attempts -> {"idle"} \cup Waiting \cup Ended \cup Lost]
      /\ account \in [Attempts -> Accounts \cup {NoUser}]
      /\ \A b \in Accounts : named[b] # NoUser => named[b] \in Attempts
      /\ reply[f] = "none"
  BY DEF Inductive, TypeOK, OneThingPending
<1>3. /\ \A g \in Attempts : pc'[g] = IF g = f THEN call ELSE pc[g]
      /\ \A g \in Attempts : account'[g] = IF g = f THEN a ELSE account[g]
  BY <1>2 DEF Start
<1>4. change[f] = "none"
  BY <1>1 DEF Patience
<1>5. QED
  BY <1>1, <1>2, <1>3, <1>4 DEF Patience, Granted

LEMMA PatienceStep ==
  ASSUME Inductive, Patience, [Next]_vars
  PROVE  Patience'
<1>a. /\ pc \in [Attempts -> {"idle"} \cup Waiting \cup Ended \cup Lost]
      /\ account \in [Attempts -> Accounts \cup {NoUser}]
      /\ reply \in [Attempts -> {"none", "granted", "ok", "error"}]
      /\ change \in [Attempts -> {"none", "sent", "stray", "done", "failed", "evicted"}]
      /\ target \in [Attempts -> UserObjects \cup {NoUser}]
      /\ named \in [Accounts -> Attempts \cup {NoUser}]
      /\ hurried \in BOOLEAN
  BY DEF Inductive, TypeOK
<1>b. \A f \in Attempts : reply[f] # "none" => pc[f] \in Waiting
  BY DEF Inductive, OneThingPending
<1>1. CASE UNCHANGED vars
  BY <1>1 DEF vars, Patience, Granted
<1>2. CASE OpenSignUp \/ PickPhoto
  BY <1>2 DEF OpenSignUp, PickPhoto, Patience, Granted
<1>3. CASE LogOut
  <2>1. /\ hurried' = (hurried \/ \E g \in Attempts : pc[g] \in Waiting)
        /\ UNCHANGED <<named, account, pc, reply, change, target>>
    BY <1>3 DEF LogOut, Tapped
  <2>2. ASSUME ~hurried' PROVE ~hurried /\ \A g \in Attempts : pc[g] \notin Waiting /\ ~Granted(g)'
    BY <2>1, <2>2 DEF Granted
  <2>3. QED
    BY <2>1, <2>2 DEF Patience
<1>4. ASSUME NEW f \in Attempts, NEW a \in Accounts, Register(f, a) PROVE Patience'
  <2>1. CASE photo
    BY <1>4, <2>1, StartPatience DEF Register
  <2>2. CASE ~photo
    <3> DEFINE fates == [Killed EXCEPT ![f] = "crashed"]
    <3>1. pc[f] = "idle" /\ Restart(fates) /\ (~hurried' => ~hurried)
      BY <1>4, <2>2 DEF Register, Tapped
    <3>2. fates \in [Attempts -> {"idle"} \cup Ended \cup Lost]
      BY <1>a DEF Killed
    <3>3. \A g \in Attempts : \/ fates[g] = pc[g]
                              \/ pc[g] \in Waiting /\ fates[g] = "killed"
                              \/ pc[g] = "idle" /\ fates[g] = "crashed"
      BY <3>1 DEF Killed
    <3>4. QED
      BY <1>a, <3>1, <3>2, <3>3, RestartPatience
  <2>3. QED
    BY <2>1, <2>2
<1>5. ASSUME NEW f \in Attempts, NEW a \in Accounts, SignIn(f, a) PROVE Patience'
  BY <1>5, StartPatience DEF SignIn
<1>6. CASE Relaunch
  <2>1. Killed \in [Attempts -> {"idle"} \cup Ended \cup Lost]
    BY <1>a DEF Killed
  <2>2. \A g \in Attempts : Killed[g] = pc[g] \/ (pc[g] \in Waiting /\ Killed[g] = "killed")
    BY DEF Killed
  <2>3. QED
    BY <1>6, <1>a, <2>1, <2>2, RestartPatience DEF Relaunch
<1>7. ASSUME NEW f \in Attempts, Serve(f) PROVE Patience'
  <2>1. UNCHANGED <<current, account, hurried, pc, change, target, named>>
    BY <1>7 DEF Serve, CreateAccount, GrantSignIn, StorePhoto, GiveURL, StoreProfile,
                StoreProfileUnacknowledged, Refuse, Answer
  <2>2. \A g \in Attempts : Granted(g)' => Granted(g)
    <3>1. reply' = reply \/ \E r \in {"granted", "error", "none"} : reply' = [reply EXCEPT ![f] = r]
          \/ pc[f] \notin {"create", "signin"}
      BY <1>7, <1>a
         DEF Serve, CreateAccount, GrantSignIn, StorePhoto, GiveURL, StoreProfile,
             StoreProfileUnacknowledged, Refuse, Answer, Inductive, OneThingPending
    <3>2. \A g \in Attempts : g # f => reply'[g] = reply[g]
      BY <1>7, <1>a DEF Serve, CreateAccount, GrantSignIn, StorePhoto, GiveURL, StoreProfile,
                        StoreProfileUnacknowledged, Refuse, Answer
    <3>3. QED
      BY <1>a, <2>1, <3>1, <3>2 DEF Granted
  <2>3. QED
    BY <2>1, <2>2 DEF Patience
<1>8. ASSUME NEW f \in Attempts, SetCurrentUser(f) PROVE Patience'
  <2>1. /\ pc[f] \in {"create", "signin"} /\ reply[f] = "granted"
        /\ UNCHANGED <<account, hurried, pc, change, target, named>>
        /\ \/ current' = UserOf(f) /\ reply' = [reply EXCEPT ![f] = "ok"]
           \/ current' = current /\ reply' = [reply EXCEPT ![f] = "error"]
    BY <1>8 DEF SetCurrentUser, Inductive, OneThingPending
  <2>2. SUFFICES ASSUME ~hurried' PROVE Patience'
    BY DEF Patience
  <2>3. ASSUME NEW g \in Attempts, Granted(g)' PROVE current' = UserOf(g) \/ change[g] = "evicted"
    <3>1. pc[g] \in Waiting
      BY <2>1, <2>3 DEF Granted
    <3>2. g = f
      BY <2>1, <2>2, <3>1 DEF Patience
    <3>3. QED
      BY <1>a, <2>1, <2>3, <3>2 DEF Granted
  <2>4. QED
    BY <2>1, <2>2, <2>3 DEF Patience
<1>9. ASSUME NEW f \in Attempts,
             ShowError(f) \/ AfterCreate(f) \/ AfterSignIn(f) \/ AfterPut(f) \/ AfterWrite(f)
      PROVE  Patience'
  <2>1. /\ reply' = [reply EXCEPT ![f] = "none"] /\ UNCHANGED <<account, hurried, current, change, target, named>>
        /\ \/ pc' = [pc EXCEPT ![f] = "reported"] \/ pc' = [pc EXCEPT ![f] = "silent"]
           \/ pc' = [pc EXCEPT ![f] = "signedin"] \/ pc' = [pc EXCEPT ![f] = "complete"]
           \/ pc[f] = "create" /\ reply[f] = "ok" /\ pc' = [pc EXCEPT ![f] = "put"]
           \/ pc[f] = "put" /\ pc' = [pc EXCEPT ![f] = "url"]
    BY <1>9 DEF ShowError, AfterCreate, AfterSignIn, AfterPut, AfterWrite, Proceed, Finish
  <2>2. pc[f] \in Waiting /\ reply[f] # "none"
    BY <1>9 DEF ShowError, AfterCreate, AfterSignIn, AfterPut, AfterWrite
  <2>3. \A g \in Attempts : g # f => pc'[g] = pc[g] /\ reply'[g] = reply[g]
    BY <1>a, <2>1
  <2>4. \/ pc'[f] \in {"reported", "silent", "signedin", "complete"}
        \/ pc[f] = "create" /\ reply[f] = "ok" /\ pc'[f] = "put"
        \/ pc[f] = "put" /\ pc'[f] = "url"
    BY <1>a, <2>1
  <2>5. \A g \in Attempts : Granted(g)' => Granted(g)
    BY <2>3, <2>4 DEF Granted
  <2>6. \A g \in Attempts : /\ pc'[g] \in Waiting => pc[g] \in Waiting
                            /\ pc'[g] = "idle" => pc[g] = "idle"
                            /\ pc'[g] \in {"idle", "create", "signin", "put", "url"}
                                 => pc[g] \in {"idle", "create", "signin", "put", "url"}
    BY <2>2, <2>3, <2>4
  <2>7. QED
    BY <1>a, <2>1, <2>5, <2>6 DEF Patience
<1>10. ASSUME NEW f \in Attempts, AfterURL(f) PROVE Patience'
  <2>1. pc[f] = "url" /\ UNCHANGED <<account, hurried, current, named>>
    BY <1>10 DEF AfterURL
  <2>2. SUFFICES ASSUME ~hurried' PROVE Patience'
    BY DEF Patience
  <2>3. current = UserOf(f)
    BY <2>1, <2>2 DEF Patience, Granted
  <2>4. /\ \A g \in Attempts : g # f => /\ pc'[g] = pc[g] /\ reply'[g] = reply[g]
                                        /\ change'[g] = change[g] /\ target'[g] = target[g]
        /\ \/ pc'[f] = "write" /\ (change'[f] = "sent" => target'[f] = current) /\ change'[f] \in {"sent", "none"}
           \/ pc'[f] = "silent" /\ change'[f] = change[f] /\ target'[f] = target[f]
    <3>1. change[f] = "none"
      BY <2>1, <2>2 DEF Patience
    <3>2. QED
      BY <1>10, <1>a, <3>1 DEF AfterURL, Proceed, Finish
  <2>5. \A g \in Attempts : Granted(g)' => Granted(g)
    BY <2>1, <2>4 DEF Granted
  <2>6. \A g \in Attempts : /\ pc'[g] \in Waiting => pc[g] \in Waiting
                            /\ pc'[g] = "idle" => pc[g] = "idle"
    BY <2>1, <2>4
  <2>7. QED
    BY <1>a, <2>1, <2>2, <2>3, <2>4, <2>5, <2>6 DEF Patience
<1>11. ASSUME NEW f \in Attempts, ChangeName(f) PROVE Patience'
  <2>1. /\ change[f] \in {"sent", "stray"} /\ named' = [named EXCEPT ![target[f].account] = f]
        /\ UNCHANGED <<current, account, hurried, pc, reply>>
        /\ \A g \in Attempts : g # f => change'[g] = change[g] /\ target'[g] = target[g]
        /\ change'[f] \in {"none", "done", "failed"}
    BY <1>11, <1>a DEF ChangeName, Settle
  <2>2. SUFFICES ASSUME ~hurried' PROVE Patience'
    BY DEF Patience
  <2>3. target[f].account = account[f] /\ pc[f] \notin {"idle", "create", "signin", "put", "url"}
    <3>1. ~hurried /\ change[f] # "none"
      BY <2>1, <2>2
    <3>2. target[f] = [by |-> f, account |-> account[f]]
      BY <2>1, <3>1 DEF Patience
    <3>3. pc[f] \notin {"idle", "create", "signin", "put", "url"}
      BY <3>1 DEF Patience
    <3>4. QED
      BY <3>2, <3>3
  <2>4. \A a \in Accounts : named'[a] = IF a = account[f] THEN f ELSE named[a]
    BY <1>a, <2>1, <2>3
  <2>5. QED
    BY <2>1, <2>2, <2>3, <2>4 DEF Patience, Granted
<1>12. ASSUME NEW f \in Attempts, FailChange(f) \/ RejectToken(f) PROVE Patience'
  <2>1. /\ change[f] \in {"sent", "stray"} /\ UNCHANGED <<named, account, hurried, pc, reply>>
        /\ \A g \in Attempts : g # f => change'[g] = change[g] /\ target'[g] = target[g]
        /\ change'[f] \in {"none", "failed", "evicted"}
        /\ current' = current \/ (target[f] = current /\ change'[f] = "evicted")
    BY <1>12, <1>a DEF FailChange, RejectToken, Settle
  <2>2. SUFFICES ASSUME ~hurried' PROVE Patience'
    BY DEF Patience
  <2>3. target[f] = UserOf(f)
    BY <2>1, <2>2 DEF Patience
  <2>4. ASSUME NEW g \in Attempts, Granted(g)' PROVE current' = UserOf(g) \/ change'[g] = "evicted"
    <3>1. Granted(g) /\ (current = UserOf(g) \/ change[g] = "evicted")
      BY <2>1, <2>2, <2>4 DEF Patience, Granted
    <3>2. CASE g = f
      BY <2>1, <3>1, <3>2
    <3>3. CASE g # f
      BY <2>1, <2>3, <3>1, <3>3
    <3>4. QED
      BY <3>2, <3>3
  <2>5. QED
    BY <2>1, <2>2, <2>4 DEF Patience
<1>13. QED
  BY <1>1, <1>2, <1>3, <1>4, <1>5, <1>6, <1>7, <1>8, <1>9, <1>10, <1>11, <1>12
     DEF Next, Tap, Callback, ProfileChange

LEMMA PatienceHolds == Spec => []Patience
<1>1. Init => Patience
  BY SentinelsAssumption DEF Init, Patience, Granted
<1>2. Inductive /\ Patience /\ [Next]_vars => Patience'
  BY PatienceStep
<1>3. QED
  BY <1>1, <1>2, InductiveInvariant, PTL DEF Spec

(* For a user who waits for each attempt, an account displays the name     *)
(* given by the attempt that registered it, whatever restarts and late     *)
(* answers come in between.                                                *)
THEOREM NamesBelong == Spec => []NamesBelongToOwners
<1>1. Patience => NamesBelongToOwners
  BY DEF Patience, NamesBelongToOwners
<1>2. QED
  BY <1>1, PatienceHolds, PTL

(* ... and is signed in as the account just completed, unless the backend  *)
(* rejected the profile change of that very attempt.                       *)
THEOREM CompletionSignedIn == Spec => CompletionIsSignedIn
<1>1. ASSUME Inductive, Patience, [Next]_vars, NEW f \in Attempts,
             ~hurried, pc[f] # "complete", pc'[f] = "complete"
      PROVE  current = UserOf(f) \/ change[f] = "evicted"
  <2>1. pc \in [Attempts -> {"idle"} \cup Waiting \cup Ended \cup Lost]
    BY <1>1 DEF Inductive, TypeOK
  <2>2. ASSUME NEW g \in Attempts, Callback(g) PROVE pc[f] = "write"
    <3>1. \/ g = f /\ pc[f] = "write"
          \/ \E l \in {"reported", "silent", "signedin", "put", "url", "write"} : pc' = [pc EXCEPT ![g] = l]
          \/ g # f /\ pc' = [pc EXCEPT ![g] = "complete"]
      BY <2>2 DEF Callback, ShowError, AfterCreate, AfterSignIn, AfterPut, AfterURL, AfterWrite,
                  Proceed, Finish
    <3>2. QED
      BY <1>1, <2>1, <3>1
  <2>3. ASSUME NEW g \in Attempts, Serve(g) \/ SetCurrentUser(g) \/ ProfileChange(g) PROVE pc' = pc
    BY <2>3 DEF Serve, CreateAccount, GrantSignIn, StorePhoto, GiveURL, StoreProfile,
                StoreProfileUnacknowledged, Refuse, Answer, SetCurrentUser, ProfileChange, ChangeName,
                FailChange, RejectToken, Settle
  <2>4. ASSUME Tap \/ Relaunch
        PROVE  \/ pc' = pc
               \/ \E g \in Attempts, l \in {"create", "signin"} : pc' = [pc EXCEPT ![g] = l]
               \/ pc' = Killed
               \/ \E g \in Attempts : pc' = [Killed EXCEPT ![g] = "crashed"]
    BY <2>4 DEF Tap, OpenSignUp, PickPhoto, LogOut, Register, SignIn, Start, Relaunch, Restart
  <2>5. \A g \in Attempts : Killed[g] = pc[g] \/ Killed[g] = "killed"
    BY DEF Killed
  <2>6. Tap \/ Relaunch => pc'[f] # "complete"
    BY <1>1, <2>1, <2>4, <2>5 DEF Killed
  <2>7. pc[f] = "write"
    BY <1>1, <2>2, <2>3, <2>6 DEF Next, vars
  <2>8. QED
    BY <1>1, <2>7 DEF Patience, Granted
<1>2. Inductive /\ Patience /\ [Next]_vars
        => \A f \in Attempts : ~hurried /\ pc[f] # "complete" /\ pc'[f] = "complete"
                                 => current = UserOf(f) \/ change[f] = "evicted"
  BY <1>1
<1>3. QED
  BY <1>2, PatienceHolds, InductiveInvariant, PTL DEF Spec, CompletionIsSignedIn
=============================================================================
