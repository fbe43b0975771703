---------------------------- MODULE Registration ----------------------------
(***************************************************************************)
(* Sign-up, sign-in and log-out: UserApi.swift, StorageService.swift, the  *)
(* handlers that call them, and the part of the Firebase client they rely  *)
(* on (session, keychain, profile change).  An attempt is one tap on       *)
(* Register or Sign In and the chain of callbacks it starts.  Attempts     *)
(* overlap, their requests outlive the process, and the session changes on *)
(* the auth queue before the callback runs on the main queue.              *)
(***************************************************************************)
CONSTANTS Attempts,    \* taps on Register or Sign In
          Accounts,    \* e-mail addresses; each names one account and its uid
          NoUser,      \* nil
          Restored     \* marks the user object read from the keychain

ASSUME SentinelsAssumption ==
    /\ NoUser \notin Attempts \cup Accounts
    /\ NoUser \notin [by : Attempts \cup {Restored}, account : Accounts]
    /\ Restored \notin Attempts

VARIABLES
    registered,  \* backend: accounts that exist
    photos,      \* backend: accounts with a photo at their storage path
    profiles,    \* backend: accounts with a record below users/
    named,       \* backend: the attempt whose user name an account displays
    keychain,    \* phone: the account saved in the keychain
    current,     \* phone: Auth.currentUser, a user object
    reach,       \* phone: the controls that the screens shown so far offer
    photo,       \* phone: SignupController.imageForFirebase # nil
    account,     \* the e-mail address an attempt was started with
    hurried,     \* has the user ever tapped before an attempt had ended?
    pc,          \* where an attempt is in its chain of callbacks
    req,         \* the request of an attempt that the backend has yet to answer
    reply,       \* the answer the phone has yet to handle
    change,      \* the profile change an attempt started
    target       \* the user object that change is made on

server == <<registered, photos, profiles, named>>
session == <<keychain, current>>
screen == <<reach, photo>>
started == <<account, hurried>>
profileChange == <<change, target>>
vars == <<registered, photos, profiles, named, keychain, current, reach, photo,
          account, hurried, pc, req, reply, change, target>>

Waiting == {"create", "signin", "put", "url", "write"}
Ended == {"complete", "signedin", "reported", "silent"}
Lost == {"killed", "crashed"}

(* A FIRUser object: two sign-ins of one account make two objects, and     *)
(* FIRAuth compares objects, not accounts.                                 *)
UserObjects == [by : Attempts \cup {Restored}, account : Accounts]
UserOf(f) == [by |-> f, account |-> account[f]]

TypeOK == /\ registered \subseteq Accounts
          /\ photos \subseteq Accounts
          /\ profiles \subseteq Accounts
          /\ named \in [Accounts -> Attempts \cup {NoUser}]
          /\ keychain \in Accounts \cup {NoUser}
          /\ current \in UserObjects \cup {NoUser}
          /\ reach \subseteq {"register", "signin", "logout"}
          /\ photo \in BOOLEAN
          /\ account \in [Attempts -> Accounts \cup {NoUser}]
          /\ hurried \in BOOLEAN
          /\ pc \in [Attempts -> {"idle"} \cup Waiting \cup Ended \cup Lost]
          /\ req \in [Attempts -> {"none"} \cup Waiting]
          /\ reply \in [Attempts -> {"none", "granted", "ok", "error"}]
          /\ change \in [Attempts -> {"none", "sent", "stray", "done", "failed", "evicted"}]
          /\ target \in [Attempts -> UserObjects \cup {NoUser}]
-----------------------------------------------------------------------------
(* The first screen: MainTabBarController asks for the current user once.  *)
FirstControls(user) == IF user = NoUser THEN {"register", "signin"} ELSE {"logout"}

Init == /\ registered = {} /\ photos = {} /\ profiles = {}
        /\ named = [a \in Accounts |-> NoUser]
        /\ keychain = NoUser /\ current = NoUser
        /\ reach = FirstControls(NoUser)
        /\ photo = FALSE
        /\ account = [f \in Attempts |-> NoUser]
        /\ hurried = FALSE
        /\ pc = [f \in Attempts |-> "idle"]
        /\ req = [f \in Attempts |-> "none"]
        /\ reply = [f \in Attempts |-> "none"]
        /\ change = [f \in Attempts |-> "none"]
        /\ target = [f \in Attempts |-> NoUser]

(* No button is disabled while an attempt runs, and the spinner lets taps  *)
(* through: only the user's patience keeps attempts apart.                 *)
Tapped == hurried' = (hurried \/ \E g \in Attempts : pc[g] \in Waiting)

Start(f, a, call) == /\ account' = [account EXCEPT ![f] = a]
                     /\ pc' = [pc EXCEPT ![f] = call]
                     /\ req' = [req EXCEPT ![f] = call]
                     /\ Tapped
-----------------------------------------------------------------------------
(* The process ends and starts again.  Answers not handled yet are lost,   *)
(* requests already sent are not.  FIRAuth's initialiser reloads the user, *)
(* or nobody when the keychain cannot be read.                             *)
Killed == [g \in Attempts |-> IF pc[g] \in Waiting THEN "killed" ELSE pc[g]]

SavedUser == IF keychain = NoUser THEN NoUser
             ELSE [by |-> Restored, account |-> keychain]

Restart(fates) ==
    /\ pc' = fates
    /\ reply' = [g \in Attempts |-> "none"]
    /\ change' = [g \in Attempts |-> IF change[g] = "sent" THEN "stray" ELSE change[g]]
    /\ current' \in {SavedUser, NoUser}
    /\ reach' = FirstControls(current')
    /\ photo' = FALSE
    /\ UNCHANGED <<server, keychain, account, req, target>>

Relaunch == Restart(Killed) /\ UNCHANGED hurried

(* MainController opens a new sign-up form: no photo chosen yet.           *)
OpenSignUp == /\ "register" \in reach
              /\ photo' = FALSE
              /\ UNCHANGED <<server, session, reach, started, pc, req, reply, profileChange>>

PickPhoto == /\ "register" \in reach
             /\ photo' = TRUE
             /\ UNCHANGED <<server, session, reach, started, pc, req, reply, profileChange>>

(* handleTextChange enables Register without looking at the photo, and     *)
(* signUp unwraps imageForFirebase before anything checks it.              *)
Register(f, a) ==
    /\ "register" \in reach /\ pc[f] = "idle"
    /\ IF photo
       THEN /\ Start(f, a, "create")
            /\ UNCHANGED <<server, session, screen, reply, profileChange>>
       ELSE Restart([Killed EXCEPT ![f] = "crashed"]) /\ Tapped

SignIn(f, a) ==
    /\ "signin" \in reach /\ pc[f] = "idle"
    /\ Start(f, a, "signin")
    /\ UNCHANGED <<server, session, screen, reply, profileChange>>

(* FIRAuth.signOut leaves the keychain alone when nobody is signed in, and *)
(* keeps the user when the keychain refuses (LogOut then shows the error). *)
LogOut == /\ "logout" \in reach
          /\ Tapped
          /\ reach' = reach \cup {"signin"}
          /\ current' = NoUser
          /\ keychain' = IF current = NoUser THEN keychain ELSE NoUser
          /\ UNCHANGED <<server, photo, account, pc, req, reply, profileChange>>
-----------------------------------------------------------------------------
(* Fault: an answer is kept for an attempt that is gone. *)
AnswerAnyone(f, r) == /\ req' = [req EXCEPT ![f] = "none"]
                      /\ reply' = [reply EXCEPT ![f] = r]
                      /\ UNCHANGED <<session, screen, started, pc, profileChange>>

(* The backend.  An answer to an attempt whose process is gone is dropped; *)
(* an answer may be lost on the way and turn into an error.                *)
Answer(f, r) == /\ req' = [req EXCEPT ![f] = "none"]
                /\ reply' = [reply EXCEPT ![f] = IF pc[f] \in Waiting THEN r ELSE "none"]
                /\ UNCHANGED <<session, screen, started, pc, profileChange>>

IsNew(a) == a \notin registered

CreateAccount(f) == /\ req[f] = "create"
                    /\ IsNew(account[f])
                    /\ registered' = registered \cup {account[f]}
                    /\ \E r \in {"granted", "error"} : Answer(f, r)
                    /\ UNCHANGED <<photos, profiles, named>>

GrantSignIn(f) == /\ req[f] = "signin"
                  /\ account[f] \in registered
                  /\ Answer(f, "granted")
                  /\ UNCHANGED server

StorePhoto(f) == /\ req[f] = "put"
                 /\ photos' = photos \cup {account[f]}
                 /\ \E r \in {"ok", "error"} : Answer(f, r)
                 /\ UNCHANGED <<registered, profiles, named>>

GiveURL(f) == /\ req[f] = "url"
              /\ account[f] \in photos
              /\ Answer(f, "ok")
              /\ UNCHANGED server

StoreProfile(f) == /\ req[f] = "write"
                   /\ profiles' = profiles \cup {account[f]}
                   /\ Answer(f, "ok")
                   /\ UNCHANGED <<registered, photos, named>>

(* The connection drops before the write is acknowledged: the client keeps *)
(* it and sends it again.                                                  *)
StoreProfileUnacknowledged(f) ==
    /\ req[f] = "write" /\ pc[f] = "write"
    /\ profiles' = profiles \cup {account[f]}
    /\ UNCHANGED <<registered, photos, named, session, screen,
                   started, pc, req, reply, profileChange>>

(* Fault: a refused request is never called back. *)
RefuseQuietly(f) == /\ req[f] # "none"
                    /\ Answer(f, "none")
                    /\ UNCHANGED server

(* Address in use, wrong password, no network, permission denied ...       *)
Refuse(f) == /\ req[f] # "none"
             /\ Answer(f, "error")
             /\ UNCHANGED server

Serve(f) == \/ CreateAccount(f) \/ GrantSignIn(f) \/ StorePhoto(f) \/ GiveURL(f)
            \/ StoreProfile(f) \/ StoreProfileUnacknowledged(f) \/ Refuse(f)
-----------------------------------------------------------------------------
(* Fault: the callback reports success although the session is unchanged. *)
SetCurrentUserUnchecked(f) ==
    /\ reply[f] = "granted"
    /\ \/ keychain' = account[f] /\ current' = UserOf(f)
       \/ UNCHANGED session
    /\ reply' = [reply EXCEPT ![f] = "ok"]
    /\ UNCHANGED <<server, screen, started, pc, req, profileChange>>

(* The auth queue: save the user to the keychain, and only then make it    *)
(* the current one; the callback is queued on the main queue in any case.  *)
SetCurrentUser(f) ==
    /\ reply[f] = "granted"
    /\ \/ /\ keychain' = account[f]
          /\ current' = UserOf(f)
          /\ reply' = [reply EXCEPT ![f] = "ok"]
       \/ /\ reply' = [reply EXCEPT ![f] = "error"]
          /\ UNCHANGED session
    /\ UNCHANGED <<server, screen, started, pc, req, profileChange>>

(* The main queue: the callbacks of UserApi and StorageService.            *)
Proceed(f, step) == /\ pc' = [pc EXCEPT ![f] = step]
                    /\ req' = [req EXCEPT ![f] = step]
                    /\ reply' = [reply EXCEPT ![f] = "none"]

Finish(f, outcome) == /\ pc' = [pc EXCEPT ![f] = outcome]
                      /\ reply' = [reply EXCEPT ![f] = "none"]
                      /\ UNCHANGED req

ShowError(f) == /\ pc[f] \in Waiting \ {"url"}
                /\ reply[f] = "error"
                /\ Finish(f, "reported")
                /\ UNCHANGED <<server, session, screen, started, profileChange>>

(* Fault: the upload starts before the JPEG data is checked. *)
AfterCreateEager(f) == /\ pc[f] = "create" /\ reply[f] = "ok"
                       /\ \E step \in {"put", "silent"} :
                             /\ pc' = [pc EXCEPT ![f] = step]
                             /\ req' = [req EXCEPT ![f] = "put"]
                             /\ reply' = [reply EXCEPT ![f] = "none"]
                       /\ UNCHANGED <<server, session, screen, started, profileChange>>

(* Fault: the record is written first, the photo never. *)
AfterCreateNoPhoto(f) == /\ pc[f] = "create" /\ reply[f] = "ok"
                         /\ Proceed(f, "write")
                         /\ UNCHANGED <<server, session, screen, started, profileChange>>

(* An image without JPEG data ends the attempt without a word.             *)
AfterCreate(f) == /\ pc[f] = "create" /\ reply[f] = "ok"
                  /\ Proceed(f, "put") \/ Finish(f, "silent")
                  /\ UNCHANGED <<server, session, screen, started, profileChange>>

(* Fault: signing in resumes an unfinished registration. *)
AfterSignInResume(f) == /\ pc[f] = "signin" /\ reply[f] = "ok"
                        /\ Proceed(f, "put")
                        /\ UNCHANGED <<server, session, screen, started, profileChange>>

AfterSignIn(f) == /\ pc[f] = "signin" /\ reply[f] = "ok"
                  /\ Finish(f, "signedin")
                  /\ UNCHANGED <<server, session, screen, started, profileChange>>

AfterPut(f) == /\ pc[f] = "put" /\ reply[f] = "ok"
               /\ Proceed(f, "url")
               /\ UNCHANGED <<server, session, screen, started, profileChange>>

(* The profile change goes to the user who is current now; the record goes *)
(* to the uid the attempt created.  Without a URL nothing is called back.  *)
AfterURL(f) ==
    /\ pc[f] = "url"
    /\ \/ /\ reply[f] = "ok"
          /\ Proceed(f, "write")
          /\ IF current = NoUser THEN UNCHANGED profileChange
             ELSE /\ change' = [change EXCEPT ![f] = "sent"]
                  /\ target' = [target EXCEPT ![f] = current]
       \/ /\ reply[f] = "error"
          /\ Finish(f, "silent")
          /\ UNCHANGED profileChange
    /\ UNCHANGED <<server, session, screen, started>>

AfterWrite(f) == /\ pc[f] = "write" /\ reply[f] = "ok"
                 /\ Finish(f, "complete")
                 /\ reach' = reach \cup {"logout"}
                 /\ UNCHANGED <<server, session, photo, started, profileChange>>

Callback(f) == \/ ShowError(f) \/ AfterCreate(f) \/ AfterSignIn(f) \/ AfterPut(f)
               \/ AfterURL(f) \/ AfterWrite(f)
-----------------------------------------------------------------------------
(* The profile change runs beside the chain; nothing waits for it.         *)
Settle(f, outcome) ==
    /\ change' = [change EXCEPT ![f] = IF change[f] = "stray" THEN "none" ELSE outcome]
    /\ target' = [target EXCEPT ![f] = NoUser]
    /\ UNCHANGED <<screen, started, pc, req, reply>>

(* Fault: the name goes to whoever is signed in when it arrives. *)
ChangeNameOfCurrent(f) ==
    /\ change[f] = "sent" /\ current # NoUser
    /\ named' = [named EXCEPT ![current.account] = f]
    /\ \E outcome \in {"done", "failed"} : Settle(f, outcome)
    /\ UNCHANGED <<registered, photos, profiles, session>>

ChangeName(f) == /\ change[f] \in {"sent", "stray"}
                 /\ named' = [named EXCEPT ![target[f].account] = f]
                 /\ \E outcome \in {"done", "failed"} : Settle(f, outcome)
                 /\ UNCHANGED <<registered, photos, profiles, session>>

FailChange(f) == /\ change[f] \in {"sent", "stray"}
                 /\ Settle(f, "failed")
                 /\ UNCHANGED <<server, session>>

(* The backend rejects the token: this user object is signed out by force, *)
(* even if the keychain keeps its copy.                                    *)
RejectToken(f) ==
    /\ change[f] = "sent"
    /\ IF target[f] = current
       THEN /\ Settle(f, "evicted")
            /\ current' = NoUser
            /\ keychain' \in {NoUser, keychain}
       ELSE /\ Settle(f, "failed")
            /\ UNCHANGED session
    /\ UNCHANGED server

ProfileChange(f) == ChangeName(f) \/ FailChange(f) \/ RejectToken(f)
-----------------------------------------------------------------------------
Tap == \/ OpenSignUp \/ PickPhoto \/ LogOut
       \/ \E f \in Attempts, a \in Accounts : Register(f, a) \/ SignIn(f, a)

Next == \/ Tap \/ Relaunch
        \/ \E f \in Attempts : Serve(f) \/ SetCurrentUser(f) \/ Callback(f) \/ ProfileChange(f)

(* Requests time out or are sent again until answered, and both queues are *)
(* drained: an attempt cannot be starved.  Nobody is made to tap.          *)
Fairness == \A f \in Attempts : /\ WF_vars(Serve(f))
                                /\ WF_vars(SetCurrentUser(f))
                                /\ WF_vars(Callback(f))
                                /\ WF_vars(ProfileChange(f))

Spec == Init /\ [][Next]_vars
FairSpec == Spec /\ Fairness
-----------------------------------------------------------------------------
(* The attempt knows that it created its account and has more to do, or    *)
(* left a request behind that still does.                                  *)
Carries(f) == \/ pc[f] = "create" /\ reply[f] \in {"granted", "ok"}
              \/ pc[f] \in {"put", "url", "write"}
              \/ req[f] \in {"put", "write"}

Running == {f \in Attempts : pc[f] \in Waiting}

(* Accounts that exist without a profile and that no attempt carries on.   *)
Orphans == {a \in registered \ profiles :
              \A f \in Attempts : account[f] = a => ~Carries(f)}
(* A profile has a photo behind it and a photo an account: no step of a    *)
(* sign-up is skipped, whatever is lost, killed or repeated.               *)
RecordsAreBacked == profiles \subseteq photos /\ photos \subseteq registered

(* However often Register is tapped, at most one attempt carries an        *)
(* account on: no photo or record is written twice by different attempts.  *)
OneCarrierPerAccount ==
    \A f, g \in Attempts :
       Carries(f) /\ Carries(g) /\ account[f] = account[g] => f = g

(* A sign-up that reported success left a complete account.                *)
CompleteMeansProfile ==
    \A f \in Attempts : pc[f] = "complete" => account[f] \in profiles

(* The user of the session is the one the keychain will bring back, and    *)
(* the keychain only ever holds accounts that exist.                       *)
SessionIsSaved == /\ keychain \in registered \cup {NoUser}
                  /\ current # NoUser => keychain = current.account

(* The session never belongs to an attempt of an earlier process.          *)
SessionOfThisProcess ==
    \A f \in Attempts : current # NoUser /\ current.by = f => pc[f] \notin {"idle"} \cup Lost

(* An attempt that ends without a word always leaves an account that no    *)
(* one can complete: the spinner that never stops hides a lost sign-up.    *)
SilenceMeansOrphan ==
    \A f \in Attempts : pc[f] = "silent" => account[f] \in Orphans

(* What a sign-up makes of an account, all together.                       *)
AccountsAreSafe == /\ RecordsAreBacked /\ OneCarrierPerAccount
                   /\ CompleteMeansProfile /\ SilenceMeansOrphan

(* An orphan stays one: registering again is refused, signing in succeeds  *)
(* but writes no profile.                                                  *)
OrphansStayOrphans == [][Orphans \subseteq Orphans']_vars

(* A user who waits for each attempt is signed in as the account just      *)
(* completed, unless the profile change got that user evicted meanwhile.   *)
CompletionIsSignedIn ==
    [][\A f \in Attempts :
          ~hurried /\ pc[f] # "complete" /\ pc'[f] = "complete"
             => current = UserOf(f) \/ change[f] = "evicted"]_vars

(* For a user who waits for each attempt, an account displays the name     *)
(* given by the attempt that registered it.                                *)
NamesBelongToOwners ==
    ~hurried => \A a \in Accounts : named[a] # NoUser => account[named[a]] = a

(* Every attempt ends: completed, reported, or silent.                     *)
AttemptsEnd == \A f \in Attempts : f \in Running ~> f \notin Running

(* Registering without a photo is answered, not fatal (UserApi.SignUp has  *)
(* a message for it).                                                      *)
EmptyPhotoIsAnswered == \A f \in Attempts : pc[f] # "crashed"
-----------------------------------------------------------------------------
(* The inductive invariant behind the safety properties.  An attempt has   *)
(* one request or one unhandled answer, never both; only a killed attempt  *)
(* leaves a request behind.                                                *)
OneThingPending(f) ==
    /\ pc[f] \notin {"idle", "crashed"} => account[f] \in Accounts
    /\ pc[f] \notin Waiting \cup {"killed"} => req[f] = "none"
    /\ pc[f] \in Waiting => req[f] \in {"none", pc[f]}
    /\ reply[f] # "none" => pc[f] \in Waiting /\ req[f] = "none"
    /\ reply[f] = "granted" => pc[f] \in {"create", "signin"}
    /\ change[f] \in {"sent", "stray"} => target[f] # NoUser

(* What the backend holds of the account at each step of the chain.        *)
BackendMatches(f) ==
    /\ pc[f] = "signin" /\ reply[f] \in {"granted", "ok"} => account[f] \in registered
    /\ Carries(f) => account[f] \in registered
    /\ Carries(f) /\ "write" \notin {pc[f], req[f]} => account[f] \notin profiles
    /\ \/ pc[f] \in {"url", "write"}
       \/ pc[f] = "put" /\ reply[f] = "ok"
       \/ req[f] = "write"
       => account[f] \in photos
    /\ pc[f] = "write" /\ reply[f] = "ok" => account[f] \in profiles
    /\ pc[f] = "complete" => account[f] \in profiles
    /\ pc[f] = "silent" => account[f] \in registered \ profiles

(* An account that is carried on, or was given up silently, is the         *)
(* business of no other attempt.                                           *)
Exclusive(f, g) ==
    account[f] = account[g] /\ Carries(f) /\ (Carries(g) \/ pc[g] = "silent") => f = g

(* All parts together; the safety properties above follow from it.         *)
Inductive == /\ TypeOK
             /\ RecordsAreBacked
             /\ SessionIsSaved
             /\ SessionOfThisProcess
             /\ \A f \in Attempts : OneThingPending(f) /\ BackendMatches(f)
             /\ \A f, g \in Attempts : Exclusive(f, g)
-----------------------------------------------------------------------------
(* The promise the sign-up path keeps to each account.                     *)
Stage == [a \in Accounts |-> IF a \in profiles THEN "profiled" ELSE
                             IF a \in photos THEN "pictured" ELSE
                             IF a \in registered THEN "registered" ELSE "absent"]

Carried == {a \in Accounts : \E f \in Attempts : Carries(f) /\ account[f] = a}

Lifecycle == INSTANCE AccountLifecycle WITH stage <- Stage, open <- Carried

KeepsLifecycle == Lifecycle!Spec
=============================================================================
