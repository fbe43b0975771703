------------------------------ MODULE Screens -------------------------------
(***************************************************************************)
(* Registration behind its screens: the chain of presented view            *)
(* controllers decides which taps are possible, and the callbacks of an    *)
(* attempt present and dismiss screens that may be gone by then.           *)
(*                                                                         *)
(* The chain starts at the window's root, a MainTabBarController; each     *)
(* screen presents the next one and only the last is touched.  UIKit       *)
(* ignores present() on a screen that is not in the chain or presents      *)
(* already, and dismiss() on one that is not in the chain.                 *)
(***************************************************************************)
EXTENDS Registration, Naturals, FiniteSets, SequencesExt

CONSTANT MaxScreens    \* bound: sign-up forms and sign-in screens opened

ASSUME MaxScreensAssumption == MaxScreens \in Nat

VARIABLES chain,    \* the presented screens, root first
          opened,   \* how many forms and sign-in screens were opened
          origin    \* the screen an attempt was started on

screens == <<chain, opened, origin>>
allVars == <<vars, screens>>

Kinds == {"tabs", "main", "signup", "picker", "signin", "sheet"}
Screen(kind, id) == [kind |-> kind, id |-> id]
Plain(kind) == Screen(kind, 0)

ScreensTypeOK == /\ chain \in Seq([kind : Kinds, id : 0 .. MaxScreens]) \ {<<>>}
                 /\ opened \in 0 .. MaxScreens
                 /\ origin \in [Attempts -> 0 .. MaxScreens]

Top == Last(chain)
On(kind) == Top.kind = kind

(* UIKit's present and dismiss.  Screens with an id are told apart.        *)
Shown(id) == \E i \in DOMAIN chain : chain[i].id = id

Present(id, new) == IF Top.id = id THEN chain \o new ELSE chain

Dismiss(id) == IF Shown(id)
               THEN SubSeq(chain, 1, SelectInSeq(chain, LAMBDA s : s.id = id) - 1)
               ELSE chain
-----------------------------------------------------------------------------
(* Fault: the tab bar does not look at the current user. *)
TabsForAll(user) == <<Plain("tabs")>>

(* MainTabBarController.viewDidLoad puts MainController over itself when   *)
(* nobody is signed in.                                                    *)
Tabs(user) == IF user = NoUser THEN <<Plain("tabs"), Plain("main")>> ELSE <<Plain("tabs")>>

ScreensInit == /\ Init
               /\ chain = Tabs(NoUser)
               /\ opened = 0
               /\ origin = [f \in Attempts |-> 0]

(* The process started again: new screens.                                 *)
Afresh == /\ chain' = Tabs(current')
          /\ opened' = 0
          /\ origin' = [f \in Attempts |-> 0]

Open(kind) == /\ opened < MaxScreens
              /\ opened' = opened + 1
              /\ chain' = Append(chain, Screen(kind, opened + 1))
              /\ UNCHANGED origin

(* MainController's button.                                                *)
TapCreateAccount == /\ On("main")
                    /\ OpenSignUp
                    /\ Open("signup")

(* SignupController: photo, Register, "Already have an account?" and X.    *)
TapAddPhoto == /\ On("signup")
               /\ chain' = Append(chain, Plain("picker"))
               /\ UNCHANGED <<vars, opened, origin>>

ClosePicker == /\ On("picker")
               /\ PickPhoto \/ UNCHANGED vars
               /\ chain' = Front(chain)
               /\ UNCHANGED <<opened, origin>>

TapRegister(f, a) ==
    /\ On("signup")
    /\ Register(f, a)
    /\ IF photo THEN /\ origin' = [origin EXCEPT ![f] = Top.id]
                     /\ UNCHANGED <<chain, opened>>
                ELSE Afresh

TapHaveAccount == /\ On("signup")
                  /\ Open("sheet")
                  /\ UNCHANGED vars

(* Fault: X opens a welcome screen instead of uncovering the one below. *)
TapXForward == /\ On("signup")
               /\ chain' = Append(chain, Plain("main"))
               /\ UNCHANGED <<vars, opened, origin>>

TapX == /\ On("signup")
        /\ chain' = Front(chain)
        /\ UNCHANGED <<vars, opened, origin>>

(* A sign-in screen over the sign-up form is a sheet and can be swiped     *)
(* away; the one shown by Log Out covers the screen.                       *)
SwipeSheet == /\ On("sheet")
              /\ chain' = Front(chain)
              /\ UNCHANGED <<vars, opened, origin>>

TapSignIn(f, a) == /\ On("sheet") \/ On("signin")
                   /\ SignIn(f, a)
                   /\ origin' = [origin EXCEPT ![f] = Top.id]
                   /\ UNCHANGED <<chain, opened>>

(* Fault: Log Out leaves the tabs on the screen. *)
TapLogOutStay == /\ On("tabs")
                 /\ LogOut
                 /\ UNCHANGED screens

(* MeController's Log Out row.                                             *)
TapLogOut == /\ On("tabs")
             /\ LogOut
             /\ Open("signin")

(* Sign-in dismisses its own screen, whatever is below it.                 *)
SignedIn(f) == /\ AfterSignIn(f)
               /\ chain' = Dismiss(origin[f])
               /\ UNCHANGED <<opened, origin>>

(* Sign-up presents another tab bar from its form, above everything.       *)
SignedUp(f) == /\ AfterWrite(f)
               /\ chain' = Present(origin[f], Tabs(current))
               /\ UNCHANGED <<opened, origin>>

Background(f) == /\ \/ Serve(f) \/ SetCurrentUser(f) \/ ProfileChange(f)
                    \/ ShowError(f) \/ AfterCreate(f) \/ AfterPut(f) \/ AfterURL(f)
                 /\ UNCHANGED screens

ScreensNext ==
    \/ TapCreateAccount \/ TapAddPhoto \/ ClosePicker \/ TapHaveAccount \/ TapX
    \/ SwipeSheet \/ TapLogOut
    \/ \E f \in Attempts, a \in Accounts : TapRegister(f, a) \/ TapSignIn(f, a)
    \/ \E f \in Attempts : SignedIn(f) \/ SignedUp(f) \/ Background(f)
    \/ Relaunch /\ Afresh

ScreensSpec == ScreensInit /\ [][ScreensNext]_allVars
-----------------------------------------------------------------------------
(* What the last screen lets the user do is what Registration allows.      *)
ControlsAreInReach == /\ On("signup") => {"register", "signin"} \subseteq reach
                      /\ On("picker") => "register" \in reach
                      /\ On("sheet") \/ On("signin") => "signin" \in reach
                      /\ On("tabs") => "logout" \in reach

(* However late callbacks stack screens, there is one sign-up form and one *)
(* screen over it, unless evictions during sign-ups put another welcome    *)
(* screen on top; and every further tab bar is a completed sign-up.        *)
Count(kinds) == Cardinality({i \in DOMAIN chain : chain[i].kind \in kinds})
Evicted == {f \in Attempts : change[f] = "evicted"}

ChainIsBounded ==
    /\ Count({"signup"}) <= 1 + Cardinality(Evicted)
    /\ Count({"picker", "sheet", "signin"}) <= 1
    /\ Count({"tabs"}) <= 1 + Cardinality({f \in Attempts : pc[f] = "complete"})

(* The tabs are touched only by a signed-in user, unless the session was   *)
(* taken away by force: nothing watches for that.                          *)
TabsMeanSession ==
    On("tabs") => current # NoUser \/ Evicted # {}

(* The chain is one of screens, and late callbacks do not pile them up.    *)
ChainIsSound == ScreensTypeOK /\ ChainIsBounded

(* "allows new users to login", "resets the UI" (SignupController): after  *)
(* the sign-up of a user who waits for each attempt only tabs are left.    *)
SignUpResetsScreens ==
    [][\A f \in Attempts : ~hurried /\ pc[f] # "complete" /\ pc'[f] = "complete"
          => chain' = Tabs(current)]_allVars

(* "or login if already registered" (MainController): the sign-in of such  *)
(* a user shows the tabs.                                                  *)
SignInShowsTabs ==
    [][\A f \in Attempts : ~hurried /\ pc[f] # "signedin" /\ pc'[f] = "signedin"
          => Last(chain').kind = "tabs"]_allVars
=============================================================================
