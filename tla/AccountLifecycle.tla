-------------------------- MODULE AccountLifecycle --------------------------
(***************************************************************************)
(* What the sign-up path of the app promises of an account, without the    *)
(* phone, the network or the screens: an account is registered once, then  *)
(* gets a photo, then a profile, in this order and each at most once; and  *)
(* only the registration that created it can carry it on.  A registration  *)
(* that is given up is never resumed: nothing else in the app writes a     *)
(* photo or a profile (StorageService.savePhoto is called from             *)
(* UserApi.SignUp only).                                                   *)
(***************************************************************************)
CONSTANT Accounts

VARIABLES stage,   \* how far each account got
          open     \* the accounts whose registration is still being carried on

vars == <<stage, open>>

Stages == {"absent", "registered", "pictured", "profiled"}

TypeOK == /\ stage \in [Accounts -> Stages]
          /\ open \subseteq Accounts

Init == /\ stage = [a \in Accounts |-> "absent"]
        /\ open = {}

(* Any registration may be given up or finished at any time: a step keeps  *)
(* some of the open ones.                                                  *)

(* The backend accepts the e-mail address.  The app may never hear of it:  *)
(* then the account exists and no registration carries it.                 *)
Create(a) == /\ stage[a] = "absent"
             /\ stage' = [stage EXCEPT ![a] = "registered"]
             /\ open' \in SUBSET (open \cup {a})

AddPhoto(a) == /\ a \in open
               /\ stage[a] = "registered"
               /\ stage' = [stage EXCEPT ![a] = "pictured"]
               /\ open' \in SUBSET open

AddProfile(a) == /\ a \in open
                 /\ stage[a] = "pictured"
                 /\ stage' = [stage EXCEPT ![a] = "profiled"]
                 /\ open' \in SUBSET open

(* Several at once when the process that carries them dies.                *)
Close == /\ open' \in SUBSET open
         /\ UNCHANGED stage

Next == \/ \E a \in Accounts : Create(a) \/ AddPhoto(a) \/ AddProfile(a)
        \/ Close

Spec == Init /\ [][Next]_vars
=============================================================================
