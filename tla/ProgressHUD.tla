---------------------------- MODULE ProgressHUD -----------------------------
(***************************************************************************)
(* The one HUD of the app (Pods/ProgressHUD).  Its class functions only    *)
(* post a task to the main queue; the tasks, the timer that ends a message *)
(* and the completions of fade-out animations meet in any order.           *)
(***************************************************************************)
EXTENDS Naturals, Sequences

CONSTANTS Calls,   \* the calls of the class functions
          NoCall     \* nil

ASSUME CallsAssumption == NoCall \notin Calls

VARIABLES kind,      \* what each call asks for; "unused" before it is made
          queue,     \* the calls waiting on the main queue
          content,   \* the call whose status and icon the views show
          alpha,     \* alpha of the HUD
          bar,       \* the toolbar: no view, fading in or visible, fading out
          timer,     \* the call that armed the running timer
          fades      \* fade-outs whose completion has not run

hudVars == <<kind, queue, content, alpha, bar, timer, fades>>

(* A spinner stays (show, showProgress: hide is false), a message goes by  *)
(* itself (showError, showSuccess ...: hide is true).                      *)
Asks == {"spinner", "message", "dismiss"}

HudTypeOK == /\ kind \in [Calls -> {"unused"} \cup Asks]
             /\ queue \in Seq(Calls)
             /\ content \in Calls \cup {NoCall}
             /\ alpha \in {0, 1}
             /\ bar \in {"none", "up", "down"}
             /\ timer \in Calls \cup {NoCall}
             /\ fades \in Nat

HudInit == /\ kind = [r \in Calls |-> "unused"]
           /\ queue = <<>>
           /\ content = NoCall /\ alpha = 0 /\ bar = "none"
           /\ timer = NoCall
           /\ fades = 0

Post(r, ask) == /\ kind[r] = "unused"
                /\ kind' = [kind EXCEPT ![r] = ask]
                /\ queue' = Append(queue, r)
                /\ UNCHANGED <<content, alpha, bar, timer, fades>>
-----------------------------------------------------------------------------
(* Fault: the timer of the previous message is left running. *)
ArmKeep(r) == timer' = IF kind[r] = "message" THEN r ELSE timer

(* hudShow stops the timer of what was shown before; setup starts a new    *)
(* one for a message.                                                      *)
Arm(r) == timer' = IF kind[r] = "message" THEN r ELSE NoCall

(* Fault: a message is shown but its timer is forgotten. *)
SetupTimeless(r) == /\ content' = r
                    /\ timer' = NoCall
                    /\ alpha' = 1
                    /\ bar' = IF alpha = 1 THEN bar ELSE "up"
                    /\ UNCHANGED fades

(* setup: create the views that are missing, replace the content, hudShow. *)
(* The toolbar fades in only if the HUD was gone: one that is fading out   *)
(* keeps doing so.                                                         *)
Setup(r) == /\ content' = r
            /\ Arm(r)
            /\ alpha' = 1
            /\ bar' = IF alpha = 1 THEN bar ELSE "up"
            /\ UNCHANGED fades

HudHide == IF alpha = 1
           THEN /\ bar' = "down"
                /\ fades' = fades + 1
                /\ UNCHANGED <<content, alpha>>
           ELSE UNCHANGED <<content, alpha, bar, fades>>

(* Fault: dismiss is not passed on to the HUD. *)
RunTaskNoDismiss ==
    /\ queue # <<>>
    /\ queue' = Tail(queue)
    /\ IF kind[Head(queue)] = "dismiss" THEN UNCHANGED <<content, alpha, bar, timer, fades>>
                                        ELSE Setup(Head(queue))
    /\ UNCHANGED kind

RunTask == /\ queue # <<>>
           /\ queue' = Tail(queue)
           /\ IF kind[Head(queue)] = "dismiss" THEN HudHide /\ UNCHANGED timer
                                               ELSE Setup(Head(queue))
           /\ UNCHANGED kind

TimerFires == /\ timer # NoCall
              /\ timer' = NoCall
              /\ HudHide
              /\ UNCHANGED <<kind, queue>>

(* Fault: the views go but the HUD still counts as shown. *)
FadeEndsOpaque == /\ fades > 0
                  /\ fades' = fades - 1
                  /\ content' = NoCall /\ timer' = NoCall
                  /\ UNCHANGED <<kind, queue, alpha, bar>>

(* hudDestroy and alpha = 0, whatever was shown since the fade began.      *)
FadeEnds == /\ fades > 0
            /\ fades' = fades - 1
            /\ content' = NoCall /\ bar' = "none" /\ timer' = NoCall
            /\ alpha' = 0
            /\ UNCHANGED <<kind, queue>>

HudNext == \/ \E r \in Calls, ask \in Asks : Post(r, ask)
           \/ RunTask \/ TimerFires \/ FadeEnds

(* The main queue is drained, timers fire and animations complete.         *)
HudFairness == WF_hudVars(RunTask) /\ WF_hudVars(TimerFires) /\ WF_hudVars(FadeEnds)

HudSpec == HudInit /\ [][HudNext]_hudVars
HudFairSpec == HudSpec /\ HudFairness
-----------------------------------------------------------------------------
Shows(r) == content = r

(* A HUD that has faded out is about to be destroyed: it cannot stay       *)
(* invisible in the window, where every later call would be invisible too. *)
NeverStuckInvisible == bar = "down" => fades > 0 /\ alpha = 1

(* The timer that runs was armed by the message on display: an old timer   *)
(* never takes down a newer spinner or message.                            *)
TimerIsForContent == timer # NoCall => Shows(timer) /\ kind[timer] = "message"

(* The views exist exactly while alpha is 1 (used by the proofs).          *)
ViewsMatchAlpha == /\ content = NoCall <=> alpha = 0
                   /\ content = NoCall <=> bar = "none"

(* Messages leave by themselves, whatever is posted meanwhile: the HUD     *)
(* does not show messages for ever.                                        *)
MessagesLeave == content # NoCall /\ kind[content] = "message"
                    ~> content = NoCall \/ kind[content] # "message"

(* Whatever is shown while a dismiss is waiting, the HUD is cleared in the *)
(* end: none of the calls around the dismiss makes it miss.                *)
DismissIsObeyed == content # NoCall /\ (\E i \in DOMAIN queue : kind[queue[i]] = "dismiss")
                      ~> content = NoCall
=============================================================================
