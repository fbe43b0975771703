------------------------------ MODULE MCViews -------------------------------
(***************************************************************************)
(* Instances for TLC of what the user looks at: PeopleList and             *)
(* AvatarCells, the rows and the pictures of the Users tab, and            *)
(* ProgressHUD.  They share no state (pictures belong to cells, the        *)
(* client's data to users, the HUD to its calls), so one run checks them   *)
(* all: a behaviour moves one part and leaves the others as they were.     *)
(* The people list has two parts: two tables and one person, one table and *)
(* two people.                                                             *)
(***************************************************************************)
EXTENDS PeopleList, AvatarCells, ProgressHUD

CONSTANTS l1, l2, u1, u2, c1, c2, p1, p2, p3, r1, r2, r3, r4

TwoLists == {l1, l2}
TwoUsers == {u1, u2}
TwoCells == {c1, c2}
ThreePeople == {p1, p2, p3}
Unreachable == {p3}
FourCalls == {r1, r2, r3, r4}

VARIABLE part    \* the part that moves

allVars == <<peopleVars, avatarVars, hudVars, part>>

ListMoves == part \in {"tables", "people"} /\ UNCHANGED <<avatarVars, hudVars, part>>
AvatarMoves == part = "avatars" /\ UNCHANGED <<peopleVars, hudVars, part>>
HudMoves == part = "hud" /\ UNCHANGED <<peopleVars, avatarVars, part>>

(* What each part of the people list leaves out.                           *)
InPart == /\ part # "people" => tried \subseteq {u1}
          /\ part # "tables" => opened \subseteq {l1}

Init == /\ PeopleInit /\ AvatarInit /\ HudInit
        /\ part \in {"tables", "people", "avatars", "hud"}
        /\ InPart
        /\ part \in {"avatars", "hud"} => stored = {}
Next == \/ ListMoves /\ PeopleNext /\ InPart'
        \/ AvatarMoves /\ AvatarNext
        \/ HudMoves /\ HudNext

(* The fairness of each module for the part that moves.                    *)
Fairness ==
    /\ WF_allVars(ListMoves /\ Connect)
    /\ WF_allVars(ListMoves /\ Authenticated)
    /\ WF_allVars(ListMoves /\ ReceiveAny)
    /\ \A l \in Lists : WF_allVars(ListMoves /\ (GrantListen(l) \/ DenyListen(l)))
    /\ \A u \in Users : WF_allVars(ListMoves /\ (AcceptPut(u) \/ RefusePut(u)))
    /\ \A l \in Lists, u \in Users : WF_allVars(ListMoves /\ AddRow(l, u))
    /\ WF_allVars(AvatarMoves /\ SetImage)
    /\ \A d \in Download : WF_allVars(AvatarMoves /\ (Arrives(d) \/ Fails(d)))
    /\ WF_allVars(HudMoves /\ RunTask)
    /\ WF_allVars(HudMoves /\ TimerFires)
    /\ WF_allVars(HudMoves /\ FadeEnds)

Spec == Init /\ [][Next]_allVars /\ Fairness
=============================================================================
