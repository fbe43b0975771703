--------------------------- MODULE ScreensProofs ---------------------------
(***************************************************************************)
(* Theorems about Screens, for any sets of attempts and accounts and any   *)
(* number of screens: the last screen offers only what Registration        *)
(* allows, the tabs belong to somebody, and late callbacks do not pile up  *)
(* screens.  The chain of presented screens is a stack whose neighbours    *)
(* are related; each action pushes a screen, pops the last one, presents a *)
(* tab bar, leaves the chain alone or starts it afresh.                    *)
(***************************************************************************)
EXTENDS Screens, RegistrationProofs, FiniteSetTheorems, SequenceTheorems

USE DEF Waiting, Ended, Lost, UserObjects, UserOf,
        server, session, screen, started, profileChange
-----------------------------------------------------------------------------
(* A screen: its kind, and a number if it is told apart.                   *)
Scr == [kind : Kinds, id : 0 .. MaxScreens]

(* The screens a screen presents.                                          *)
Above == {<<"tabs", "main">>, <<"tabs", "signin">>, <<"main", "signup">>,
          <<"signup", "picker">>, <<"signup", "sheet">>, <<"signup", "tabs">>}

Unnumbered == {"tabs", "main", "picker"}

(* A chain c of screens after n forms and sign-in screens were opened.     *)
Stack(c, n) ==
    /\ c \in Seq(Scr) /\ c # <<>> /\ n \in 0 .. MaxScreens
    /\ c[1].kind = "tabs"
    /\ \A i \in 1 .. Len(c) - 1 : <<c[i].kind, c[i + 1].kind>> \in Above
    /\ \A i \in 1 .. Len(c) : c[i].id \in 0 .. n /\ (c[i].id = 0 <=> c[i].kind \in Unnumbered)
    /\ \A i, j \in 1 .. Len(c) : c[i].id = c[j].id /\ c[i].id # 0 => i = j

(* The length, the last screen and the numbers of a stack.                 *)
LEMMA StackFacts ==
  ASSUME NEW c, NEW n, Stack(c, n)
  PROVE  /\ Len(c) \in Nat \ {0} /\ DOMAIN c = 1 .. Len(c)
         /\ Last(c) = c[Len(c)] /\ Last(c) \in Scr
         /\ \A i \in 1 .. Len(c) : c[i] \in Scr /\ c[i].kind \in Kinds /\ c[i].id \in 0 .. n
         /\ n \in 0 .. MaxScreens /\ n \in Nat
<1>1. c \in Seq(Scr) /\ c # <<>> /\ n \in 0 .. MaxScreens
  BY DEF Stack
<1>2. Len(c) \in Nat \ {0} /\ DOMAIN c = 1 .. Len(c) /\ \A i \in 1 .. Len(c) : c[i] \in Scr
  BY <1>1, LenProperties, EmptySeq
<1>3. \A i \in 1 .. Len(c) : c[i].kind \in Kinds /\ c[i].id \in 0 .. n
  BY <1>2 DEF Stack, Scr
<1>4. n \in Nat
  BY <1>1, MaxScreensAssumption
<1>5. QED
  BY <1>1, <1>2, <1>3, <1>4 DEF Last

(* A screen presented over the last one.                                   *)
LEMMA PushFacts ==
  ASSUME NEW c, NEW n, Stack(c, n), NEW s \in Scr
  PROVE  LET d == Append(c, s) IN
         /\ d \in Seq(Scr) /\ d # <<>> /\ Len(d) = Len(c) + 1 /\ DOMAIN d = 1 .. Len(c) + 1
         /\ \A i \in 1 .. Len(c) : d[i] = c[i]
         /\ d[Len(c) + 1] = s /\ Last(d) = s
<1> DEFINE d == Append(c, s)
<1>1. c \in Seq(Scr)
  BY DEF Stack
<1>2. /\ d \in Seq(Scr) /\ d # <<>> /\ Len(d) = Len(c) + 1
      /\ \A i \in 1 .. Len(c) : d[i] = c[i]
      /\ d[Len(c) + 1] = s
  BY <1>1, AppendProperties
<1>3. DOMAIN d = 1 .. Len(c) + 1
  BY <1>2, LenProperties
<1>4. QED
  BY <1>2, <1>3 DEF Last

(* A screen may be presented over the last one if their kinds allow it.    *)
LEMMA PushStack ==
  ASSUME NEW c, NEW n, Stack(c, n), NEW s \in Scr, NEW m \in n .. MaxScreens,
         <<Last(c).kind, s.kind>> \in Above,
         s.id = 0 <=> s.kind \in Unnumbered, s.id # 0 => s.id \in n + 1 .. m
  PROVE  Stack(Append(c, s), m)
<1> DEFINE d == Append(c, s)
<1>1. /\ d \in Seq(Scr) /\ d # <<>> /\ Len(d) = Len(c) + 1
      /\ \A i \in 1 .. Len(c) : d[i] = c[i]
      /\ d[Len(c) + 1] = s
  BY PushFacts
<1>2. /\ Len(c) \in Nat \ {0} /\ Last(c) = c[Len(c)]
      /\ \A i \in 1 .. Len(c) : c[i].id \in 0 .. n
      /\ n \in Nat /\ m \in Nat /\ n <= m
  BY StackFacts, MaxScreensAssumption
<1> HIDE DEF d
<1>3. \A i \in 1 .. Len(d) : i \in 1 .. Len(c) \/ i = Len(c) + 1
  BY <1>1, <1>2
<1>4. d[1].kind = "tabs" /\ m \in 0 .. MaxScreens
  BY <1>1, <1>2 DEF Stack
<1>5. \A i \in 1 .. Len(d) - 1 : <<d[i].kind, d[i + 1].kind>> \in Above
  <2> SUFFICES ASSUME NEW i \in 1 .. Len(d) - 1 PROVE <<d[i].kind, d[i + 1].kind>> \in Above
    OBVIOUS
  <2>1. i \in 1 .. Len(c) /\ (i = Len(c) \/ i \in 1 .. Len(c) - 1)
    BY <1>1, <1>2
  <2>2. CASE i = Len(c)
    BY <1>1, <1>2, <2>1, <2>2
  <2>3. CASE i \in 1 .. Len(c) - 1
    <3>1. i + 1 \in 1 .. Len(c)
      BY <1>2, <2>3
    <3>2. QED
      BY <1>1, <2>1, <2>3, <3>1 DEF Stack
  <2>4. QED
    BY <2>1, <2>2, <2>3
<1>6. \A i \in 1 .. Len(d) : d[i].id \in 0 .. m /\ (d[i].id = 0 <=> d[i].kind \in Unnumbered)
  <2> SUFFICES ASSUME NEW i \in 1 .. Len(d)
               PROVE  d[i].id \in 0 .. m /\ (d[i].id = 0 <=> d[i].kind \in Unnumbered)
    OBVIOUS
  <2>1. CASE i \in 1 .. Len(c)
    <3>1. d[i] = c[i] /\ c[i].id \in 0 .. n /\ (c[i].id = 0 <=> c[i].kind \in Unnumbered)
      BY <1>1, <2>1 DEF Stack
    <3>2. QED
      BY <1>2, <3>1
  <2>2. CASE i = Len(c) + 1
    BY <1>1, <1>2, <2>2
  <2>3. QED
    BY <1>3, <2>1, <2>2
<1>7. \A i, j \in 1 .. Len(d) : d[i].id = d[j].id /\ d[i].id # 0 => i = j
  <2>1. \A i \in 1 .. Len(c) : d[i].id \in 0 .. n
    BY <1>1, <1>2
  <2>2. \A i, j \in 1 .. Len(c) : d[i].id = d[j].id /\ d[i].id # 0 => i = j
    BY <1>1 DEF Stack
  <2>3. \A i \in 1 .. Len(c) : d[i].id # 0 => d[i].id # s.id
    BY <1>2, <2>1
  <2>4. QED
    BY <1>1, <1>3, <2>2, <2>3
<1>8. QED
  BY <1>1, <1>4, <1>5, <1>6, <1>7 DEF Stack, d

(* The last screen dismissed.                                              *)
LEMMA PopStack ==
  ASSUME NEW c, NEW n, Stack(c, n), Last(c).kind \notin {"tabs", "main"}
  PROVE  /\ Stack(Front(c), n) /\ Len(c) > 1 /\ Len(Front(c)) = Len(c) - 1
         /\ \A i \in 1 .. Len(c) - 1 : Front(c)[i] = c[i]
         /\ Last(Front(c)) = c[Len(c) - 1]
         /\ <<Last(Front(c)).kind, Last(c).kind>> \in Above
<1> DEFINE d == Front(c)
           k == Len(c) - 1
<1>1. /\ Len(c) \in Nat \ {0} /\ Last(c) = c[Len(c)]
      /\ \A i \in 1 .. Len(c) : c[i] \in Scr
  BY StackFacts
<1>2. Len(c) > 1 /\ k \in Nat \ {0} /\ k < Len(c)
  BY <1>1 DEF Stack
<1>3. d \in Seq(Scr) /\ Len(d) = k /\ \A i \in 1 .. k : d[i] = c[i]
  <2>1. d = SubSeq(c, 1, k) /\ 1 \in Int /\ k \in Int /\ \A i \in 1 .. k : c[i] \in Scr
    BY <1>1, <1>2 DEF Front
  <2> HIDE DEF d, k
  <2>2. /\ SubSeq(c, 1, k) \in Seq(Scr)
        /\ Len(SubSeq(c, 1, k)) = IF 1 <= k THEN k - 1 + 1 ELSE 0
        /\ \A i \in 1 .. k - 1 + 1 : SubSeq(c, 1, k)[i] = c[1 + i - 1]
    BY <2>1, SubSeqProperties
  <2>3. QED
    BY <1>2, <2>1, <2>2
<1>4. d # <<>> /\ Last(d) = c[k]
  BY <1>2, <1>3 DEF Last
<1>5. <<c[k].kind, c[k + 1].kind>> \in Above
  BY <1>1, <1>2 DEF Stack
<1>6. Stack(d, n)
  <2>1. d[1].kind = "tabs" /\ n \in 0 .. MaxScreens
    BY <1>2, <1>3 DEF Stack
  <2>2. \A i \in 1 .. Len(d) : i \in 1 .. Len(c)
    BY <1>1, <1>2, <1>3
  <2> HIDE DEF d
  <2>3. \A i \in 1 .. Len(d) - 1 : <<d[i].kind, d[i + 1].kind>> \in Above
    <3>1. \A i \in 1 .. Len(d) - 1 : /\ i \in 1 .. Len(c) - 1 /\ i \in 1 .. k /\ i + 1 \in 1 .. k
      BY <1>1, <1>2, <1>3
    <3> HIDE DEF k
    <3>2. QED
      BY <1>3, <3>1 DEF Stack
  <2>4. \A i \in 1 .. Len(d) : d[i].id \in 0 .. n /\ (d[i].id = 0 <=> d[i].kind \in Unnumbered)
    BY <1>3, <2>2 DEF Stack
  <2>5. \A i, j \in 1 .. Len(d) : d[i].id = d[j].id /\ d[i].id # 0 => i = j
    BY <1>3, <2>2 DEF Stack
  <2>6. QED
    BY <1>3, <1>4, <2>1, <2>3, <2>4, <2>5 DEF Stack
<1>7. QED
  BY <1>1, <1>2, <1>3, <1>4, <1>5, <1>6

(* The root, with the welcome screen over it when nobody is signed in.     *)
LEMMA TabsStack ==
  ASSUME NEW u
  PROVE  /\ Stack(Tabs(u), 0)
         /\ Tabs(u) = IF u = NoUser THEN <<Plain("tabs"), Plain("main")>> ELSE <<Plain("tabs")>>
<1>1. Plain("tabs") \in Scr /\ Plain("main") \in Scr /\ 0 \in 0 .. MaxScreens
  BY MaxScreensAssumption DEF Plain, Screen, Scr, Kinds
<1>2. Tabs(u) = IF u = NoUser THEN <<Plain("tabs"), Plain("main")>> ELSE <<Plain("tabs")>>
  BY DEF Tabs
<1>3. CASE u = NoUser
  <2>1. Tabs(u) = <<Plain("tabs"), Plain("main")>>
    BY <1>2, <1>3
  <2> HIDE DEF Tabs
  <2>2. Tabs(u) \in Seq(Scr) /\ Len(Tabs(u)) = 2 /\ Tabs(u)[1] = Plain("tabs") /\ Tabs(u)[2] = Plain("main")
    BY <1>1, <2>1
  <2>3. \A i \in 1 .. 2 : i = 1 \/ i = 2
    OBVIOUS
  <2>4. QED
    BY <1>1, <1>2, <2>2, <2>3 DEF Stack, Plain, Screen, Above, Unnumbered
<1>4. CASE u # NoUser
  <2>1. Tabs(u) = <<Plain("tabs")>>
    BY <1>2, <1>4
  <2>2. Tabs(u) \in Seq(Scr) /\ Len(Tabs(u)) = 1 /\ Tabs(u)[1] = Plain("tabs")
    BY <1>1, <2>1
  <2>3. QED
    BY <1>1, <1>2, <2>2 DEF Stack, Plain, Screen, Unnumbered
<1>5. QED
  BY <1>3, <1>4

(* Nothing is presented over a picker or a sign-in screen.                 *)
LEMMA EndsAreLast ==
  ASSUME NEW c, NEW n, Stack(c, n), NEW i \in 1 .. Len(c), c[i].kind \in {"picker", "sheet", "signin"}
  PROVE  i = Len(c)
BY StackFacts DEF Stack, Above

(* Numbers of screens of some kinds.                                       *)
Places(c, kinds) == {i \in DOMAIN c : c[i].kind \in kinds}

(* A chain has finitely many screens of any kinds.                         *)
LEMMA PlacesFinite ==
  ASSUME NEW c, NEW n, Stack(c, n), NEW kinds
  PROVE  IsFiniteSet(Places(c, kinds)) /\ Cardinality(Places(c, kinds)) \in Nat
<1>1. IsFiniteSet(1 .. Len(c)) /\ DOMAIN c = 1 .. Len(c)
  <2> DEFINE k == Len(c)
  <2>1. k \in Nat /\ k \in Int /\ 1 \in Int /\ DOMAIN c = 1 .. k
    BY StackFacts
  <2> HIDE DEF k
  <2>2. IsFiniteSet(1 .. k)
    BY <2>1, FS_Interval
  <2>3. QED
    BY <2>1, <2>2 DEF k
<1>2. Places(c, kinds) \subseteq 1 .. Len(c)
  BY <1>1 DEF Places
<1>3. QED
  BY <1>1, <1>2, FS_Subset, FS_CardinalityType

(* One more screen is one more of its kind.                                *)
LEMMA PlacesPush ==
  ASSUME NEW c, NEW n, Stack(c, n), NEW s \in Scr, NEW kinds
  PROVE  Cardinality(Places(Append(c, s), kinds))
            = Cardinality(Places(c, kinds)) + IF s.kind \in kinds THEN 1 ELSE 0
<1> DEFINE d == Append(c, s)
           k == Len(c) + 1
<1>1. /\ DOMAIN d = 1 .. k /\ DOMAIN c = 1 .. Len(c) /\ Len(c) \in Nat
      /\ \A i \in 1 .. Len(c) : d[i] = c[i]
      /\ d[k] = s
  BY PushFacts, StackFacts
<1>2. 1 .. k = (1 .. Len(c)) \cup {k} /\ k \notin 1 .. Len(c)
  BY <1>1
<1>3. IsFiniteSet(Places(c, kinds)) /\ Cardinality(Places(c, kinds)) \in Nat
  BY PlacesFinite
<1> HIDE DEF d, k
<1>4. Places(d, kinds) = IF s.kind \in kinds THEN Places(c, kinds) \cup {k} ELSE Places(c, kinds)
  BY <1>1, <1>2 DEF Places
<1>5. k \notin Places(c, kinds)
  BY <1>1, <1>2 DEF Places
<1>6. QED
  BY <1>3, <1>4, <1>5, FS_AddElement DEF d

(* A dismissal adds no screen of any kind.                                 *)
LEMMA PlacesPop ==
  ASSUME NEW c, NEW n, Stack(c, n), Last(c).kind \notin {"tabs", "main"}, NEW kinds
  PROVE  Cardinality(Places(Front(c), kinds)) <= Cardinality(Places(c, kinds))
<1> DEFINE d == Front(c)
<1>1. Len(d) = Len(c) - 1 /\ \A i \in 1 .. Len(c) - 1 : d[i] = c[i]
  BY PopStack
<1>2. Stack(d, n)
  BY PopStack
<1> HIDE DEF d
<1>3. DOMAIN d = 1 .. Len(c) - 1 /\ DOMAIN c = 1 .. Len(c) /\ Len(c) \in Nat
  BY <1>1, <1>2, StackFacts
<1>4. Places(d, kinds) \subseteq Places(c, kinds)
  BY <1>1, <1>3 DEF Places
<1>5. QED
  BY <1>4, PlacesFinite, FS_Subset DEF d

(* Below every sign-up form there is a welcome screen of its own.          *)
LEMMA FormsHaveWelcomes ==
  ASSUME NEW c, NEW n, Stack(c, n)
  PROVE  Cardinality(Places(c, {"signup"})) <= Cardinality(Places(c, {"main"}))
<1> DEFINE S == Places(c, {"signup"})
           T == Places(c, {"main"})
           f == [i \in S |-> i - 1]
<1>1. DOMAIN c = 1 .. Len(c) /\ Len(c) \in Nat /\ c[1].kind = "tabs"
  BY StackFacts DEF Stack
<1>2. \A i \in S : i - 1 \in T /\ i \in Nat
  <2> SUFFICES ASSUME NEW i \in S PROVE i - 1 \in T /\ i \in Nat
    OBVIOUS
  <2>1. i \in 1 .. Len(c) /\ c[i].kind = "signup" /\ i # 1
    BY <1>1 DEF Places
  <2>2. i - 1 \in 1 .. Len(c) - 1 /\ i - 1 \in 1 .. Len(c) /\ (i - 1) + 1 = i
    BY <1>1, <2>1
  <2>3. <<c[i - 1].kind, c[i].kind>> \in Above
    BY <2>2 DEF Stack
  <2>4. QED
    BY <1>1, <2>1, <2>2, <2>3 DEF Places, Above
<1>3. f \in Injection(S, T)
  BY <1>2 DEF Injection, IsInjective
<1>4. IsFiniteSet(T)
  BY PlacesFinite
<1> HIDE DEF S, T, f
<1>5. Cardinality(S) <= Cardinality(T)
  BY <1>3, <1>4, FS_Injection
<1>6. QED
  BY <1>5 DEF S, T

(* A picker or a sign-in screen is the last screen: there is one at most.  *)
LEMMA EndsAreFew ==
  ASSUME NEW c, NEW n, Stack(c, n)
  PROVE  Cardinality(Places(c, {"picker", "sheet", "signin"})) <= 1
<1>1. Places(c, {"picker", "sheet", "signin"}) \subseteq {Len(c)}
  BY EndsAreLast, StackFacts DEF Places
<1>2. IsFiniteSet({Len(c)}) /\ Cardinality({Len(c)}) = 1
  BY FS_Singleton
<1>3. QED
  BY <1>1, <1>2, FS_Subset

(* What the root and a completed sign-up put up: one tab bar, and one      *)
(* welcome screen if nobody is signed in.                                  *)
LEMMA TabsPlaces ==
  ASSUME NEW u
  PROVE  /\ Cardinality(Places(Tabs(u), {"tabs"})) = 1
         /\ Cardinality(Places(Tabs(u), {"main"})) = IF u = NoUser THEN 1 ELSE 0
<1>1. Tabs(u) = IF u = NoUser THEN <<Plain("tabs"), Plain("main")>> ELSE <<Plain("tabs")>>
  BY TabsStack
<1>2. /\ Plain("tabs").kind = "tabs" /\ Plain("main").kind = "main"
  BY DEF Plain, Screen
<1>3. /\ Places(Tabs(u), {"tabs"}) = {1}
      /\ Places(Tabs(u), {"main"}) = IF u = NoUser THEN {2} ELSE {}
  BY <1>1, <1>2 DEF Places
<1>4. QED
  BY <1>3, FS_Singleton, FS_EmptySet

(* A sign-in screen is dismissed only when it is the last one.             *)
LEMMA DismissFacts ==
  ASSUME Stack(chain, opened), NEW id \in Nat \ {0},
         \A i \in DOMAIN chain : chain[i].id = id => chain[i].kind \in {"sheet", "signin"}
  PROVE  /\ Shown(id) => Top.id = id /\ Dismiss(id) = Front(chain)
         /\ ~Shown(id) => Dismiss(id) = chain
<1>1. DOMAIN chain = 1 .. Len(chain) /\ Len(chain) \in Nat \ {0} /\ Top = chain[Len(chain)]
  BY StackFacts DEF Top
<1>2. ASSUME Shown(id) PROVE Top.id = id /\ Dismiss(id) = Front(chain)
  <2>1. \A i \in 1 .. Len(chain) : chain[i].id = id => i = Len(chain)
    BY <1>1, EndsAreLast
  <2>2. Top.id = id /\ {i \in 1 .. Len(chain) : chain[i].id = id} = {Len(chain)}
    BY <1>1, <1>2, <2>1 DEF Shown
  <2>3. SelectInSeq(chain, LAMBDA s : s.id = id) = Len(chain)
    BY <1>1, <2>2 DEF SelectInSeq, Min
  <2>4. QED
    BY <1>2, <2>2, <2>3 DEF Dismiss, Front
<1>3. QED
  BY <1>2 DEF Dismiss

-----------------------------------------------------------------------------
(* What Registration says of the attempts: a profile change is made after  *)
(* the URL came, finitely many attempts were started, and those that were  *)
(* evicted or completed stay so.                                           *)
ChangesComeLate == \A f \in Attempts : change[f] # "none" =>
                      pc[f] \notin {"idle", "create", "signin", "put", "url"}

StartedAttempts == {f \in Attempts : pc[f] # "idle"}
Completed == {f \in Attempts : pc[f] = "complete"}
Few == IsFiniteSet(StartedAttempts)

AttemptsInv == ChangesComeLate /\ Few

(* One step: evictions and completions last, one attempt starts at most.   *)
LEMMA AttemptsOfAStep ==
  ASSUME Inductive, ChangesComeLate, [Next]_vars
  PROVE  /\ ChangesComeLate'
         /\ Evicted \subseteq Evicted' /\ Completed \subseteq Completed'
         /\ \E f : StartedAttempts' \subseteq StartedAttempts \cup {f}
<1> USE DEF ChangesComeLate, Evicted, Completed, StartedAttempts
<1>1. TypeOK /\ \A f \in Attempts : OneThingPending(f)
  BY DEF Inductive
<1> DEFINE Goal == /\ ChangesComeLate'
                   /\ Evicted \subseteq Evicted' /\ Completed \subseteq Completed'
                   /\ \E f : StartedAttempts' \subseteq StartedAttempts \cup {f}
<1> HIDE DEF Goal
<1>2. ASSUME NEW fates, Restart(fates), fates \in [Attempts -> {"idle"} \cup Ended \cup Lost],
             NEW f, \A g \in Attempts : \/ fates[g] = pc[g]
                                        \/ pc[g] \in Waiting /\ fates[g] = "killed"
                                        \/ g = f /\ pc[g] = "idle" /\ fates[g] = "crashed"
      PROVE  Goal
  <2>1. \A g \in Attempts :
          /\ pc'[g] = fates[g]
          /\ change'[g] = IF change[g] = "sent" THEN "stray" ELSE change[g]
    BY <1>1, <1>2 DEF Restart, TypeOK
  <2>2. ChangesComeLate'
    BY <1>2, <2>1
  <2>3. Evicted \subseteq Evicted' /\ Completed \subseteq Completed'
    BY <1>2, <2>1
  <2>4. StartedAttempts' \subseteq StartedAttempts \cup {f}
    BY <1>2, <2>1
  <2>5. QED
    BY <2>2, <2>3, <2>4 DEF Goal
<1>3. Killed \in [Attempts -> {"idle"} \cup Ended \cup Lost]
      /\ \A g \in Attempts : Killed[g] = IF pc[g] \in Waiting THEN "killed" ELSE pc[g]
  BY <1>1 DEF Killed, TypeOK
<1>4. ASSUME Relaunch PROVE Goal
  BY <1>2, <1>3, <1>4 DEF Relaunch
<1>5. ASSUME NEW f \in Attempts, NEW a \in Accounts, Register(f, a) \/ SignIn(f, a) PROVE Goal
  <2>1. CASE Restart([Killed EXCEPT ![f] = "crashed"]) /\ pc[f] = "idle"
    <3> DEFINE fates == [Killed EXCEPT ![f] = "crashed"]
    <3>1. fates \in [Attempts -> {"idle"} \cup Ended \cup Lost]
          /\ \A g \in Attempts : fates[g] = IF g = f THEN "crashed" ELSE Killed[g]
      BY <1>3
    <3> HIDE DEF fates
    <3>2. Restart(fates)
      BY <2>1 DEF fates
    <3>3. \A g \in Attempts : \/ fates[g] = pc[g]
                              \/ pc[g] \in Waiting /\ fates[g] = "killed"
                              \/ g = f /\ pc[g] = "idle" /\ fates[g] = "crashed"
      BY <1>3, <2>1, <3>1
    <3>4. QED
      BY <1>2, <3>1, <3>2, <3>3
  <2>2. ASSUME NEW call \in {"create", "signin"}, Start(f, a, call), UNCHANGED change, pc[f] = "idle" PROVE Goal
    <3>1. pc' = [pc EXCEPT ![f] = call]
      BY <2>2 DEF Start
    <3>2. \A g \in Attempts : pc'[g] = IF g = f THEN call ELSE pc[g]
      BY <1>1, <3>1 DEF TypeOK
    <3>3. QED
      BY <2>2, <3>2 DEF Goal
  <2>3. QED
    BY <1>5, <2>1, <2>2 DEF Register, SignIn
<1>6. ASSUME UNCHANGED <<pc, change>> PROVE Goal
  BY <1>6 DEF Goal
<1>7. ASSUME NEW f \in Attempts, Callback(f) PROVE Goal
  <2>1. /\ \A g \in Attempts \ {f} : pc'[g] = pc[g] /\ change'[g] = change[g]
        /\ pc[f] \in Waiting
        /\ \/ change'[f] = change[f] /\ pc'[f] \notin {"idle", "create", "signin", "put", "url"}
           \/ change'[f] = change[f] /\ pc[f] \in {"create", "put", "url"} /\ change[f] = "none"
           \/ pc[f] = "url" /\ pc'[f] = "write"
    BY <1>1, <1>7 DEF Callback, ShowError, AfterCreate, AfterSignIn, AfterPut, AfterURL, AfterWrite,
                      Proceed, Finish, TypeOK, OneThingPending
  <2>2. QED
    BY <2>1 DEF Goal
<1>8. ASSUME NEW f \in Attempts, ProfileChange(f) PROVE Goal
  <2>1. /\ \A g \in Attempts \ {f} : change'[g] = change[g]
        /\ change[f] \in {"sent", "stray"} /\ UNCHANGED pc
    BY <1>1, <1>8 DEF ProfileChange, ChangeName, FailChange, RejectToken, Settle, TypeOK
  <2>2. QED
    BY <2>1 DEF Goal
<1>9. ASSUME NEW f \in Attempts, Serve(f) \/ SetCurrentUser(f) PROVE UNCHANGED <<pc, change>>
  BY <1>9 DEF Serve, CreateAccount, GrantSignIn, StorePhoto, GiveURL, StoreProfile,
              StoreProfileUnacknowledged, Refuse, Answer, SetCurrentUser
<1>10. ASSUME OpenSignUp \/ PickPhoto \/ LogOut PROVE UNCHANGED <<pc, change>>
  BY <1>10 DEF OpenSignUp, PickPhoto, LogOut
<1>11. ASSUME UNCHANGED vars PROVE Goal
  BY <1>6, <1>11 DEF vars
<1>12. Goal
  BY <1>4, <1>5, <1>6, <1>7, <1>8, <1>9, <1>10, <1>11 DEF Next, Tap
<1>13. QED
  BY <1>12 DEF Goal

(* The same, counted.                                                      *)
LEMMA StepAttempts ==
  ASSUME Inductive, AttemptsInv, [Next]_vars
  PROVE  /\ AttemptsInv'
         /\ Evicted \subseteq Evicted' /\ Completed \subseteq Completed'
         /\ IsFiniteSet(Evicted) /\ IsFiniteSet(Evicted') /\ IsFiniteSet(Completed')
         /\ Cardinality(Evicted) \in Nat /\ Cardinality(Evicted') \in Nat
         /\ Cardinality(Completed) \in Nat /\ Cardinality(Completed') \in Nat
         /\ Cardinality(Evicted) <= Cardinality(Evicted')
         /\ Cardinality(Completed) <= Cardinality(Completed')
<1>1. ChangesComeLate' /\ Evicted \subseteq Evicted' /\ Completed \subseteq Completed'
  BY AttemptsOfAStep DEF AttemptsInv
<1>2. PICK f : StartedAttempts' \subseteq StartedAttempts \cup {f}
  BY AttemptsOfAStep DEF AttemptsInv
<1>3. IsFiniteSet(StartedAttempts \cup {f})
  BY FS_AddElement DEF AttemptsInv, Few
<1>4. IsFiniteSet(StartedAttempts')
  BY <1>2, <1>3, FS_Subset
<1>5. /\ Evicted \subseteq StartedAttempts /\ Evicted' \subseteq StartedAttempts'
      /\ Completed \subseteq StartedAttempts /\ Completed' \subseteq StartedAttempts'
  BY <1>1 DEF AttemptsInv, ChangesComeLate, Evicted, Completed, StartedAttempts
<1>6. IsFiniteSet(Evicted) /\ IsFiniteSet(Completed)
  BY <1>5, FS_Subset DEF AttemptsInv, Few
<1>7. IsFiniteSet(Evicted') /\ IsFiniteSet(Completed')
  BY <1>4, <1>5, FS_Subset
<1>8. /\ Cardinality(Evicted) \in Nat /\ Cardinality(Evicted') \in Nat
      /\ Cardinality(Completed) \in Nat /\ Cardinality(Completed') \in Nat
  BY <1>6, <1>7, FS_CardinalityType
<1>9. Cardinality(Evicted) <= Cardinality(Evicted') /\ Cardinality(Completed) <= Cardinality(Completed')
  BY <1>1, <1>7, FS_Subset
<1>10. AttemptsInv'
  BY <1>1, <1>4 DEF AttemptsInv, Few
<1>11. QED
  BY <1>1, <1>6, <1>7, <1>8, <1>9, <1>10

-----------------------------------------------------------------------------
(* A running attempt was started on a numbered screen, of the kind that    *)
(* starts it if the screen is still there.                                 *)
StartedOn(f) == IF pc[f] = "signin" THEN {"sheet", "signin"} ELSE {"signup"}

Origins == /\ origin \in [Attempts -> 0 .. MaxScreens]
           /\ \A f \in Attempts : pc[f] \in Waiting =>
                 /\ origin[f] \in 1 .. opened
                 /\ \A i \in DOMAIN chain : chain[i].id = origin[f] => chain[i].kind \in StartedOn(f)

(* The controls of every screen of the chain are in reach, except the      *)
(* log-out row of tabs behind a welcome screen.                            *)
Offers(i) == /\ chain[i].kind \in {"signup", "picker", "sheet"} => {"register", "signin"} \subseteq reach
             /\ chain[i].kind = "signin" => "signin" \in reach
             /\ chain[i].kind = "tabs" =>
                   \/ "logout" \in reach
                   \/ i < Len(chain) /\ chain[i + 1].kind = "main"

Offered == /\ "register" \in reach => "signin" \in reach
           /\ \A i \in DOMAIN chain : Offers(i)

(* Somebody is signed in behind the tabs, and behind a sign-in screen that *)
(* a granted attempt is about to take away, or somebody was evicted.       *)
Guarded == current # NoUser \/ Evicted # {}

SessionsBehind ==
    /\ On("tabs") => Guarded
    /\ \A f \in Attempts : Granted(f) /\ pc[f] = "signin" /\ Shown(origin[f]) => Guarded

(* The form that is used: nothing covers it but a picker or a sheet.       *)
InFront(id) == \E i \in DOMAIN chain :
                  /\ chain[i].id = id
                  /\ \/ i = Len(chain)
                     \/ i = Len(chain) - 1 /\ Top.kind \in {"picker", "sheet"}

(* Every welcome screen but the first is the trace of an eviction: a form  *)
(* whose sign-up was granted would put up another one only if the session  *)
(* went away since, and log-out is no way to lose it there.                *)
FewWelcomes ==
    /\ Count({"main"}) <= 1 + Cardinality(Evicted)
    /\ \A f \in Attempts : Granted(f) /\ InFront(origin[f]) =>
          current # NoUser \/ Count({"main"}) <= Cardinality(Evicted)

FewTabs == Count({"tabs"}) <= 1 + Cardinality(Completed)

ChainInv == /\ Stack(chain, opened) /\ Origins /\ Offered /\ SessionsBehind
            /\ FewWelcomes /\ FewTabs

(* What the stack says of the last screen and the numbers.                 *)
LEMMA ChainFacts ==
  ASSUME ChainInv
  PROVE  /\ Stack(chain, opened)
         /\ DOMAIN chain = 1 .. Len(chain) /\ Len(chain) \in Nat \ {0}
         /\ Top = chain[Len(chain)] /\ Top \in Scr
         /\ opened \in Nat /\ MaxScreens \in Nat /\ opened <= MaxScreens
         /\ \A i \in 1 .. Len(chain) : chain[i] \in Scr /\ chain[i].kind \in Kinds /\ chain[i].id \in 0 .. opened
<1>1. Stack(chain, opened)
  BY DEF ChainInv
<1>2. opened \in Nat /\ opened <= MaxScreens
  BY <1>1, StackFacts, MaxScreensAssumption
<1>3. QED
  BY <1>1, <1>2, StackFacts, MaxScreensAssumption DEF Top

(* Count speaks of the chain, Places of any stack.                         *)
LEMMA CountOf == ASSUME NEW kinds PROVE Count(kinds) = Cardinality(Places(chain, kinds))
BY DEF Count, Places

(* The chain stays as it is: the backend, the auth queue and callbacks     *)
(* that show no screen, and taps that start an attempt.                    *)
LEMMA SameChain ==
  ASSUME Inductive, AttemptsInv, ChainInv, [Next]_vars, UNCHANGED <<chain, opened>>,
         reach \subseteq reach', "register" \in reach' => "signin" \in reach',
         origin' \in [Attempts -> 0 .. MaxScreens],
         \A g \in Attempts : pc'[g] \in Waiting =>
            \/ pc[g] \in Waiting /\ origin'[g] = origin[g] /\ (pc'[g] = "signin" <=> pc[g] = "signin")
            \/ ~Granted(g)' /\ origin'[g] = Top.id /\ Top.kind \in StartedOn(g)',
         \A g \in Attempts : Granted(g)' => Granted(g) \/ current' # NoUser,
         current # NoUser /\ current' = NoUser => \E h \in Evicted' : h \notin Evicted
  PROVE  ChainInv'
<1>1. /\ Stack(chain, opened) /\ Stack(chain, opened)'
      /\ DOMAIN chain = 1 .. Len(chain) /\ Len(chain) \in Nat \ {0} /\ Top = chain[Len(chain)]
      /\ opened \in Nat
      /\ \A i \in 1 .. Len(chain) : chain[i].id \in 0 .. opened
  BY ChainFacts
<1>2. Origins'
  <2> SUFFICES ASSUME NEW g \in Attempts, pc'[g] \in Waiting
               PROVE  /\ origin'[g] \in 1 .. opened
                      /\ \A i \in DOMAIN chain : chain[i].id = origin'[g] => chain[i].kind \in StartedOn(g)'
    BY DEF Origins
  <2>1. CASE pc[g] \in Waiting /\ origin'[g] = origin[g] /\ (pc'[g] = "signin" <=> pc[g] = "signin")
    BY <2>1 DEF ChainInv, Origins, StartedOn
  <2>2. CASE origin'[g] = Top.id /\ Top.kind \in StartedOn(g)'
    <3>1. Top.kind \notin Unnumbered /\ Top.id # 0
      BY <1>1, <2>2 DEF StartedOn, Unnumbered, Stack
    <3>2. Top.id \in 1 .. opened
      BY <1>1, <3>1
    <3>3. \A i \in DOMAIN chain : chain[i].id = Top.id => i = Len(chain)
      BY <1>1, <3>1 DEF Stack
    <3>4. QED
      BY <1>1, <2>2, <3>2, <3>3
  <2>3. QED
    BY <2>1, <2>2
<1>3. Offered'
  BY DEF ChainInv, Offered, Offers
<1>4. Evicted \subseteq Evicted' /\ Completed \subseteq Completed'
      /\ Cardinality(Evicted) \in Nat /\ Cardinality(Evicted') \in Nat
      /\ Cardinality(Completed) \in Nat /\ Cardinality(Completed') \in Nat
      /\ Cardinality(Evicted) <= Cardinality(Evicted')
      /\ Cardinality(Completed) <= Cardinality(Completed')
      /\ IsFiniteSet(Evicted')
  BY StepAttempts
<1>5. Guarded => Guarded'
  BY <1>4 DEF Guarded
<1>6. \A g \in Attempts : Granted(g)' =>
         \/ current' # NoUser
         \/ Granted(g) /\ origin'[g] = origin[g] /\ (pc'[g] = "signin" => pc[g] = "signin")
  BY DEF Granted
<1>7. SessionsBehind'
  BY <1>5, <1>6 DEF ChainInv, SessionsBehind, On, Top, Shown, Guarded
<1>8. \A kinds : Count(kinds)' = Count(kinds)
  BY DEF Count
<1>9. Count({"main"}) \in Nat /\ Count({"tabs"}) \in Nat
  BY <1>1, PlacesFinite, CountOf
<1>10. FewWelcomes'
  <2>1. Count({"main"}) <= 1 + Cardinality(Evicted)
    BY DEF ChainInv, FewWelcomes
  <2>2. current # NoUser /\ current' = NoUser => Cardinality(Evicted) + 1 <= Cardinality(Evicted')
    <3> SUFFICES ASSUME NEW h \in Evicted', h \notin Evicted PROVE Cardinality(Evicted) + 1 <= Cardinality(Evicted')
      OBVIOUS
    <3>1. Evicted \cup {h} \subseteq Evicted'
      BY <1>4
    <3>2. IsFiniteSet(Evicted)
      BY StepAttempts
    <3>3. Cardinality(Evicted \cup {h}) = Cardinality(Evicted) + 1
      BY <3>2, FS_AddElement
    <3>4. Cardinality(Evicted \cup {h}) <= Cardinality(Evicted')
      BY <1>4, <3>1, FS_Subset
    <3>5. QED
      BY <3>3, <3>4
  <2>3. ASSUME NEW g \in Attempts, Granted(g)', InFront(origin[g])', current' = NoUser
        PROVE  Count({"main"})' <= Cardinality(Evicted')
    <3>1. Granted(g) /\ InFront(origin[g])
      BY <1>6, <2>3 DEF InFront, Top
    <3>2. current # NoUser \/ Count({"main"}) <= Cardinality(Evicted)
      BY <3>1 DEF ChainInv, FewWelcomes
    <3>3. CASE current # NoUser
      BY <1>4, <1>8, <1>9, <2>1, <2>2, <2>3, <3>3
    <3>4. CASE Count({"main"}) <= Cardinality(Evicted)
      BY <1>4, <1>8, <1>9, <3>4
    <3>5. QED
      BY <3>2, <3>3, <3>4
  <2>4. Count({"main"})' <= 1 + Cardinality(Evicted)'
    BY <1>4, <1>8, <1>9, <2>1
  <2>5. QED
    BY <2>3, <2>4 DEF FewWelcomes
<1>11. FewTabs'
  BY <1>4, <1>8, <1>9 DEF ChainInv, FewTabs
<1>12. QED
  BY <1>1, <1>2, <1>3, <1>7, <1>10, <1>11 DEF ChainInv

(* The last screen goes: X, a swipe, the picker's end, a dismissed sign-in *)
(* screen.                                                                 *)
LEMMA PopChain ==
  ASSUME Inductive, AttemptsInv, ChainInv, [Next]_vars, chain' = Front(chain),
         Top.kind \notin {"tabs", "main"},
         UNCHANGED <<opened, origin, reach, current>>,
         \A g \in Attempts : pc'[g] \in Waiting => pc'[g] = pc[g] /\ (Granted(g)' => Granted(g)),
         Top.kind = "signin" => Guarded
  PROVE  ChainInv'
<1>1. /\ Stack(chain, opened)
      /\ DOMAIN chain = 1 .. Len(chain) /\ Len(chain) \in Nat \ {0} /\ Top = chain[Len(chain)]
      /\ Top = Last(chain)
      /\ opened \in Nat
      /\ \A i \in 1 .. Len(chain) : chain[i].id \in 0 .. opened
  BY ChainFacts DEF Top
<1>2. /\ Stack(chain', opened) /\ Len(chain) > 1 /\ Len(chain') = Len(chain) - 1
      /\ \A i \in 1 .. Len(chain) - 1 : chain'[i] = chain[i]
      /\ Top' = chain[Len(chain) - 1]
      /\ <<Top'.kind, Top.kind>> \in Above
  BY <1>1, PopStack DEF Top
<1>3. DOMAIN chain' = 1 .. Len(chain) - 1
  BY <1>2, StackFacts
<1>4. \A i \in DOMAIN chain' : i \in DOMAIN chain /\ i < Len(chain) /\ chain'[i] = chain[i]
  BY <1>1, <1>2, <1>3
<1>5. Origins'
  <2> SUFFICES ASSUME NEW g \in Attempts, pc'[g] \in Waiting
               PROVE  /\ origin[g] \in 1 .. opened
                      /\ \A i \in DOMAIN chain' : chain'[i].id = origin[g] => chain'[i].kind \in StartedOn(g)'
    BY DEF ChainInv, Origins
  <2>1. StartedOn(g)' = StartedOn(g) /\ pc[g] \in Waiting
    BY DEF StartedOn
  <2>2. QED
    BY <1>4, <2>1 DEF ChainInv, Origins
<1>6. Offered'
  <2>1. "register" \in reach => "signin" \in reach
    BY DEF ChainInv, Offered
  <2>2. ASSUME NEW i \in DOMAIN chain' PROVE Offers(i)'
    <3>1. Offers(i) /\ chain'[i] = chain[i]
      BY <1>4 DEF ChainInv, Offered
    <3>2. CASE i + 1 < Len(chain)
      <4>1. i < Len(chain') /\ chain'[i + 1] = chain[i + 1]
        BY <1>1, <1>2, <1>3, <3>2
      <4>2. QED
        BY <3>1, <4>1 DEF Offers
    <3>3. CASE i + 1 = Len(chain)
      <4>1. chain[i + 1].kind # "main"
        BY <1>1, <3>3
      <4>2. QED
        BY <3>1, <4>1 DEF Offers
    <3>4. QED
      BY <1>1, <1>3, <3>2, <3>3
  <2>3. QED
    BY <2>1, <2>2 DEF Offered
<1>7. Cardinality(Evicted) \in Nat /\ Cardinality(Evicted') \in Nat
      /\ Cardinality(Completed) \in Nat /\ Cardinality(Completed') \in Nat
      /\ Cardinality(Evicted) <= Cardinality(Evicted')
      /\ Cardinality(Completed) <= Cardinality(Completed')
      /\ Evicted \subseteq Evicted'
  BY StepAttempts
<1>8. Guarded => Guarded'
  BY <1>7 DEF Guarded
<1>9. SessionsBehind'
  <2>1. On("tabs")' => Guarded'
    BY <1>2, <1>8 DEF On, Above
  <2>2. ASSUME NEW g \in Attempts, Granted(g)', pc'[g] = "signin", Shown(origin[g])' PROVE Guarded'
    BY <1>4, <1>8, <2>2 DEF ChainInv, SessionsBehind, Shown
  <2>3. QED
    BY <2>1, <2>2 DEF SessionsBehind
<1>10. /\ Count({"main"})' <= Count({"main"}) /\ Count({"tabs"})' <= Count({"tabs"})
       /\ Count({"main"}) \in Nat /\ Count({"tabs"}) \in Nat
       /\ Count({"main"})' \in Nat /\ Count({"tabs"})' \in Nat
  <2>1. \A kinds : Count(kinds)' = Cardinality(Places(chain', kinds))
    BY DEF Count, Places
  <2>2. QED
    BY <1>1, <1>2, <2>1, PlacesPop, PlacesFinite, CountOf
<1>11. FewWelcomes'
  <2>1. ASSUME NEW g \in Attempts, Granted(g)', InFront(origin[g])'
        PROVE  Granted(g) /\ InFront(origin[g])
    <3>1. pc'[g] \in Waiting
      BY <2>1 DEF Granted
    <3>2. Granted(g) /\ origin[g] # 0
      BY <2>1, <3>1 DEF ChainInv, Origins
    <3>3. PICK i \in DOMAIN chain' : /\ chain'[i].id = origin[g]
                                     /\ \/ i = Len(chain')
                                        \/ i = Len(chain') - 1 /\ Top'.kind \in {"picker", "sheet"}
      BY <2>1 DEF InFront
    <3>4. Top'.kind \in {"tabs", "main", "signup"}
      BY <1>2 DEF Above
    <3>5. i = Len(chain) - 1 /\ chain[i] = Top' /\ chain[i].id # 0 /\ i \in DOMAIN chain
      BY <1>2, <1>4, <3>2, <3>3, <3>4
    <3>6. Top'.kind = "signup"
      BY <1>1, <3>4, <3>5 DEF Stack, Unnumbered
    <3>7. Top.kind \in {"picker", "sheet", "tabs"}
      BY <1>2, <3>6 DEF Above
    <3>8. QED
      BY <1>4, <3>2, <3>3, <3>5, <3>7 DEF InFront
  <2>2. Count({"main"})' <= 1 + Cardinality(Evicted')
    BY <1>7, <1>10 DEF ChainInv, FewWelcomes
  <2>3. ASSUME NEW g \in Attempts, Granted(g)', InFront(origin[g])'
        PROVE  current' # NoUser \/ Count({"main"})' <= Cardinality(Evicted')
    <3>1. current # NoUser \/ Count({"main"}) <= Cardinality(Evicted)
      BY <2>1, <2>3 DEF ChainInv, FewWelcomes
    <3>2. QED
      BY <1>7, <1>10, <3>1
  <2>4. QED
    BY <2>2, <2>3 DEF FewWelcomes
<1>12. FewTabs'
  BY <1>7, <1>10 DEF ChainInv, FewTabs
<1>13. QED
  BY <1>2, <1>5, <1>6, <1>9, <1>11, <1>12 DEF ChainInv

(* A screen is put over the last one by a tap.                             *)
LEMMA PushChain ==
  ASSUME Inductive, AttemptsInv, ChainInv, [Next]_vars,
         NEW s \in Scr, chain' = Append(chain, s), <<Top.kind, s.kind>> \in Above,
         s.kind \notin {"tabs", "main"},
         opened' \in opened .. MaxScreens,
         s.id = 0 <=> s.kind \in Unnumbered, s.id # 0 => s.id \in opened + 1 .. opened',
         UNCHANGED <<origin, pc, reply>>,
         reach \subseteq reach', "register" \in reach' => "signin" \in reach',
         s.kind \in {"signup", "picker", "sheet"} => "register" \in reach',
         s.kind = "signin" => "signin" \in reach',
         s.kind = "signin" \/ UNCHANGED current
  PROVE  ChainInv'
<1>1. /\ Stack(chain, opened)
      /\ DOMAIN chain = 1 .. Len(chain) /\ Len(chain) \in Nat \ {0} /\ Top = chain[Len(chain)]
      /\ Top = Last(chain)
      /\ opened \in Nat /\ MaxScreens \in Nat
      /\ \A i \in 1 .. Len(chain) : chain[i].id \in 0 .. opened
  BY ChainFacts DEF Top
<1>2. Stack(chain', opened')
  BY <1>1, PushStack
<1>3. /\ Len(chain') = Len(chain) + 1 /\ DOMAIN chain' = 1 .. Len(chain) + 1
      /\ \A i \in 1 .. Len(chain) : chain'[i] = chain[i]
      /\ chain'[Len(chain) + 1] = s /\ Top' = s
  BY <1>1, PushFacts DEF Top
<1>4. \A i \in DOMAIN chain' : \/ i \in DOMAIN chain /\ chain'[i] = chain[i]
                               \/ i = Len(chain) + 1 /\ chain'[i] = s
  BY <1>1, <1>3
<1>5. \A g \in Attempts : pc[g] \in Waiting =>
         origin[g] \in 1 .. opened /\ s.id # origin[g] /\ (Shown(origin[g])' => Shown(origin[g]))
  BY <1>1, <1>4 DEF ChainInv, Origins, Shown
<1>6. Origins'
  <2> SUFFICES ASSUME NEW g \in Attempts, pc[g] \in Waiting
               PROVE  /\ origin[g] \in 1 .. opened'
                      /\ \A i \in DOMAIN chain' : chain'[i].id = origin[g] => chain'[i].kind \in StartedOn(g)
    BY DEF ChainInv, Origins, StartedOn
  <2>1. origin[g] \in 1 .. opened'
    BY <1>1, <1>5
  <2>2. QED
    BY <1>4, <1>5, <2>1 DEF ChainInv, Origins
<1>7. Offered'
  <2>1. ASSUME NEW i \in DOMAIN chain, chain'[i] = chain[i], i \in DOMAIN chain' PROVE Offers(i)'
    <3>1. Offers(i)
      BY DEF ChainInv, Offered
    <3>2. i < Len(chain) => i + 1 \in 1 .. Len(chain) /\ i < Len(chain')
      BY <1>1, <1>3
    <3>3. QED
      BY <1>3, <2>1, <3>1, <3>2 DEF Offers
  <2>2. QED
    <3> DEFINE k == Len(chain) + 1
    <3>1. ASSUME NEW i \in DOMAIN chain' PROVE Offers(i)'
      <4>1. CASE i \in DOMAIN chain /\ chain'[i] = chain[i]
        BY <2>1, <4>1
      <4>2. CASE i = k /\ chain'[i] = s
        BY <4>2 DEF Offers
      <4>3. QED
        BY <1>4, <4>1, <4>2
    <3>2. QED
      BY <3>1 DEF Offered
<1>8. Cardinality(Evicted) \in Nat /\ Cardinality(Evicted') \in Nat
      /\ Cardinality(Completed) \in Nat /\ Cardinality(Completed') \in Nat
      /\ Cardinality(Evicted) <= Cardinality(Evicted')
      /\ Cardinality(Completed) <= Cardinality(Completed')
      /\ Evicted \subseteq Evicted'
  BY StepAttempts
<1>9. SessionsBehind'
  <2>1. ~On("tabs")'
    BY <1>3 DEF On
  <2>2. ASSUME NEW g \in Attempts, Granted(g), pc[g] = "signin", Shown(origin[g])' PROVE Guarded'
    <3>1. Shown(origin[g]) /\ pc[g] \in Waiting
      BY <1>5, <2>2
    <3>2. Guarded
      BY <2>2, <3>1 DEF ChainInv, SessionsBehind
    <3>3. PICK i \in DOMAIN chain : chain[i].id = origin[g]
      BY <3>1 DEF Shown
    <3>4. chain[i].kind \in {"sheet", "signin"}
      BY <2>2, <3>1, <3>3 DEF ChainInv, Origins, StartedOn
    <3>5. Top.kind \in {"sheet", "signin"}
      BY <1>1, <3>3, <3>4, EndsAreLast
    <3>6. QED
      BY <3>5 DEF Above
  <2>3. QED
    BY <2>1, <2>2 DEF SessionsBehind, Granted
<1>10. /\ Count({"main"})' = Count({"main"}) /\ Count({"tabs"})' = Count({"tabs"})
       /\ Count({"main"}) \in Nat /\ Count({"tabs"}) \in Nat
  <2>1. \A kinds : Count(kinds)' = Cardinality(Places(chain', kinds))
    BY DEF Count, Places
  <2>2. \A kinds : Cardinality(Places(chain, kinds)) \in Nat
    BY <1>1, PlacesFinite
  <2>3. \A kinds : Cardinality(Places(chain', kinds))
                      = Cardinality(Places(chain, kinds)) + IF s.kind \in kinds THEN 1 ELSE 0
    BY <1>1, PlacesPush
  <2>4. QED
    BY <2>1, <2>2, <2>3, CountOf
<1>11. FewWelcomes'
  <2>1. ASSUME NEW g \in Attempts, Granted(g), InFront(origin[g])'
        PROVE  InFront(origin[g]) /\ UNCHANGED current
    <3>1. pc[g] \in Waiting
      BY <2>1 DEF Granted
    <3>2. PICK i \in DOMAIN chain' : /\ chain'[i].id = origin[g]
                                     /\ \/ i = Len(chain')
                                        \/ i = Len(chain') - 1 /\ Top'.kind \in {"picker", "sheet"}
      BY <2>1 DEF InFront
    <3>3. i # Len(chain')
      BY <1>3, <1>5, <3>1, <3>2
    <3>4. i = Len(chain) /\ i \in DOMAIN chain /\ chain[i].id = origin[g] /\ s.kind \in {"picker", "sheet"}
      BY <1>1, <1>3, <3>2, <3>3
    <3>5. QED
      BY <3>4 DEF InFront
  <2>2. Count({"main"})' <= 1 + Cardinality(Evicted')
    BY <1>8, <1>10 DEF ChainInv, FewWelcomes
  <2>3. ASSUME NEW g \in Attempts, Granted(g), InFront(origin[g])'
        PROVE  current' # NoUser \/ Count({"main"})' <= Cardinality(Evicted')
    <3>1. current # NoUser \/ Count({"main"}) <= Cardinality(Evicted)
      BY <2>1, <2>3 DEF ChainInv, FewWelcomes
    <3>2. current' = current
      BY <2>1, <2>3
    <3>3. QED
      BY <1>8, <1>10, <3>1, <3>2
  <2>4. QED
    BY <2>2, <2>3 DEF FewWelcomes, Granted
<1>12. FewTabs'
  BY <1>8, <1>10 DEF ChainInv, FewTabs
<1>13. QED
  BY <1>2, <1>6, <1>7, <1>9, <1>11, <1>12 DEF ChainInv

(* A completed sign-up puts another tab bar above its form.                *)
LEMMA PresentChain ==
  ASSUME Inductive, AttemptsInv, ChainInv, [Next]_vars, NEW f \in Attempts,
         pc[f] = "write", Granted(f), Top.id = origin[f],
         chain' = chain \o Tabs(current),
         UNCHANGED <<opened, origin, current>>,
         reach' = reach \cup {"logout"},
         \A g \in Attempts \ {f} : pc'[g] = pc[g] /\ reply'[g] = reply[g],
         pc'[f] = "complete"
  PROVE  ChainInv'
<1> DEFINE b == Append(chain, Plain("tabs"))
           h == IF current = NoUser THEN Append(b, Plain("main")) ELSE b
<1>1. /\ Stack(chain, opened) /\ chain \in Seq(Scr)
      /\ DOMAIN chain = 1 .. Len(chain) /\ Len(chain) \in Nat \ {0} /\ Top = chain[Len(chain)]
      /\ Top = Last(chain)
      /\ opened \in Nat /\ MaxScreens \in Nat /\ opened <= MaxScreens
      /\ \A i \in 1 .. Len(chain) : chain[i].id \in 0 .. opened
  BY ChainFacts DEF Top, Stack
<1>2. /\ Plain("tabs") \in Scr /\ Plain("tabs").id = 0 /\ Plain("tabs").kind = "tabs"
      /\ Plain("main") \in Scr /\ Plain("main").id = 0 /\ Plain("main").kind = "main"
  BY <1>1 DEF Plain, Screen, Scr, Kinds
<1>3. Top.kind = "signup" /\ origin[f] \in 1 .. opened
  <2>1. StartedOn(f) = {"signup"} /\ pc[f] \in Waiting /\ Len(chain) \in DOMAIN chain
    BY <1>1 DEF StartedOn
  <2>2. /\ origin[f] \in 1 .. opened
        /\ \A i \in DOMAIN chain : chain[i].id = origin[f] => chain[i].kind \in StartedOn(f)
    BY <2>1 DEF ChainInv, Origins
  <2>3. QED
    BY <1>1, <2>1, <2>2
<1>4. chain' = h
  <2>1. chain \o <<Plain("tabs")>> = b
    BY <1>1, <1>2, AppendIsConcat
  <2>2. chain \o <<Plain("tabs"), Plain("main")>> = Append(b, Plain("main"))
    BY <1>1, <1>2
  <2>3. QED
    BY <2>1, <2>2, TabsStack
<1>5. /\ Stack(b, opened) /\ Len(b) = Len(chain) + 1 /\ Last(b) = Plain("tabs")
      /\ \A i \in 1 .. Len(chain) : b[i] = chain[i]
      /\ b[Len(chain) + 1] = Plain("tabs")
      /\ \A kinds : Cardinality(Places(b, kinds))
                       = Cardinality(Places(chain, kinds)) + IF "tabs" \in kinds THEN 1 ELSE 0
  <2>1. <<Last(chain).kind, "tabs">> \in Above
    BY <1>1, <1>3 DEF Above
  <2>2. opened \in opened .. MaxScreens
    BY <1>1
  <2>3. Stack(b, opened)
    BY <1>1, <1>2, <2>1, <2>2, PushStack DEF Unnumbered
  <2>4. QED
    BY <1>1, <1>2, <2>3, PushFacts, PlacesPush
<1> HIDE DEF b
<1>6. ASSUME current = NoUser
      PROVE  /\ Stack(h, opened) /\ Len(h) = Len(chain) + 2 /\ Last(h) = Plain("main")
             /\ \A i \in 1 .. Len(chain) : h[i] = chain[i]
             /\ h[Len(chain) + 1] = Plain("tabs") /\ h[Len(chain) + 2] = Plain("main")
             /\ \A kinds : Cardinality(Places(h, kinds))
                              = Cardinality(Places(b, kinds)) + IF "main" \in kinds THEN 1 ELSE 0
  <2>1. h = Append(b, Plain("main"))
    BY <1>6
  <2> HIDE DEF h
  <2>2. <<Last(b).kind, "main">> \in Above /\ opened \in opened .. MaxScreens
    BY <1>1, <1>2, <1>5 DEF Above
  <2>3. Stack(h, opened)
    BY <1>2, <1>5, <2>1, <2>2, PushStack DEF Unnumbered
  <2>4. /\ Len(h) = Len(b) + 1 /\ Last(h) = Plain("main")
        /\ \A i \in 1 .. Len(b) : h[i] = b[i]
        /\ h[Len(b) + 1] = Plain("main")
        /\ \A kinds : Cardinality(Places(h, kinds))
                         = Cardinality(Places(b, kinds)) + IF "main" \in kinds THEN 1 ELSE 0
    BY <1>2, <1>5, <2>1, PushFacts, PlacesPush
  <2>5. \A i \in 1 .. Len(chain) + 1 : i \in 1 .. Len(b)
    BY <1>1, <1>5
  <2>6. QED
    BY <1>1, <1>5, <2>3, <2>4, <2>5
<1>7. /\ Stack(h, opened)
      /\ \A i \in 1 .. Len(chain) : h[i] = chain[i]
      /\ \A kinds : Cardinality(Places(h, kinds))
                       = Cardinality(Places(chain, kinds)) + (IF "tabs" \in kinds THEN 1 ELSE 0)
                         + (IF current = NoUser /\ "main" \in kinds THEN 1 ELSE 0)
      /\ Last(h).id = 0 /\ (Last(h).kind = "tabs" => current # NoUser)
      /\ DOMAIN h = IF current = NoUser THEN 1 .. Len(chain) + 2 ELSE 1 .. Len(chain) + 1
      /\ \A i \in DOMAIN h : i \in 1 .. Len(chain) \/ (h[i].id = 0 /\ h[i].kind \in {"tabs", "main"})
      /\ Last(h).kind \in {"tabs", "main"}
  <2>1. \A kinds : Cardinality(Places(chain, kinds)) \in Nat
    BY <1>1, PlacesFinite
  <2>2. CASE current = NoUser
    <3>1. DOMAIN h = 1 .. Len(chain) + 2
      BY <1>6, <2>2, StackFacts
    <3>2. \A i \in 1 .. Len(chain) + 2 : i \in 1 .. Len(chain) \/ i = Len(chain) + 1 \/ i = Len(chain) + 2
      BY <1>1
    <3> HIDE DEF h
    <3>3. \A kinds : Cardinality(Places(h, kinds))
                       = Cardinality(Places(chain, kinds)) + (IF "tabs" \in kinds THEN 1 ELSE 0)
                         + (IF current = NoUser /\ "main" \in kinds THEN 1 ELSE 0)
      <4> SUFFICES ASSUME NEW kinds
                   PROVE  Cardinality(Places(h, kinds))
                            = Cardinality(Places(chain, kinds)) + (IF "tabs" \in kinds THEN 1 ELSE 0)
                              + (IF current = NoUser /\ "main" \in kinds THEN 1 ELSE 0)
        OBVIOUS
      <4>1. Cardinality(Places(h, kinds)) = Cardinality(Places(b, kinds)) + IF "main" \in kinds THEN 1 ELSE 0
        BY <1>6, <2>2
      <4>2. Cardinality(Places(b, kinds)) = Cardinality(Places(chain, kinds)) + IF "tabs" \in kinds THEN 1 ELSE 0
        BY <1>5
      <4>3. Cardinality(Places(chain, kinds)) \in Nat
        BY <2>1
      <4>4. QED
        BY <2>2, <4>1, <4>2, <4>3
    <3>4. Stack(h, opened) /\ Last(h) = Plain("main") /\ \A i \in 1 .. Len(chain) : h[i] = chain[i]
      BY <1>6, <2>2
    <3>5. \A i \in DOMAIN h : i \in 1 .. Len(chain) \/ h[i] = Plain("tabs") \/ h[i] = Plain("main")
      BY <1>6, <2>2, <3>1, <3>2
    <3>6. \A i \in DOMAIN h : i \in 1 .. Len(chain) \/ (h[i].id = 0 /\ h[i].kind \in {"tabs", "main"})
      BY <1>2, <3>5
    <3>7. Last(h).id = 0 /\ Last(h).kind \in {"tabs", "main"} /\ (Last(h).kind = "tabs" => current # NoUser)
      BY <1>2, <3>4
    <3>8. QED
      BY <2>2, <3>1, <3>3, <3>4, <3>6, <3>7
  <2>3. CASE current # NoUser
    <3>1. h = b
      BY <2>3
    <3>2. DOMAIN b = 1 .. Len(chain) + 1
      BY <1>5, StackFacts
    <3>3. \A i \in 1 .. Len(chain) + 1 : i \in 1 .. Len(chain) \/ i = Len(chain) + 1
      BY <1>1
    <3> HIDE DEF h
    <3>4. \A kinds : Cardinality(Places(h, kinds))
                       = Cardinality(Places(chain, kinds)) + (IF "tabs" \in kinds THEN 1 ELSE 0)
                         + (IF current = NoUser /\ "main" \in kinds THEN 1 ELSE 0)
      BY <1>5, <2>1, <2>3, <3>1
    <3>5. \A i \in DOMAIN h : i \in 1 .. Len(chain) \/ h[i] = Plain("tabs")
      BY <1>5, <3>1, <3>2, <3>3
    <3>6. \A i \in DOMAIN h : i \in 1 .. Len(chain) \/ (h[i].id = 0 /\ h[i].kind \in {"tabs", "main"})
      BY <1>2, <3>5
    <3>7. Last(h).id = 0 /\ Last(h).kind \in {"tabs", "main"} /\ (Last(h).kind = "tabs" => current # NoUser)
      BY <1>2, <1>5, <2>3, <3>1
    <3>8. Stack(h, opened) /\ \A i \in 1 .. Len(chain) : h[i] = chain[i]
      BY <1>5, <3>1
    <3>9. DOMAIN h = 1 .. Len(chain) + 1
      BY <3>1, <3>2
    <3>10. QED
      BY <2>3, <3>4, <3>6, <3>7, <3>8, <3>9
  <2>4. QED
    BY <2>2, <2>3
<1> HIDE DEF h
<1>8. /\ Stack(chain, opened)' /\ Top' = Last(h) /\ DOMAIN chain' = DOMAIN h
      /\ \A i \in DOMAIN chain : i \in DOMAIN chain' /\ chain'[i] = chain[i]
      /\ \A i \in DOMAIN chain' : \/ i \in DOMAIN chain /\ chain'[i] = chain[i]
                                  \/ chain'[i].id = 0 /\ chain'[i].kind \in {"tabs", "main"}
      /\ Len(chain') >= Len(chain) /\ Len(chain') \in Nat
  <2>1. DOMAIN h = 1 .. Len(h) /\ Len(h) \in Nat
    BY <1>7, StackFacts
  <2>2. 1 .. Len(chain) \subseteq DOMAIN h
    BY <1>1, <1>7
  <2>3. Len(h) >= Len(chain)
    BY <1>1, <2>1, <2>2
  <2>4. QED
    BY <1>1, <1>4, <1>7, <2>1, <2>2, <2>3 DEF Top
<1>9. \A g \in Attempts : pc'[g] \in Waiting => g # f /\ pc[g] = pc'[g] /\ (Granted(g)' => Granted(g))
  BY DEF Granted
<1>10. ASSUME NEW g \in Attempts, pc'[g] \in Waiting
       PROVE  /\ origin[g] \in 1 .. opened /\ origin[g] # 0 /\ pc[g] = pc'[g]
              /\ (Granted(g)' => Granted(g))
              /\ Shown(origin[g])' => Shown(origin[g])
  <2>1. pc[g] = pc'[g] /\ (Granted(g)' => Granted(g)) /\ pc[g] \in Waiting
    BY <1>9, <1>10
  <2>2. origin[g] \in 1 .. opened /\ origin[g] # 0
    BY <1>1, <2>1 DEF ChainInv, Origins
  <2>3. Shown(origin[g])' => Shown(origin[g])
    BY <1>8, <2>2 DEF Shown
  <2>4. QED
    BY <2>1, <2>2, <2>3
<1>11. Origins'
  <2> SUFFICES ASSUME NEW g \in Attempts, pc'[g] \in Waiting
               PROVE  /\ origin[g] \in 1 .. opened
                      /\ \A i \in DOMAIN chain' : chain'[i].id = origin[g] => chain'[i].kind \in StartedOn(g)'
    BY DEF ChainInv, Origins
  <2>1. StartedOn(g)' = StartedOn(g) /\ pc[g] \in Waiting
    BY <1>9 DEF StartedOn
  <2>2. QED
    BY <1>8, <1>10, <2>1 DEF ChainInv, Origins
<1>12. Offered'
  <2>1. "register" \in reach' => "signin" \in reach'
    BY DEF ChainInv, Offered
  <2>2. ASSUME NEW i \in DOMAIN chain' PROVE Offers(i)'
    <3>1. CASE i \in DOMAIN chain /\ chain'[i] = chain[i]
      <4>1. Offers(i)
        BY <3>1 DEF ChainInv, Offered
      <4>2. QED
        BY <3>1, <4>1 DEF Offers
    <3>2. CASE chain'[i].kind \in {"tabs", "main"}
      BY <3>2 DEF Offers
    <3>3. QED
      BY <1>8, <3>1, <3>2
  <2>3. QED
    BY <2>1, <2>2 DEF Offered
<1>13. Cardinality(Evicted) \in Nat /\ Cardinality(Evicted') \in Nat
       /\ Cardinality(Completed) \in Nat /\ Cardinality(Completed') \in Nat
       /\ Cardinality(Evicted) <= Cardinality(Evicted')
       /\ Evicted \subseteq Evicted' /\ Completed \subseteq Completed'
       /\ IsFiniteSet(Completed')
       /\ AttemptsInv'
  BY StepAttempts
<1>14. SessionsBehind'
  <2>1. On("tabs")' => Guarded'
    BY <1>7, <1>8 DEF On, Guarded
  <2>2. ASSUME NEW g \in Attempts, Granted(g)', pc'[g] = "signin", Shown(origin[g])' PROVE Guarded'
    <3>1. pc'[g] \in Waiting
      BY <2>2
    <3>2. Granted(g) /\ pc[g] = "signin" /\ Shown(origin[g])
      BY <1>10, <2>2, <3>1
    <3>3. Guarded
      BY <3>2 DEF ChainInv, SessionsBehind
    <3>4. QED
      BY <1>13, <3>3 DEF Guarded
  <2>3. QED
    BY <2>1, <2>2 DEF SessionsBehind
<1>15. /\ Count({"main"})' = Count({"main"}) + IF current = NoUser THEN 1 ELSE 0
       /\ Count({"tabs"})' = Count({"tabs"}) + 1
       /\ Count({"main"}) \in Nat /\ Count({"tabs"}) \in Nat
  <2>1. \A kinds : Count(kinds)' = Cardinality(Places(h, kinds))
    BY <1>4 DEF Count, Places
  <2>2. \A kinds : Cardinality(Places(chain, kinds)) \in Nat
    BY <1>1, PlacesFinite
  <2>3. QED
    BY <1>7, <2>1, <2>2, CountOf
<1>16. FewWelcomes'
  <2>1. InFront(origin[f])
    <3>1. Len(chain) \in DOMAIN chain /\ chain[Len(chain)].id = origin[f]
      BY <1>1
    <3>2. QED
      BY <3>1 DEF InFront
  <2>2. current # NoUser \/ Count({"main"}) <= Cardinality(Evicted)
    BY <2>1 DEF ChainInv, FewWelcomes
  <2>3. Count({"main"})' <= 1 + Cardinality(Evicted')
    BY <1>13, <1>15, <2>2 DEF ChainInv, FewWelcomes
  <2>4. ASSUME NEW g \in Attempts, Granted(g)', InFront(origin[g])' PROVE FALSE
    <3>1. pc'[g] \in Waiting
      BY <2>4 DEF Granted
    <3>2. origin[g] # 0
      BY <1>10, <3>1
    <3>3. Top'.id = origin[g]
      BY <1>7, <1>8, <2>4 DEF InFront, Top
    <3>4. QED
      BY <1>7, <1>8, <3>2, <3>3
  <2>5. QED
    BY <2>3, <2>4 DEF FewWelcomes
<1>17. FewTabs'
  <2>1. f \in Completed' /\ f \notin Completed
    BY DEF Completed
  <2>2. IsFiniteSet(Completed)
    BY <1>13, FS_Subset
  <2>3. Cardinality(Completed \cup {f}) = Cardinality(Completed) + 1
    BY <2>1, <2>2, FS_AddElement
  <2>4. Cardinality(Completed \cup {f}) <= Cardinality(Completed')
    BY <1>13, <2>1, FS_Subset
  <2>5. QED
    BY <1>13, <1>15, <2>3, <2>4 DEF ChainInv, FewTabs
<1>18. QED
  BY <1>8, <1>11, <1>12, <1>14, <1>16, <1>17 DEF ChainInv

(* The screens of a new process: a tab bar, and the welcome screen over it *)
(* when nobody is signed in.                                               *)
FirstChain == /\ chain = Tabs(current) /\ opened = 0 /\ origin \in [Attempts -> {0}]
              /\ reach = FirstControls(current)
              /\ \A f \in Attempts : pc[f] \notin Waiting
              /\ AttemptsInv

(* New screens satisfy the invariant.                                      *)
LEMMA FirstScreens == FirstChain => ChainInv
<1> SUFFICES ASSUME FirstChain PROVE ChainInv
  OBVIOUS
<1> USE DEF FirstChain
<1>1. /\ Stack(chain, 0)
      /\ chain = IF current = NoUser THEN <<Plain("tabs"), Plain("main")>> ELSE <<Plain("tabs")>>
  BY TabsStack
<1>2. /\ Plain("tabs").kind = "tabs" /\ Plain("main").kind = "main"
  BY DEF Plain, Screen
<1>3. Cardinality(Evicted) \in Nat /\ Cardinality(Completed) \in Nat
  <2>1. Evicted \subseteq StartedAttempts /\ Completed \subseteq StartedAttempts
    BY DEF AttemptsInv, ChangesComeLate, Evicted, Completed, StartedAttempts
  <2>2. IsFiniteSet(Evicted) /\ IsFiniteSet(Completed)
    BY <2>1, FS_Subset DEF AttemptsInv, Few
  <2>3. QED
    BY <2>2, FS_CardinalityType
<1>4. Origins
  BY MaxScreensAssumption DEF Origins
<1>5. \A f \in Attempts : ~Granted(f)
  BY DEF Granted
<1>6. Offered /\ SessionsBehind
  <2>1. CASE current = NoUser
    <3>1. chain = <<Plain("tabs"), Plain("main")>> /\ reach = {"register", "signin"}
      BY <1>1, <2>1 DEF FirstControls
    <3>2. /\ Len(chain) = 2 /\ DOMAIN chain = {1, 2}
          /\ chain[1].kind = "tabs" /\ chain[2].kind = "main" /\ Top.kind = "main"
      BY <1>2, <3>1 DEF Top, Last
    <3>3. QED
      BY <1>5, <3>1, <3>2 DEF Offered, Offers, SessionsBehind, On
  <2>2. CASE current # NoUser
    <3>1. chain = <<Plain("tabs")>> /\ reach = {"logout"}
      BY <1>1, <2>2 DEF FirstControls
    <3>2. Len(chain) = 1 /\ DOMAIN chain = {1} /\ chain[1].kind = "tabs"
      BY <1>2, <3>1
    <3>3. QED
      BY <1>5, <2>2, <3>1, <3>2 DEF Offered, Offers, SessionsBehind, On, Guarded
  <2>3. QED
    BY <2>1, <2>2
<1>7. FewWelcomes /\ FewTabs
  <2>1. Count({"main"}) = IF current = NoUser THEN 1 ELSE 0
    BY TabsPlaces, CountOf
  <2>2. Count({"tabs"}) = 1
    BY TabsPlaces, CountOf
  <2>3. QED
    BY <1>3, <1>5, <2>1, <2>2 DEF FewWelcomes, FewTabs
<1>8. QED
  BY <1>1, <1>4, <1>6, <1>7 DEF ChainInv

(* Every step of the screens is a step of Registration.                    *)
LEMMA ScreensStep == [ScreensNext]_allVars => [Next]_vars
<1> SUFFICES ASSUME [ScreensNext]_allVars PROVE [Next]_vars
  OBVIOUS
<1>1. CASE TapCreateAccount
  BY <1>1 DEF TapCreateAccount, Next, Tap
<1>2. CASE TapAddPhoto
  BY <1>2 DEF TapAddPhoto
<1>3. CASE ClosePicker
  BY <1>3 DEF ClosePicker, Next, Tap
<1>4. CASE TapHaveAccount \/ TapX \/ SwipeSheet
  BY <1>4 DEF TapHaveAccount, TapX, SwipeSheet
<1>5. CASE TapLogOut
  BY <1>5 DEF TapLogOut, Next, Tap
<1>6. ASSUME NEW f \in Attempts, NEW a \in Accounts, TapRegister(f, a) \/ TapSignIn(f, a) PROVE [Next]_vars
  BY <1>6 DEF TapRegister, TapSignIn, Next, Tap
<1>7. ASSUME NEW f \in Attempts, SignedIn(f) \/ SignedUp(f) \/ Background(f) PROVE [Next]_vars
  BY <1>7 DEF SignedIn, SignedUp, Background, Next, Callback
<1>8. CASE Relaunch /\ Afresh
  BY <1>8 DEF Next
<1>9. CASE UNCHANGED allVars
  BY <1>9 DEF allVars, vars
<1>10. QED
  BY <1>1, <1>2, <1>3, <1>4, <1>5, <1>6, <1>7, <1>8, <1>9 DEF ScreensNext

(* The backend, the auth queue and the callbacks that show no screen: no   *)
(* attempt starts, a granted one has the session, and only an eviction     *)
(* takes the session away.                                                 *)
LEMMA BackgroundFacts ==
  ASSUME Inductive, AttemptsInv, NEW f \in Attempts, Background(f)
  PROVE  /\ UNCHANGED reach
         /\ \A g \in Attempts : pc'[g] \in Waiting =>
               pc[g] \in Waiting /\ (pc'[g] = "signin" <=> pc[g] = "signin")
         /\ \A g \in Attempts : Granted(g)' => Granted(g) \/ current' # NoUser
         /\ current # NoUser /\ current' = NoUser => \E h \in Evicted' : h \notin Evicted
<1> DEFINE Goal == /\ UNCHANGED reach
                   /\ \A g \in Attempts : pc'[g] \in Waiting =>
                         pc[g] \in Waiting /\ (pc'[g] = "signin" <=> pc[g] = "signin")
                   /\ \A g \in Attempts : Granted(g)' => Granted(g) \/ current' # NoUser
                   /\ current # NoUser /\ current' = NoUser => \E h \in Evicted' : h \notin Evicted
<1>1. TypeOK /\ \A g \in Attempts : OneThingPending(g)
  BY DEF Inductive
<1>2. ASSUME Serve(f) PROVE Goal
  <2>1. /\ UNCHANGED <<reach, current, pc>>
        /\ \A g \in Attempts \ {f} : reply'[g] = reply[g]
        /\ reply'[f] = "ok" => pc[f] \in {"put", "url", "write"} \/ reply[f] = "ok"
    BY <1>1, <1>2 DEF Serve, CreateAccount, GrantSignIn, StorePhoto, GiveURL, StoreProfile,
                      StoreProfileUnacknowledged, Refuse, Answer, TypeOK, OneThingPending
  <2>2. \A g \in Attempts : Granted(g)' => Granted(g)
    BY <2>1 DEF Granted
  <2>3. QED
    BY <2>1, <2>2
<1>3. ASSUME SetCurrentUser(f) PROVE Goal
  <2>1. /\ UNCHANGED <<reach, pc>>
        /\ \A g \in Attempts \ {f} : reply'[g] = reply[g]
        /\ \/ current' = [by |-> f, account |-> account[f]]
           \/ reply'[f] = "error" /\ UNCHANGED current
    BY <1>1, <1>3 DEF SetCurrentUser, TypeOK
  <2>2. account[f] \in Accounts
    BY <1>1, <1>3 DEF SetCurrentUser, OneThingPending, TypeOK
  <2>3. current' = [by |-> f, account |-> account[f]] => current' # NoUser
    BY <2>2, SentinelsAssumption
  <2>4. \A g \in Attempts : Granted(g)' => Granted(g) \/ current' # NoUser
    BY <2>1, <2>3 DEF Granted
  <2>5. QED
    BY <2>1, <2>3, <2>4
<1>4. ASSUME ProfileChange(f) PROVE Goal
  <2>1. UNCHANGED <<reach, pc, reply>>
    BY <1>4 DEF ProfileChange, ChangeName, FailChange, RejectToken, Settle
  <2>2. \/ UNCHANGED current
        \/ change[f] = "sent" /\ change'[f] = "evicted"
    BY <1>1, <1>4 DEF ProfileChange, ChangeName, FailChange, RejectToken, Settle, TypeOK
  <2>3. QED
    BY <2>1, <2>2 DEF Granted, Evicted
<1>5. ASSUME ShowError(f) \/ AfterCreate(f) \/ AfterPut(f) \/ AfterURL(f) PROVE Goal
  <2>1. /\ UNCHANGED <<reach, current>>
        /\ \A g \in Attempts \ {f} : pc'[g] = pc[g] /\ reply'[g] = reply[g]
        /\ \/ pc'[f] \notin Waiting
           \/ pc[f] = "create" /\ reply[f] = "ok" /\ pc'[f] \in {"put", "url", "write"}
           \/ pc[f] \in {"put", "url"} /\ pc'[f] \in {"put", "url", "write"}
    BY <1>1, <1>5 DEF ShowError, AfterCreate, AfterPut, AfterURL, Proceed, Finish, TypeOK
  <2>2. \A g \in Attempts : Granted(g)' => Granted(g)
    BY <2>1 DEF Granted
  <2>3. QED
    BY <2>1, <2>2
<1>6. QED
  BY <1>2, <1>3, <1>4, <1>5 DEF Background

(* One action at a time.                                                   *)
LEMMA ChainStep ==
  ASSUME Inductive, AttemptsInv, ChainInv, [ScreensNext]_allVars PROVE ChainInv'
<1>1. [Next]_vars /\ AttemptsInv'
  BY ScreensStep, StepAttempts
<1>2. /\ DOMAIN chain = 1 .. Len(chain) /\ Len(chain) \in Nat \ {0} /\ Len(chain) \in DOMAIN chain
      /\ Top = chain[Len(chain)] /\ Top \in Scr /\ opened \in Nat /\ MaxScreens \in Nat
      /\ opened <= MaxScreens /\ origin \in [Attempts -> 0 .. MaxScreens]
      /\ Top.id \in 0 .. opened /\ Top.id \in 0 .. MaxScreens
  BY ChainFacts DEF ChainInv, Origins
<1>3. /\ "register" \in reach => "signin" \in reach
      /\ On("signup") => "register" \in reach
  BY <1>2 DEF ChainInv, Offered, Offers, On
<1>4. TypeOK /\ \A g \in Attempts : OneThingPending(g)
  BY DEF Inductive
<1>5. opened \in opened .. MaxScreens
  BY <1>2
<1>6. ASSUME NEW kind \in {"signup", "sheet", "signin"}, Open(kind)
      PROVE  LET s == Screen(kind, opened + 1)
             IN  /\ s \in Scr /\ s.kind = kind /\ s.id # 0 /\ s.id \in opened + 1 .. opened'
                 /\ chain' = Append(chain, s)
                 /\ opened' \in opened .. MaxScreens /\ UNCHANGED origin
  BY <1>2, <1>6 DEF Open, Screen, Scr, Kinds
<1>7. CASE TapCreateAccount
  <2> DEFINE s == Screen("signup", opened + 1)
  <2>1. /\ s \in Scr /\ s.kind = "signup" /\ s.id # 0 /\ s.id \in opened + 1 .. opened'
        /\ chain' = Append(chain, s)
        /\ opened' \in opened .. MaxScreens /\ UNCHANGED origin
    BY <1>6, <1>7 DEF TapCreateAccount
  <2> HIDE DEF s
  <2>2. /\ Top.kind = "main" /\ "register" \in reach
        /\ UNCHANGED <<pc, reply, reach, current>>
    BY <1>7 DEF TapCreateAccount, On, OpenSignUp
  <2>3. <<Top.kind, s.kind>> \in Above
    BY <2>1, <2>2 DEF Above
  <2>4. QED
    BY <1>1, <1>3, <2>1, <2>2, <2>3, PushChain DEF Unnumbered
<1>8. CASE TapAddPhoto
  <2>1. /\ Plain("picker") \in Scr /\ Plain("picker").kind = "picker" /\ Plain("picker").id = 0
    BY <1>2 DEF Plain, Screen, Scr, Kinds
  <2>2. /\ Top.kind = "signup" /\ chain' = Append(chain, Plain("picker"))
        /\ UNCHANGED <<pc, reply, reach, current, origin, opened>>
    BY <1>8 DEF TapAddPhoto, On, vars
  <2>3. <<Top.kind, Plain("picker").kind>> \in Above /\ "register" \in reach
    BY <1>3, <2>1, <2>2 DEF Above, On
  <2>4. QED
    BY <1>1, <1>3, <1>5, <2>1, <2>2, <2>3, PushChain DEF Unnumbered
<1>9. CASE TapHaveAccount
  <2> DEFINE s == Screen("sheet", opened + 1)
  <2>1. /\ s \in Scr /\ s.kind = "sheet" /\ s.id # 0 /\ s.id \in opened + 1 .. opened'
        /\ chain' = Append(chain, s)
        /\ opened' \in opened .. MaxScreens /\ UNCHANGED origin
    BY <1>6, <1>9 DEF TapHaveAccount
  <2> HIDE DEF s
  <2>2. /\ Top.kind = "signup" /\ "register" \in reach
        /\ UNCHANGED <<pc, reply, reach, current>>
    BY <1>3, <1>9 DEF TapHaveAccount, On, vars
  <2>3. <<Top.kind, s.kind>> \in Above
    BY <2>1, <2>2 DEF Above
  <2>4. QED
    BY <1>1, <1>3, <2>1, <2>2, <2>3, PushChain DEF Unnumbered
<1>10. CASE TapLogOut
  <2> DEFINE s == Screen("signin", opened + 1)
  <2>1. /\ s \in Scr /\ s.kind = "signin" /\ s.id # 0 /\ s.id \in opened + 1 .. opened'
        /\ chain' = Append(chain, s)
        /\ opened' \in opened .. MaxScreens /\ UNCHANGED origin
    BY <1>6, <1>10 DEF TapLogOut
  <2> HIDE DEF s
  <2>2. /\ Top.kind = "tabs" /\ reach' = reach \cup {"signin"}
        /\ UNCHANGED <<pc, reply>>
    BY <1>10 DEF TapLogOut, On, LogOut
  <2>3. <<Top.kind, s.kind>> \in Above
    BY <2>1, <2>2 DEF Above
  <2>4. QED
    BY <1>1, <1>3, <2>1, <2>2, <2>3, PushChain DEF Unnumbered
<1>11. CASE ClosePicker \/ TapX \/ SwipeSheet
  <2>1. /\ Top.kind \in {"picker", "signup", "sheet"} /\ chain' = Front(chain)
        /\ UNCHANGED <<opened, origin, reach, current, pc, reply>>
    BY <1>11 DEF ClosePicker, TapX, SwipeSheet, On, PickPhoto, vars
  <2>2. \A g \in Attempts : pc'[g] \in Waiting => pc'[g] = pc[g] /\ (Granted(g)' => Granted(g))
    BY <2>1 DEF Granted
  <2>3. QED
    BY <1>1, <2>1, <2>2, PopChain
<1>12. ASSUME Afresh, reach' = FirstControls(current'), \A g \in Attempts : pc'[g] \notin Waiting PROVE ChainInv'
  <2>1. FirstChain'
    BY <1>1, <1>12 DEF FirstChain, Afresh
  <2>2. FirstChain' => ChainInv'
    BY FirstScreens, PTL
  <2>3. QED
    BY <2>1, <2>2
<1>13. \A g \in Attempts : Killed[g] \notin Waiting
  BY DEF Killed
<1>14. CASE Relaunch /\ Afresh
  BY <1>12, <1>13, <1>14 DEF Relaunch, Restart
<1>15. ASSUME NEW f \in Attempts, NEW a \in Accounts, TapRegister(f, a) PROVE ChainInv'
  <2>1. CASE photo
    <3>1. /\ Top.kind = "signup" /\ pc[f] = "idle" /\ pc' = [pc EXCEPT ![f] = "create"]
          /\ UNCHANGED <<chain, opened, reach, reply, current>>
          /\ origin' = [origin EXCEPT ![f] = Top.id]
      BY <1>15, <2>1 DEF TapRegister, Register, Start, On
    <3>2. reply[f] = "none" /\ pc'[f] = "create" /\ origin'[f] = Top.id
          /\ \A g \in Attempts \ {f} : pc'[g] = pc[g] /\ origin'[g] = origin[g]
      BY <1>2, <1>4, <3>1 DEF TypeOK, OneThingPending
    <3>3. ~Granted(f)' /\ \A g \in Attempts \ {f} : Granted(g)' => Granted(g)
      BY <3>1, <3>2 DEF Granted
    <3>4. Top.kind \in StartedOn(f)'
      BY <3>1, <3>2 DEF StartedOn
    <3>5. origin' \in [Attempts -> 0 .. MaxScreens]
      BY <1>2, <3>1
    <3>6. QED
      BY <1>1, <1>3, <3>1, <3>2, <3>3, <3>4, <3>5, SameChain
  <2>2. CASE ~photo
    <3>1. Restart([Killed EXCEPT ![f] = "crashed"]) /\ Afresh
      BY <1>15, <2>2 DEF TapRegister, Register
    <3>2. \A g \in Attempts : pc'[g] \notin Waiting
      BY <1>13, <3>1 DEF Restart, Killed
    <3>3. QED
      BY <1>12, <3>1, <3>2 DEF Restart
  <2>3. QED
    BY <2>1, <2>2
<1>16. ASSUME NEW f \in Attempts, NEW a \in Accounts, TapSignIn(f, a) PROVE ChainInv'
  <2>1. /\ Top.kind \in {"sheet", "signin"} /\ pc[f] = "idle" /\ pc' = [pc EXCEPT ![f] = "signin"]
        /\ UNCHANGED <<chain, opened, reach, reply, current>> /\ origin' = [origin EXCEPT ![f] = Top.id]
    BY <1>16 DEF TapSignIn, SignIn, Start, On
  <2>2. reply[f] = "none" /\ pc'[f] = "signin" /\ origin'[f] = Top.id
        /\ \A g \in Attempts \ {f} : pc'[g] = pc[g] /\ origin'[g] = origin[g]
    BY <1>2, <1>4, <2>1 DEF TypeOK, OneThingPending
  <2>3. ~Granted(f)' /\ \A g \in Attempts \ {f} : Granted(g)' => Granted(g)
    BY <2>1, <2>2 DEF Granted
  <2>4. Top.kind \in StartedOn(f)'
    BY <2>1, <2>2 DEF StartedOn
  <2>5. origin' \in [Attempts -> 0 .. MaxScreens]
    BY <1>2, <2>1
  <2>6. QED
    BY <1>1, <1>3, <2>1, <2>2, <2>3, <2>4, <2>5, SameChain
<1>17. ASSUME NEW f \in Attempts, SignedIn(f) PROVE ChainInv'
  <2>1. /\ pc[f] = "signin" /\ Granted(f) /\ chain' = Dismiss(origin[f])
        /\ UNCHANGED <<opened, origin, reach, current>>
        /\ pc' = [pc EXCEPT ![f] = "signedin"] /\ reply' = [reply EXCEPT ![f] = "none"]
    BY <1>17 DEF SignedIn, AfterSignIn, Finish, Granted
  <2>2. pc'[f] = "signedin" /\ \A g \in Attempts \ {f} : pc'[g] = pc[g] /\ reply'[g] = reply[g]
    BY <1>4, <2>1 DEF TypeOK
  <2>3. ~Granted(f)' /\ \A g \in Attempts \ {f} : Granted(g)' => Granted(g)
    BY <2>2 DEF Granted
  <2>4. /\ origin[f] \in 1 .. opened
        /\ \A i \in DOMAIN chain : chain[i].id = origin[f] => chain[i].kind \in {"sheet", "signin"}
    <3>1. pc[f] \in Waiting /\ StartedOn(f) = {"sheet", "signin"}
      BY <2>1 DEF StartedOn
    <3>2. QED
      BY <3>1 DEF ChainInv, Origins
  <2>5. origin[f] \in Nat \ {0} /\ Stack(chain, opened)
    BY <1>2, <2>4 DEF ChainInv
  <2>6. CASE Shown(origin[f])
    <3>1. Top.id = origin[f] /\ chain' = Front(chain)
      BY <2>1, <2>4, <2>5, <2>6, DismissFacts
    <3>2. Top.kind \in {"sheet", "signin"} /\ Guarded
      BY <1>2, <2>1, <2>4, <2>6, <3>1 DEF ChainInv, SessionsBehind
    <3>3. \A g \in Attempts : pc'[g] \in Waiting => pc'[g] = pc[g] /\ (Granted(g)' => Granted(g))
      BY <2>2, <2>3
    <3>4. QED
      BY <1>1, <2>1, <3>1, <3>2, <3>3, PopChain
  <2>7. CASE ~Shown(origin[f])
    <3>1. chain' = chain
      BY <2>1, <2>4, <2>5, <2>7, DismissFacts
    <3>2. QED
      BY <1>1, <1>2, <1>3, <2>1, <2>2, <2>3, <3>1, SameChain
  <2>8. QED
    BY <2>6, <2>7
<1>18. ASSUME NEW f \in Attempts, SignedUp(f) PROVE ChainInv'
  <2>1. /\ pc[f] = "write" /\ Granted(f) /\ chain' = Present(origin[f], Tabs(current))
        /\ UNCHANGED <<opened, origin, current>> /\ reach' = reach \cup {"logout"}
        /\ pc' = [pc EXCEPT ![f] = "complete"] /\ reply' = [reply EXCEPT ![f] = "none"]
    BY <1>18 DEF SignedUp, AfterWrite, Finish, Granted
  <2>2. pc'[f] = "complete" /\ \A g \in Attempts \ {f} : pc'[g] = pc[g] /\ reply'[g] = reply[g]
    BY <1>4, <2>1 DEF TypeOK
  <2>3. CASE Top.id = origin[f]
    <3>1. chain' = chain \o Tabs(current)
      BY <2>1, <2>3 DEF Present
    <3>2. QED
      BY <1>1, <2>1, <2>2, <2>3, <3>1, PresentChain
  <2>4. CASE Top.id # origin[f]
    <3>1. chain' = chain
      BY <2>1, <2>4 DEF Present
    <3>2. ~Granted(f)' /\ \A g \in Attempts \ {f} : Granted(g)' => Granted(g)
      BY <2>2 DEF Granted
    <3>3. QED
      BY <1>1, <1>2, <1>3, <2>1, <2>2, <3>1, <3>2, SameChain
  <2>5. QED
    BY <2>3, <2>4
<1>19. ASSUME NEW f \in Attempts, Background(f) PROVE ChainInv'
  <2>1. UNCHANGED <<chain, opened, origin>>
    BY <1>19 DEF Background, screens
  <2>2. QED
    BY <1>1, <1>2, <1>3, <1>19, <2>1, BackgroundFacts, SameChain
<1>20. CASE UNCHANGED allVars
  <2>1. UNCHANGED <<chain, opened, origin, reach, current, pc, reply, change>>
    BY <1>20 DEF allVars, screens, vars
  <2>2. \A g \in Attempts : Granted(g)' => Granted(g)
    BY <2>1 DEF Granted
  <2>3. QED
    BY <1>1, <1>2, <1>3, <2>1, <2>2, SameChain
<1>21. QED
  BY <1>7, <1>8, <1>9, <1>10, <1>11, <1>14, <1>15, <1>16, <1>17, <1>18, <1>19, <1>20 DEF ScreensNext

-----------------------------------------------------------------------------
(* The screens take no step that Registration does not allow: what they    *)
(* offer only narrows the user's choice, so every theorem about            *)
(* Registration holds behind them.                                         *)
THEOREM ScreensImplementRegistration == ScreensSpec => Spec
<1>1. ScreensInit => Init
  BY DEF ScreensInit
<1>2. QED
  BY <1>1, ScreensStep, PTL DEF ScreensSpec, Spec

(* So do the very first ones.                                              *)
LEMMA InitChain == ScreensInit => AttemptsInv /\ ChainInv
<1> SUFFICES ASSUME ScreensInit PROVE AttemptsInv /\ ChainInv
  OBVIOUS
<1>1. AttemptsInv
  <2>1. StartedAttempts = {} /\ ChangesComeLate
    BY DEF ScreensInit, Init, StartedAttempts, ChangesComeLate
  <2>2. QED
    BY <2>1, FS_EmptySet DEF AttemptsInv, Few
<1>2. FirstChain
  BY <1>1 DEF FirstChain, ScreensInit, Init
<1>3. QED
  BY <1>1, <1>2, FirstScreens

(* The invariant, beside that of Registration.                             *)
LEMMA ChainInvariant == ScreensSpec => [](Inductive /\ AttemptsInv /\ ChainInv)
<1>1. ASSUME Inductive, AttemptsInv, ChainInv, [ScreensNext]_allVars PROVE AttemptsInv' /\ ChainInv'
  BY <1>1, ScreensStep, StepAttempts, ChainStep
<1>2. ScreensSpec => []Inductive
  BY ScreensImplementRegistration, InductiveInvariant, PTL
<1>3. QED
  BY <1>1, <1>2, InitChain, PTL DEF ScreensSpec

(* ControlsAreInReach: whatever the screens were stacked to, the last one  *)
(* never offers a control that Registration does not know to be in reach.  *)
THEOREM ControlsInReach == ScreensSpec => []ControlsAreInReach
<1>1. ASSUME ChainInv PROVE ControlsAreInReach
  <2>1. Len(chain) \in DOMAIN chain /\ Top = chain[Len(chain)]
    BY <1>1, ChainFacts
  <2>2. Offers(Len(chain))
    BY <1>1, <2>1 DEF ChainInv, Offered
  <2>3. QED
    BY <2>1, <2>2 DEF Offers, ControlsAreInReach, On
<1>2. QED
  BY <1>1, ChainInvariant, PTL

(* TabsMeanSession: the tabs are the last screen only while somebody is    *)
(* signed in, unless an attempt was evicted by its profile change.         *)
THEOREM TabsHaveSession == ScreensSpec => []TabsMeanSession
<1>1. ChainInv => TabsMeanSession
  BY DEF ChainInv, SessionsBehind, Guarded, TabsMeanSession
<1>2. QED
  BY <1>1, ChainInvariant, PTL

(* ChainIsSound: however late the callbacks come, there is one sign-up     *)
(* form more than evictions at most, one picker or sign-in screen, and one *)
(* tab bar more than completed sign-ups.                                   *)
THEOREM ChainSound == ScreensSpec => []ChainIsSound
<1>1. ASSUME AttemptsInv, ChainInv PROVE ChainIsSound
  <2>1. Stack(chain, opened)
    BY <1>1 DEF ChainInv
  <2>2. ScreensTypeOK
    BY <1>1, <2>1 DEF ChainInv, Origins, ScreensTypeOK, Stack, Scr
  <2>3. /\ Count({"signup"}) <= Count({"main"})
        /\ Count({"picker", "sheet", "signin"}) <= 1
        /\ Count({"signup"}) \in Nat /\ Count({"main"}) \in Nat
    BY <2>1, FormsHaveWelcomes, EndsAreFew, PlacesFinite, CountOf
  <2>4. Cardinality(Evicted) \in Nat
    <3>1. Evicted \subseteq StartedAttempts
      BY <1>1 DEF AttemptsInv, ChangesComeLate, Evicted, StartedAttempts
    <3>2. QED
      BY <1>1, <3>1, FS_Subset, FS_CardinalityType DEF AttemptsInv, Few
  <2>5. Count({"signup"}) <= 1 + Cardinality(Evicted)
    BY <1>1, <2>3, <2>4 DEF ChainInv, FewWelcomes
  <2>6. Count({"tabs"}) <= 1 + Cardinality({f \in Attempts : pc[f] = "complete"})
    BY <1>1 DEF ChainInv, FewTabs, Completed
  <2>7. QED
    BY <2>2, <2>3, <2>5, <2>6 DEF ChainIsSound, ChainIsBounded
<1>2. QED
  BY <1>1, ChainInvariant, PTL
=============================================================================
