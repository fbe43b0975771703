---------------------------- MODULE ViewsProofs -----------------------------
(***************************************************************************)
(* Theorems about two views whose callbacks end late.                      *)
(*   - The HUD, for any number of calls: it is never stuck invisible, and  *)
(*     a running timer belongs to the message on display.                  *)
(*   - The pictures of the Users tab, for any number of cells, users and   *)
(*     downloads: a row shows another picture than its user's only for a   *)
(*     reason.                                                             *)
(***************************************************************************)
EXTENDS ProgressHUD, AvatarCells, FiniteSetTheorems, SequenceTheorems, TLAPS

(* The HUD.                                                                *)
HUDInv == HudTypeOK /\ ViewsMatchAlpha /\ NeverStuckInvisible /\ TimerIsForContent

(* Nothing is shown at first.                                              *)
LEMMA InitHUD == HudInit => HUDInv
BY CallsAssumption
   DEF HudInit, HUDInv, HudTypeOK, ViewsMatchAlpha, NeverStuckInvisible, TimerIsForContent

(* Every task of the main queue, every timer and every completion keeps    *)
(* the invariant.                                                          *)
LEMMA NextHUD == HUDInv /\ [HudNext]_hudVars => HUDInv'
<1> SUFFICES ASSUME HUDInv, [HudNext]_hudVars PROVE HUDInv'
  OBVIOUS
<1> USE CallsAssumption
    DEF HUDInv, HudTypeOK, ViewsMatchAlpha, NeverStuckInvisible, TimerIsForContent, Shows, Asks
<1>1. ASSUME NEW r \in Calls, NEW ask \in Asks, Post(r, ask) PROVE HUDInv'
  BY <1>1 DEF Post
<1>2. CASE RunTask
  <2>1. Head(queue) \in Calls /\ queue' \in Seq(Calls)
    BY <1>2 DEF RunTask
  <2>2. CASE kind[Head(queue)] = "dismiss"
    BY <1>2, <2>1, <2>2 DEF RunTask, HudHide
  <2>3. CASE kind[Head(queue)] # "dismiss"
    BY <1>2, <2>1, <2>3 DEF RunTask, Setup, Arm
  <2>4. QED
    BY <2>2, <2>3
<1>3. CASE TimerFires
  BY <1>3 DEF TimerFires, HudHide
<1>4. CASE FadeEnds
  BY <1>4 DEF FadeEnds
<1>5. CASE UNCHANGED hudVars
  BY <1>5 DEF hudVars
<1>6. QED
  BY <1>1, <1>2, <1>3, <1>4, <1>5 DEF HudNext

LEMMA HUDInvariant == HudSpec => []HUDInv
<1>1. QED
  BY InitHUD, NextHUD, PTL DEF HudSpec

(* A faded-out HUD always has its destruction pending.                     *)
THEOREM NotStuck == HudSpec => []NeverStuckInvisible
<1>1. HUDInv => NeverStuckInvisible
  BY DEF HUDInv
<1>2. QED
  BY <1>1, HUDInvariant, PTL

(* Only the timer of the message on display runs.                          *)
THEOREM TimerMatches == HudSpec => []TimerIsForContent
<1>1. HUDInv => TimerIsForContent
  BY DEF HUDInv
<1>2. QED
  BY <1>1, HUDInvariant, PTL
-----------------------------------------------------------------------------
(* The pictures.  While nothing spoilt a cell, the downloads that are      *)
(* under way for it are for the user it shows.                             *)
DownloadsFit == \A c \in Cells : spoilt[c] = {} => \A d \in Asked(c) : d.user = user[c]

AvatarInv == /\ AvatarTypeOK /\ IsFiniteSet(downloads)
             /\ DownloadsFit /\ WrongPictureHasReason

(* A free number is left for one more download of a picture for a cell.    *)
LEMMA AnotherIsNew ==
  ASSUME AvatarTypeOK, IsFiniteSet(downloads), UnderWay < MaxDownloads,
         NEW c \in Cells, NEW u \in People \ NoURL
  PROVE  /\ Another(c, u) \in Download
         /\ Another(c, u).cell = c /\ Another(c, u).user = u
<1> DEFINE all == downloads \cup Range(main)
           d(n) == [cell |-> c, user |-> u, number |-> n]
           same == {d(n) : n \in 1 .. MaxDownloads}
<1>1. MaxDownloads \in Nat /\ Len(main) \in Nat /\ main \in [1 .. Len(main) -> Download]
  <2>1. main \in Seq(Download)
    BY DEF AvatarTypeOK
  <2>2. QED
    BY <2>1, AvatarAssumption, LenProperties
<1>2. IsFiniteSet(Range(main)) /\ Cardinality(Range(main)) <= Len(main)
  <2>1. main \in Surjection(1 .. Len(main), Range(main))
    BY <1>1 DEF Surjection, Range
  <2>2. IsFiniteSet(1 .. Len(main)) /\ Cardinality(1 .. Len(main)) = Len(main)
    <3> DEFINE n == Len(main)
    <3>1. n \in Nat /\ 1 \in Int /\ n \in Int
      BY <1>1
    <3> HIDE DEF n
    <3>2. IsFiniteSet(1 .. n) /\ Cardinality(1 .. n) = IF 1 > n THEN 0 ELSE n - 1 + 1
      BY <3>1, FS_Interval
    <3>3. QED
      BY <3>1, <3>2 DEF n
  <2>3. QED
    BY <2>1, <2>2, FS_Surjection
<1>3. IsFiniteSet(all) /\ Cardinality(all) < MaxDownloads
  <2>1. IsFiniteSet(all)
        /\ Cardinality(all) = Cardinality(downloads) + Cardinality(Range(main)) - Cardinality(downloads \cap Range(main))
    BY <1>2, FS_Union
  <2>2. IsFiniteSet(downloads \cap Range(main))
    BY FS_Intersection
  <2>3. Cardinality(downloads \cap Range(main)) \in Nat /\ Cardinality(downloads) \in Nat
        /\ Cardinality(Range(main)) \in Nat
    BY <1>2, <2>2, FS_CardinalityType
  <2>4. QED
    BY <1>1, <1>2, <2>1, <2>3 DEF UnderWay
<1>4. IsFiniteSet(same) /\ Cardinality(same) = MaxDownloads
  <2> DEFINE f == [n \in 1 .. MaxDownloads |-> d(n)]
  <2>1. \A m, n \in 1 .. MaxDownloads : d(m) = d(n) => m = n
    OBVIOUS
  <2>2. f \in Bijection(1 .. MaxDownloads, same)
    BY <2>1 DEF Bijection, Injection, Surjection, IsInjective
  <2>3. ExistsBijection(1 .. MaxDownloads, same)
    BY <2>2 DEF ExistsBijection
  <2>4. IsFiniteSet(1 .. MaxDownloads) /\ Cardinality(1 .. MaxDownloads) = MaxDownloads
    BY <1>1, FS_Interval
  <2>5. QED
    BY <2>3, <2>4, FS_Bijection
<1>5. \E x \in same : x \notin all
  <2>1. ASSUME same \subseteq all PROVE FALSE
    <3>1. Cardinality(same) <= Cardinality(all) /\ Cardinality(all) \in Nat
      BY <1>3, <2>1, FS_Subset, FS_CardinalityType
    <3>2. QED
      BY <1>1, <1>3, <1>4, <3>1
  <2>2. QED
    BY <2>1
<1>6. \E x \in Download : x.cell = c /\ x.user = u /\ x \notin all
  <2>1. PICK n \in 1 .. MaxDownloads : d(n) \notin all
    BY <1>5
  <2>2. d(n) \in Download /\ d(n).cell = c /\ d(n).user = u
    BY DEF Download
  <2>3. QED
    BY <2>1, <2>2
<1>7. QED
  BY <1>6 DEF Another

LEMMA InitAvatars == AvatarInit => AvatarInv
<1> SUFFICES ASSUME AvatarInit PROVE AvatarInv
  OBVIOUS
<1>1. AvatarTypeOK /\ IsFiniteSet(downloads)
  BY FS_EmptySet DEF AvatarInit, AvatarTypeOK
<1>2. \A c \in Cells : Asked(c) = {}
  BY DEF AvatarInit, Asked, Range
<1>3. QED
  BY <1>1, <1>2 DEF AvatarInit, AvatarInv, DownloadsFit, WrongPictureHasReason

(* A cell taken for a row while a download of it has not ended is spoilt.  *)
LEMMA ShowRowAvatars ==
  ASSUME AvatarInv, NEW c \in Cells, NEW u \in People, ShowRow(c, u) PROVE AvatarInv'
<1> USE DEF AvatarInv
<1> DEFINE asks == u \notin cache /\ u \notin NoURL
<1>1. /\ UNCHANGED <<cache, main>> /\ user' = [user EXCEPT ![c] = u]
      /\ image' = IF u \in cache THEN [image EXCEPT ![c] = u] ELSE image
      /\ downloads' = IF asks THEN downloads \cup {Another(c, u)} ELSE downloads
      /\ spoilt' = [spoilt EXCEPT ![c] = (IF Asked(c) # {} THEN {"reused"} ELSE {})
                                         \cup (IF u \in NoURL THEN {"no url"} ELSE {})]
  <2>1. CASE u \in cache
    BY <2>1 DEF ShowRow
  <2>2. CASE u \notin cache
    BY <2>2 DEF ShowRow
  <2>3. QED
    BY <2>1, <2>2
<1>2. asks => /\ Another(c, u) \in Download
              /\ Another(c, u).cell = c /\ Another(c, u).user = u
  BY AnotherIsNew DEF ShowRow
<1>3. AvatarTypeOK'
  BY <1>1, <1>2 DEF AvatarTypeOK
<1>4. IsFiniteSet(downloads')
  BY <1>1, FS_AddElement
<1>5. /\ \A k \in Cells \ {c} : Asked(k)' = Asked(k)
      /\ Asked(c)' = IF asks THEN Asked(c) \cup {Another(c, u)} ELSE Asked(c)
  BY <1>1, <1>2 DEF Asked
<1>6. \A k \in Cells \ {c} : user'[k] = user[k] /\ image'[k] = image[k] /\ spoilt'[k] = spoilt[k]
  BY <1>1 DEF AvatarTypeOK
<1>7. /\ user'[c] = u /\ (u \in cache => image'[c] = u)
      /\ spoilt'[c] = {} => Asked(c) = {} /\ u \notin NoURL
  BY <1>1 DEF AvatarTypeOK
<1>8. DownloadsFit'
  BY <1>2, <1>5, <1>6, <1>7 DEF DownloadsFit
<1>9. WrongPictureHasReason'
  BY <1>2, <1>5, <1>6, <1>7 DEF WrongPictureHasReason
<1>10. QED
  BY <1>3, <1>4, <1>8, <1>9

(* The end of a download: its block waits for the main queue, or there is  *)
(* a reason why the picture does not come.                                 *)
LEMMA ArrivesAvatars ==
  ASSUME AvatarInv, NEW d \in downloads, Arrives(d) \/ Fails(d) PROVE AvatarInv'
<1> USE DEF AvatarInv
<1>1. UNCHANGED <<user, image>> /\ downloads' = downloads \ {d} /\ d \in Download
      /\ IsFiniteSet(downloads')
  BY FS_RemoveElement DEF Arrives, Fails, AvatarTypeOK
<1>2. CASE Arrives(d)
  <2>1. UNCHANGED spoilt /\ main' = Append(main, d) /\ cache' = cache \cup {d.user}
    BY <1>2 DEF Arrives
  <2>2. AvatarTypeOK'
    <3>1. main \in Seq(Download) /\ d.user \in People \ NoURL
      BY <1>1 DEF AvatarTypeOK, Download
    <3>2. main' \in Seq(Download)
      BY <1>1, <2>1, <3>1, AppendProperties
    <3>3. QED
      BY <1>1, <2>1, <3>1, <3>2 DEF AvatarTypeOK
  <2>3. Range(main') = Range(main) \cup {d}
    <3> DEFINE last == Len(main) + 1
    <3>1. /\ DOMAIN main = 1 .. Len(main) /\ Len(main) \in Nat
          /\ DOMAIN main' = 1 .. last /\ main'[last] = d
          /\ \A i \in 1 .. Len(main) : main'[i] = main[i]
      <4>1. main \in Seq(Download)
        BY DEF AvatarTypeOK
      <4>2. /\ Len(Append(main, d)) = last
            /\ \A i \in 1 .. Len(main) : Append(main, d)[i] = main[i]
            /\ Append(main, d)[last] = d /\ Append(main, d) \in Seq(Download)
        BY <1>1, <4>1, AppendProperties
      <4>3. QED
        BY <2>1, <4>1, <4>2, LenProperties
    <3>2. 1 .. last = (1 .. Len(main)) \cup {last}
      BY <3>1
    <3> HIDE DEF last
    <3>3. QED
      BY <3>1, <3>2 DEF Range
  <2>4. \A c \in Cells : Asked(c)' = Asked(c)
    BY <1>1, <2>3 DEF Asked
  <2>5. QED
    BY <1>1, <2>1, <2>2, <2>4 DEF DownloadsFit, WrongPictureHasReason
<1>3. CASE Fails(d)
  <2>1. UNCHANGED <<cache, main>> /\ spoilt' = [spoilt EXCEPT ![d.cell] = @ \cup {"failed"}]
        /\ d.cell \in Cells
    BY <1>1, <1>3 DEF Fails, Download
  <2>2. AvatarTypeOK'
    BY <1>1, <2>1 DEF AvatarTypeOK
  <2>3. \A c \in Cells : /\ Asked(c)' \subseteq Asked(c)
                         /\ c # d.cell => Asked(c)' = Asked(c) /\ spoilt'[c] = spoilt[c]
    BY <1>1, <2>1 DEF Asked, AvatarTypeOK
  <2>4. spoilt'[d.cell] # {}
    BY <2>1 DEF AvatarTypeOK
  <2>5. QED
    BY <1>1, <2>2, <2>3, <2>4 DEF DownloadsFit, WrongPictureHasReason
<1>4. QED
  BY <1>2, <1>3

(* The picture that is set belongs to the row, unless the cell is spoilt.  *)
LEMMA SetImageAvatars ==
  ASSUME AvatarInv, SetImage PROVE AvatarInv'
<1> USE DEF AvatarInv
<1> DEFINE d == Head(main)
<1>1. main # <<>> /\ d \in Download /\ d \in Range(main) /\ main' \in Seq(Download)
      /\ Range(main') \subseteq Range(main) /\ Range(main) \subseteq Range(main') \cup {d}
  <2>1. main \in Seq(Download) /\ main # <<>> /\ main' = Tail(main)
    BY DEF SetImage, AvatarTypeOK
  <2>2. /\ d \in Download /\ Tail(main) \in Seq(Download) /\ d = main[1] /\ Len(main) \in Nat \ {0}
        /\ Len(Tail(main)) = Len(main) - 1
        /\ \A i \in 1 .. Len(Tail(main)) : Tail(main)[i] = main[i + 1]
    BY <2>1, HeadTailProperties, EmptySeq
  <2>3. \A i \in 1 .. Len(Tail(main)) : i + 1 \in 1 .. Len(main)
    BY <2>2
  <2>4. \A i \in 1 .. Len(main) : i = 1 \/ (i - 1 \in 1 .. Len(Tail(main)) /\ Tail(main)[i - 1] = main[i])
    BY <2>2
  <2>5. /\ DOMAIN main = 1 .. Len(main) /\ 1 \in 1 .. Len(main)
        /\ DOMAIN Tail(main) = 1 .. Len(Tail(main))
    BY <2>1, <2>2, LenProperties
  <2>6. Range(Tail(main)) \subseteq Range(main)
    BY <2>2, <2>3, <2>5 DEF Range
  <2>7. Range(main) \subseteq Range(Tail(main)) \cup {d} /\ d \in Range(main)
    <3>1. \A i \in DOMAIN main : main[i] = d \/ main[i] \in Range(Tail(main))
      BY <2>2, <2>4, <2>5 DEF Range
    <3>2. d \in Range(main)
      BY <2>2, <2>5 DEF Range
    <3>3. QED
      BY <3>1, <3>2 DEF Range
  <2>8. QED
    BY <2>1, <2>2, <2>6, <2>7
<1>2. UNCHANGED <<user, cache, downloads, spoilt>> /\ image' = [image EXCEPT ![d.cell] = d.user]
  BY DEF SetImage
<1> HIDE DEF d
<1>3. d.cell \in Cells /\ d.user \in People /\ d \in Asked(d.cell)
  BY <1>1 DEF Download, Asked
<1>4. \A c \in Cells : /\ Asked(c)' \subseteq Asked(c)
                       /\ c # d.cell => Asked(c)' = Asked(c) /\ image'[c] = image[c]
  BY <1>1, <1>2, <1>3 DEF Asked, AvatarTypeOK
<1>5. image'[d.cell] = d.user
  BY <1>2, <1>3 DEF AvatarTypeOK
<1>6. spoilt[d.cell] = {} => user[d.cell] = d.user
  BY <1>3 DEF DownloadsFit
<1>7. AvatarTypeOK'
  BY <1>1, <1>2, <1>3 DEF AvatarTypeOK
<1>8. DownloadsFit' /\ WrongPictureHasReason'
  BY <1>2, <1>4, <1>5, <1>6 DEF DownloadsFit, WrongPictureHasReason
<1>9. QED
  BY <1>2, <1>7, <1>8

LEMMA NextAvatars == AvatarInv /\ [AvatarNext]_avatarVars => AvatarInv'
<1> SUFFICES ASSUME AvatarInv, [AvatarNext]_avatarVars PROVE AvatarInv'
  OBVIOUS
<1>1. ASSUME NEW u \in People, Evict(u) PROVE AvatarInv'
  BY <1>1 DEF Evict, AvatarInv, AvatarTypeOK, DownloadsFit, WrongPictureHasReason, Asked
<1>2. CASE UNCHANGED avatarVars
  BY <1>2 DEF avatarVars, AvatarInv, AvatarTypeOK, DownloadsFit, WrongPictureHasReason, Asked
<1>3. QED
  BY <1>1, <1>2, ShowRowAvatars, ArrivesAvatars, SetImageAvatars DEF AvatarNext

LEMMA AvatarInvariant == AvatarSpec => []AvatarInv
BY InitAvatars, NextAvatars, PTL DEF AvatarSpec

(* A row shows another picture than its user's only for a reason: its own  *)
(* is under way, or the cell was reused meanwhile, or the download failed, *)
(* or there is no URL.  However many cells, users and downloads there are. *)
THEOREM OwnPictures == AvatarSpec => []PicturesAreOwn
<1>1. AvatarInv => PicturesAreOwn
  BY DEF AvatarInv, PicturesAreOwn
<1>2. QED
  BY <1>1, AvatarInvariant, PTL
=============================================================================
