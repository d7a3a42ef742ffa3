----------------------------- MODULE PageProofs ------------------------------
(* Proofs about Theme, for any number of tabs and any choices; then about Page, for any *)
(* names and any number of clicks.                                                      *)
EXTENDS Page, WellFoundedInduction, TLAPS

USE ThemeAssumption

\* A preference other than the system's is painted as it is; a tab that has handled its
\* storage events and shows no choice of its own remembers what it shows, so that it keeps
\* it when storage is denied.
Steady ==
  \A t \in Tab :
    /\ shown[t] # "system" => painted[t] = shown[t]
    /\ news[t] = 0 /\ ~unsaved[t] => memory[t] = shown[t]

IInv == TypeOK /\ Steady /\ TabsFollowStorage

LEMMA ChoiceIsPreference == Choice \subseteq Preferences
  BY DEF Preferences

LEMMA PreferenceType ==
  ASSUME TypeOK, NEW t \in Tab
  PROVE  Preference(t) \in Preferences /\ Valid(stored) \in Preferences
  BY DEF TypeOK, Preference, Valid, Preferences

LEMMA ResolvedType ==
  ASSUME TypeOK, NEW value \in Preferences
  PROVE  Resolved(value) \in Schemes /\ (value # "system" => Resolved(value) = value)
  BY DEF TypeOK, Resolved, Preferences, Schemes

\* What a tab reads once it has heard all, whether from storage or from its memory.
LEMMA PreferenceIsShown ==
  ASSUME IInv, NEW t \in Tab, news[t] = 0, ~unsaved[t]
  PROVE  Preference(t) = shown[t]
  BY DEF IInv, Steady, TabsFollowStorage, Preference

\* A tab after a step that left it alone, or applied a preference to it.
Follows(t) ==
  news[t] = 0 /\ ~unsaved[t] => /\ storage # "denied" => shown[t] = Valid(stored)
                                /\ flipped[t] = "no" => painted[t] = Resolved(shown[t])
Rests(t) ==
  /\ shown[t] # "system" => painted[t] = shown[t]
  /\ news[t] = 0 /\ ~unsaved[t] => memory[t] = shown[t]

LEMMA Tabs ==
  /\ TabsFollowStorage <=> \A t \in Tab : Follows(t)
  /\ Steady <=> \A t \in Tab : Rests(t)
  BY DEF TabsFollowStorage, Steady, Follows, Rests

LEMMA LeftAlone ==
  ASSUME NEW t \in Tab, Follows(t), Rests(t), UNCHANGED <<stored, storage, device>>,
         memory'[t] = memory[t], shown'[t] = shown[t], painted'[t] = painted[t], news'[t] = news[t],
         flipped'[t] = flipped[t], unsaved'[t] = unsaved[t]
  PROVE  Follows(t)' /\ Rests(t)'
  BY DEF Follows, Rests, Valid, Resolved

LEMMA Applied ==
  ASSUME TypeOK, NEW t \in Tab, NEW value \in Preferences, UNCHANGED device,
         shown'[t] = value, painted'[t] = Resolved(value),
         ~unsaved'[t] => memory'[t] = value /\ (storage' # "denied" => value = Valid(stored)')
  PROVE  Follows(t)' /\ Rests(t)'
  BY ResolvedType DEF Follows, Rests, Resolved

LEMMA RefreshType ==
  ASSUME TypeOK, NEW t \in Tab, Refresh(t)
  PROVE  /\ memory' \in [Tab -> Preferences] /\ shown' \in [Tab -> Preferences] /\ painted' \in [Tab -> Schemes]
         /\ control' \in [Tab -> Preferences] /\ unsaved' \in [Tab -> BOOLEAN]
<1>1. memory' \in [Tab -> Preferences] /\ shown' \in [Tab -> Preferences] /\ painted' \in [Tab -> Schemes]
  BY PreferenceType, ResolvedType DEF Refresh, Read, Apply, TypeOK
<1>2. control' \in [Tab -> Preferences]
  BY PreferenceType DEF Refresh, SyncIfReady, TypeOK
<1>3. unsaved' \in [Tab -> BOOLEAN]
  BY DEF Refresh, TypeOK
<1>4. QED
  BY <1>1, <1>2, <1>3

LEMMA TypeOKNext ==
  ASSUME TypeOK, ThemeNext
  PROVE  TypeOK'
<1> USE PreferenceType, ResolvedType, ChoiceIsPreference
<1>0. FirstOption \in Preferences
  BY DEF FirstOption, Preferences
<1>1. ASSUME NEW t \in Tab, Load(t)
      PROVE  TypeOK'
  <2>1. PICK first \in Preferences : memory' = [memory EXCEPT ![t] = first] /\ Apply(t, first)
    BY <1>1 DEF Load, Preferences
  <2>2. memory' \in [Tab -> Preferences] /\ shown' \in [Tab -> Preferences] /\ painted' \in [Tab -> Schemes]
    BY <2>1 DEF Apply, TypeOK
  <2>3. QED
    BY <1>0, <1>1, <2>2 DEF Load, TypeOK
<1>2. ASSUME NEW t \in Tab, DomReady(t) \/ Rebuild(t) \/ (Sync(t) /\ UNCHANGED ready)
      PROVE  TypeOK'
  <2>1. /\ UNCHANGED <<stored, storage, device, shown, painted, news, flipped, unsaved>>
        /\ memory' \in [Tab -> Preferences] /\ control' \in [Tab -> Preferences]
    BY <1>0, <1>2 DEF DomReady, Rebuild, Sync, Read, TypeOK
  <2>2. ready' \in [Tab -> BOOLEAN]
    BY <1>2 DEF DomReady, Rebuild, TypeOK
  <2>3. QED
    BY <2>1, <2>2 DEF TypeOK
<1>3. ASSUME NEW t \in Tab, HearStorage(t)
      PROVE  TypeOK'
  <2>1. news' \in [Tab -> Nat]
    BY <1>3 DEF HearStorage, TypeOK
  <2>2. QED
    BY <1>3, <2>1, RefreshType DEF HearStorage, TypeOK
<1>4. ASSUME NEW t \in Tab, HearDevice(t)
      PROVE  TypeOK'
  <2>1. flipped' \in [Tab -> {"no", "yes", "undone"}]
    BY <1>4 DEF HearDevice, TypeOK
  <2>2. CASE Preference(t) = "system"
    BY <1>4, <2>1, <2>2, RefreshType DEF HearDevice, TypeOK
  <2>3. CASE Preference(t) # "system"
    BY <1>4, <2>1, <2>3 DEF HearDevice, Read, TypeOK
  <2>4. QED
    BY <2>2, <2>3
<1>5. ASSUME NEW t \in Tab, NEW value \in Choice, Choose(t, value)
      PROVE  TypeOK'
  BY <1>5 DEF Choose, Announce, Apply, TypeOK
<1>6. CASE FlipDevice \/ StorageFails
  BY <1>6 DEF FlipDevice, StorageFails, TypeOK
<1>7. QED
  BY <1>1, <1>2, <1>3, <1>4, <1>5, <1>6 DEF ThemeNext, Hear

\* One step, for one tab.
LEMMA TabNext ==
  ASSUME IInv, TypeOK', ThemeNext, NEW u \in Tab
  PROVE  Follows(u)' /\ Rests(u)'
<1> USE PreferenceType, ResolvedType, ChoiceIsPreference
<1>0. TypeOK /\ Follows(u) /\ Rests(u)
  BY Tabs DEF IInv
<1>1. ASSUME NEW t \in Tab, Load(t)
      PROVE  Follows(u)' /\ Rests(u)'
  <2>1. CASE u = t
    <3>1. PICK first \in Preferences : /\ first = IF storage = "denied" THEN "system" ELSE Valid(stored)
                                       /\ memory'[u] = first /\ shown'[u] = first /\ painted'[u] = Resolved(first)
      BY <1>0, <1>1, <2>1 DEF Load, Apply, TypeOK, Preferences
    <3>2. UNCHANGED <<stored, storage, device>>
      BY <1>1 DEF Load
    <3>3. QED
      BY <1>0, <3>1, <3>2, Applied DEF Valid
  <2>2. CASE u # t
    BY <1>0, <1>1, <2>2, LeftAlone DEF Load, Apply, TypeOK
  <2>3. QED
    BY <2>1, <2>2
<1>2. ASSUME NEW t \in Tab, DomReady(t) \/ Rebuild(t) \/ (Sync(t) /\ UNCHANGED ready)
      PROVE  Follows(u)' /\ Rests(u)'
  <2>1. /\ UNCHANGED <<stored, storage, device, shown, painted, news, flipped, unsaved>>
        /\ memory' = memory \/ memory' = [memory EXCEPT ![t] = Preference(t)]
    BY <1>2 DEF DomReady, Rebuild, Sync, Read
  <2>2. news[u] = 0 /\ ~unsaved[u] => memory'[u] = shown[u]
    BY <1>0, <2>1, PreferenceIsShown DEF Rests, TypeOK
  <2>3. QED
    BY <1>0, <2>1, <2>2 DEF Follows, Rests, Valid, Resolved
<1>3. ASSUME NEW t \in Tab, Refresh(t), UNCHANGED <<stored, storage, device>>,
             \A v \in Tab \ {t} : news'[v] = news[v] /\ flipped'[v] = flipped[v]
      PROVE  Follows(u)' /\ Rests(u)'
  <2>1. CASE u = t
    <3>1. memory'[u] = Preference(u) /\ shown'[u] = Preference(u) /\ painted'[u] = Resolved(Preference(u))
      BY <1>0, <1>3, <2>1 DEF Refresh, Read, Apply, TypeOK
    <3>2. storage # "denied" => Preference(u) = Valid(stored)'
      BY <1>3 DEF Preference, Valid
    <3>3. QED
      BY <1>0, <1>3, <3>1, <3>2, Applied
  <2>2. CASE u # t
    BY <1>0, <1>3, <2>2, LeftAlone DEF Refresh, Read, Apply, TypeOK
  <2>3. QED
    BY <2>1, <2>2
<1>4. ASSUME NEW t \in Tab, HearStorage(t)
      PROVE  Follows(u)' /\ Rests(u)'
  BY <1>0, <1>3, <1>4 DEF HearStorage, TypeOK
<1>5. ASSUME NEW t \in Tab, HearDevice(t)
      PROVE  Follows(u)' /\ Rests(u)'
  <2>1. CASE Preference(t) = "system"
    <3>1. Refresh(t) /\ UNCHANGED <<stored, storage, device, news>>
      BY <1>5, <2>1 DEF HearDevice
    <3>2. \A v \in Tab \ {t} : news'[v] = news[v] /\ flipped'[v] = flipped[v]
      BY <1>0, <1>5, <3>1 DEF HearDevice, TypeOK
    <3>3. QED
      BY <1>3, <3>1, <3>2
  <2>2. CASE Preference(t) # "system" /\ u = t
    <3>1. /\ UNCHANGED <<stored, storage, device, shown, painted, news, unsaved>>
          /\ memory'[u] = Preference(u)
      BY <1>0, <1>5, <2>2 DEF HearDevice, Read, TypeOK
    <3>2. news[u] = 0 /\ ~unsaved[u] => Preference(u) = shown[u] /\ painted[u] = shown[u]
      BY <1>0, <2>2, PreferenceIsShown DEF Rests
    <3>3. shown[u] # "system" => Resolved(shown[u])' = shown[u]
      BY <3>1 DEF Resolved
    <3>4. QED
      BY <1>0, <2>2, <3>1, <3>2, <3>3 DEF Follows, Rests, Valid
  <2>3. CASE Preference(t) # "system" /\ u # t
    BY <1>0, <1>5, <2>3, LeftAlone DEF HearDevice, Read, TypeOK
  <2>4. QED
    BY <2>1, <2>2, <2>3
<1>6. ASSUME NEW t \in Tab, NEW value \in Choice, Choose(t, value)
      PROVE  Follows(u)' /\ Rests(u)'
  <2>1. CASE u = t
    <3>1. /\ UNCHANGED <<storage, device>>
          /\ shown'[u] = value /\ painted'[u] = Resolved(value)
          /\ memory'[u] = IF storage = "full" THEN Valid(stored) ELSE value
          /\ ~unsaved'[u] => memory'[u] = value
      BY <1>0, <1>6, <2>1 DEF Choose, Apply, TypeOK
    <3>2. storage = "ok" => Valid(stored)' = value
      BY <1>6 DEF Choose, Valid
    <3>3. storage = "full" => Valid(stored)' = Valid(stored)
      BY <1>6 DEF Choose, Valid
    <3>4. QED
      BY <1>0, <3>1, <3>2, <3>3, Applied DEF TypeOK
  <2>2. CASE u # t
    <3>1. /\ UNCHANGED <<storage, device, flipped>>
          /\ memory'[u] = memory[u] /\ shown'[u] = shown[u] /\ painted'[u] = painted[u] /\ unsaved'[u] = unsaved[u]
      BY <1>0, <1>6, <2>2 DEF Choose, Apply, TypeOK
    <3>2. CASE stored' = stored /\ news' = news
      BY <1>0, <3>1, <3>2, LeftAlone
    <3>3. CASE news'[u] = news[u] + 1
      BY <1>0, <3>1, <3>3 DEF Follows, Rests, TypeOK
    <3>4. QED
      BY <1>6, <2>2, <3>2, <3>3 DEF Choose, Announce
  <2>3. QED
    BY <2>1, <2>2
<1>7. CASE FlipDevice
  BY <1>0, <1>7 DEF FlipDevice, Follows, Rests, Valid, TypeOK
<1>8. CASE StorageFails
  BY <1>0, <1>8 DEF StorageFails, Follows, Rests, Valid, Resolved
<1>9. QED
  BY <1>1, <1>2, <1>4, <1>5, <1>6, <1>7, <1>8 DEF ThemeNext, Hear

LEMMA IInvNext ==
  ASSUME IInv, [ThemeNext]_themeVars
  PROVE  IInv'
<1>1. CASE ThemeNext
  <2>1. TypeOK'
    BY <1>1, TypeOKNext DEF IInv
  <2>2. \A u \in Tab : Follows(u)' /\ Rests(u)'
    BY <1>1, <2>1, TabNext
  <2>3. TabsFollowStorage' /\ Steady'
    BY <2>2 DEF TabsFollowStorage, Steady, Follows, Rests
  <2>4. QED
    BY <2>1, <2>3 DEF IInv
<1>2. CASE UNCHANGED themeVars
  BY <1>2 DEF IInv, themeVars, TypeOK, Steady, TabsFollowStorage, Valid, Resolved
<1>3. QED
  BY <1>1, <1>2

LEMMA IInvInit ==
  ASSUME Init
  PROVE  IInv
<1>1. Valid(stored) \in Preferences /\ stored \in Preferences \cup {"none", "other"}
  BY ChoiceIsPreference DEF Init, Valid, Preferences
<1>2. \A t \in Tab : Resolved(shown[t]) \in Schemes
  BY <1>1 DEF Init, Resolved, Preferences, Schemes
<1>3. TypeOK
  BY <1>1, <1>2 DEF Init, TypeOK, Preferences
<1>4. Steady /\ TabsFollowStorage
  BY <1>1 DEF Init, Steady, TabsFollowStorage, Resolved
<1>5. QED
  BY <1>3, <1>4 DEF IInv

LEMMA IInvHolds == ThemeSpec => []IInv
<1>1. Init => IInv
  BY IInvInit
<1>2. IInv /\ [ThemeNext]_themeVars => IInv'
  BY IInvNext
<1>3. QED
  BY <1>1, <1>2, PTL DEF ThemeSpec

\* A tab that has handled its storage events, and shows no choice that could not be stored,
\* shows what is stored in the device's colours, however many tabs there are.
THEOREM ThemeFollowsStorage == ThemeSpec => []TabsFollowStorage
<1>1. IInv => TabsFollowStorage
  BY DEF IInv
<1>2. QED
  BY <1>1, IInvHolds, PTL

\* Such a tab also remembers what it shows: when storage is denied from then on, reading the
\* preference changes nothing on the page (get, in theme-init.js).
THEOREM ThemeRemembers == ThemeSpec => []Steady
<1>1. IInv => Steady
  BY DEF IInv
<1>2. QED
  BY <1>1, IInvHolds, PTL

\* Only a new document, a choice in the page or a storage event changes what it shows: no
\* change of the device and no failure of the storage does.
THEOREM ThemeChoiceSticks == ThemeSpec => ChoiceSticks
<1>1. ASSUME IInv, ThemeNext, NEW t \in Tab, ~unsaved[t]
      PROVE  Sticks(t)
  <2>1. SUFFICES ASSUME shown'[t] # shown[t], news[t] = 0, ~Load(t), ~(\E value \in Choice : Choose(t, value))
                 PROVE  FALSE
    BY <1>1 DEF Sticks, IInv, TypeOK
  <2>2. Preference(t) = shown[t]
    BY <1>1, <2>1, PreferenceIsShown
  <2>3. \A u \in Tab : HearStorage(u) => u # t
    BY <2>1 DEF HearStorage
  <2>4. shown \in [Tab -> Preferences]
    BY <1>1 DEF IInv, TypeOK
  <2>5. \A u \in Tab : ~HearDevice(u) /\ ~HearStorage(u)
    BY <2>1, <2>2, <2>3, <2>4 DEF HearDevice, HearStorage, Refresh, Apply
  <2>6. \A u \in Tab : ~Load(u) /\ \A value \in Choice : ~Choose(u, value)
    BY <2>1, <2>4 DEF Load, Choose, Apply
  <2>7. QED
    BY <1>1, <2>1, <2>5, <2>6 DEF ThemeNext, Hear, DomReady, Rebuild, Sync, FlipDevice, StorageFails
<1>2. IInv /\ [ThemeNext]_themeVars => [\A t \in Tab : ~unsaved[t] => Sticks(t)]_themeVars
  BY <1>1
<1>3. QED
  BY <1>2, IInvHolds, PTL DEF ThemeSpec, ChoiceSticks
-----------------------------------------------------------------------------
(* Page: the theme. *)

\* Whatever happens to the pages of a tab is a step of the theme, or none.
LEMMA PageStepsTheme ==
  ASSUME [PageNext]_vars
  PROVE  [ThemeNext]_themeVars
<1>1. CASE ThemeStep
  BY <1>1 DEF ThemeStep, ThemeNext
<1>2. ASSUME NEW p \in Pages, LoadPage(p) \/ Boost(p) \/ Restore(p) \/ RestoreMissed(p)
      PROVE  ThemeNext
  BY <1>2, PageAssumption DEF LoadPage, Boost, Restore, RestoreMissed, ThemeNext
<1>3. CASE PageReady
  BY <1>3, PageAssumption DEF PageReady, ThemeNext
<1>4. CASE \/ \E mode \in {"app", "all"} : ChooseFrames(mode)
           \/ ClickCopy \/ Copied \/ CopyFails \/ FeedbackEnds
           \/ \E name \in Name : TypeName(name) \/ TypeSlug(name)
  BY <1>4 DEF ChooseFrames, ClickCopy, Copied, CopyFails, FeedbackEnds, TypeName, TypeSlug
<1>5. CASE UNCHANGED vars
  BY <1>5 DEF vars
<1>6. QED
  BY <1>1, <1>2, <1>3, <1>4, <1>5 DEF PageNext, PageStep

\* The pages of a tab, with all that is done on them, use the theme as Theme says tabs do.
THEOREM PageIsTheme == Spec => ThemeSpec
<1>1. PageInit => Init
  BY DEF PageInit
<1>2. [PageNext]_vars => [ThemeNext]_themeVars
  BY PageStepsTheme
<1>3. QED
  BY <1>1, <1>2, PTL DEF Spec, ThemeSpec

\* So a tab follows the storage, whichever pages it goes to and comes back from.
THEOREM PageFollowsStorage == Spec => []TabsFollowStorage
  BY PageIsTheme, ThemeFollowsStorage, PTL

\* And no navigation changes what a tab shows.
THEOREM PageChoiceSticks == Spec => ChoiceSticks
  BY PageIsTheme, ThemeChoiceSticks, PTL
-----------------------------------------------------------------------------
(* What a recursive function over the characters of a name computes: it exists, because each *)
(* of its values is made of the one before.                                                  *)

LEMMA Induction ==
  ASSUME NEW S, 0 \in S, \A n \in Nat : n \in S => n + 1 \in S
  PROVE  Nat \subseteq S
<1>1. SUFFICES ASSUME NEW T, T = Nat \ S, T # {}
               PROVE  FALSE
  OBVIOUS
<1>2. PICK n \in T : \A m \in T : <<m, n>> \notin OpToRel(<, Nat)
  BY <1>1, WFMin, NatLessThanWellFounded
<1>3. \A m \in T : ~(m < n)
  BY <1>1, <1>2 DEF OpToRel
<1>4. n \in Nat \ {0}
  BY <1>1
<1>5. n - 1 \in Nat /\ n - 1 < n /\ n = (n - 1) + 1
  BY <1>4
<1>6. QED
  BY <1>1, <1>3, <1>5

Steps(f, S, base, N, step) ==
  f \in [0 .. N -> S] /\ f[0] = base /\ \A n \in 1 .. N : f[n] = step[n][f[n - 1]]

LEMMA Recursion ==
  ASSUME NEW S, NEW base \in S, NEW N \in Nat, NEW step \in [1 .. N -> [S -> S]]
  PROVE  \E f : Steps(f, S, base, N, step)
<1> DEFINE Reads(f, n) == f[0] = base /\ \A m \in 1 .. n : f[m] = step[m][f[m - 1]]
           P == {n \in Nat : n <= N => \E f \in [0 .. n -> S] : Reads(f, n)}
<1>1. 0 \in P
  <2>1. [m \in 0 .. 0 |-> base] \in [0 .. 0 -> S] /\ Reads([m \in 0 .. 0 |-> base], 0)
    OBVIOUS
  <2>2. QED
    BY <2>1
<1>2. ASSUME NEW n \in Nat, n \in P
      PROVE  n + 1 \in P
  <2>1. SUFFICES ASSUME n + 1 <= N
                 PROVE  \E f \in [0 .. n + 1 -> S] : Reads(f, n + 1)
    OBVIOUS
  <2>2. PICK f \in [0 .. n -> S] : Reads(f, n)
    BY <1>2, <2>1
  <2> DEFINE g == [m \in 0 .. n + 1 |-> IF m = n + 1 THEN step[n + 1][f[n]] ELSE f[m]]
  <2>3. step[n + 1][f[n]] \in S
    BY <2>1
  <2>4. g \in [0 .. n + 1 -> S]
    BY <2>3
  <2>5. Reads(g, n + 1)
    BY <2>2
  <2>6. QED
    BY <2>4, <2>5
<1>3. N \in P
  <2> HIDE DEF P
  <2>1. QED
    BY <1>1, <1>2, Induction
<1>4. QED
  BY <1>3 DEF Steps

Letters == {"a", "-"}
Reading == [slug : Seq(Letters), pending : BOOLEAN]
NothingRead == [slug |-> <<>>, pending |-> FALSE]

LEMMA SlugStepType ==
  ASSUME NEW room \in Nat, NEW acc \in Reading, NEW ch \in Letters
  PROVE  SlugStep(room, acc, ch) \in Reading
<1>1. acc.slug \in Seq(Letters) /\ acc.pending \in BOOLEAN /\ "-" \in Letters
  BY DEF Reading, Letters
<1>2. <<ch>> \in Seq(Letters) /\ <<"-", ch>> \in Seq(Letters)
  BY <1>1
<1>3. acc.slug \o <<ch>> \in Seq(Letters) /\ acc.slug \o <<"-", ch>> \in Seq(Letters)
  BY <1>1, <1>2
<1>4. QED
  BY <1>1, <1>3 DEF SlugStep, Reading

\* slugify reads a name character by character.
LEMMA SlugReads ==
  ASSUME NEW room \in Nat, NEW name \in Seq(Letters)
  PROVE  \E f \in [0 .. Len(name) -> Reading] :
           /\ f[0] = NothingRead
           /\ \A n \in 1 .. Len(name) : f[n] = SlugStep(room, f[n - 1], name[n])
           /\ SlugWith(room, name) = f[Len(name)].slug
<1> DEFINE N == Len(name)
           Fn(g, n) == IF n = 0 THEN [slug |-> <<>>, pending |-> FALSE] ELSE SlugStep(room, g[n - 1], name[n])
           IsRead(g) == g = [n \in 0 .. N |-> Fn(g, n)]
           read == CHOOSE g : IsRead(g)
<1>1. SlugWith(room, name) = read[N].slug
  BY DEF SlugWith
<1>2. N \in Nat /\ NothingRead \in Reading /\ \A n \in 1 .. N : name[n] \in Letters
  BY DEF NothingRead, Reading
<1>3. PICK f \in [0 .. N -> Reading] : f[0] = NothingRead /\ \A n \in 1 .. N : f[n] = SlugStep(room, f[n - 1], name[n])
  <2> DEFINE step == [n \in 1 .. N |-> [acc \in Reading |-> SlugStep(room, acc, name[n])]]
  <2>1. \A n \in 1 .. N, acc \in Reading : step[n][acc] = SlugStep(room, acc, name[n])
    OBVIOUS
  <2>2. step \in [1 .. N -> [Reading -> Reading]]
    BY <1>2, SlugStepType
  <2> HIDE DEF step, N
  <2>3. PICK f : f \in [0 .. N -> Reading] /\ f[0] = NothingRead /\ \A n \in 1 .. N : f[n] = step[n][f[n - 1]]
    <3>1. \E f : Steps(f, Reading, NothingRead, N, step)
      BY <1>2, <2>2, Recursion
    <3>2. QED
      BY <3>1 DEF Steps
  <2>4. \A n \in 1 .. N : f[n - 1] \in Reading
    BY <1>2, <2>3
  <2>5. \A n \in 1 .. N : step[n][f[n - 1]] = SlugStep(room, f[n - 1], name[n])
    BY <2>1, <2>4
  <2>6. QED
    BY <2>3, <2>5
<1>4. IsRead(f)
  <2> HIDE DEF N
  <2>1. \A n \in 0 .. N : f[n] = Fn(f, n)
    BY <1>2, <1>3 DEF NothingRead
  <2> HIDE DEF Fn
  <2>2. QED
    BY <1>3, <2>1
<1> HIDE DEF IsRead
<1>5. IsRead(read)
  BY <1>4
<1> USE DEF IsRead
<1>6. read[0] = NothingRead /\ \A n \in 1 .. N : read[n] = SlugStep(room, read[n - 1], name[n])
  <2> HIDE DEF read, N
  <2>1. \A n \in 0 .. N : read[n] = Fn(read, n)
    <3> HIDE DEF Fn
    <3>1. QED
      BY <1>5
  <2>2. QED
    BY <1>2, <2>1 DEF NothingRead
<1>7. read \in [0 .. N -> Reading]
  <2> HIDE DEF read, N, IsRead
  <2> DEFINE P == {n \in Nat : n <= N => read[n] \in Reading}
  <2>1. 0 \in P
    BY <1>2, <1>6
  <2>2. ASSUME NEW n \in Nat, n \in P
        PROVE  n + 1 \in P
    <3>1. SUFFICES ASSUME n + 1 \in 1 .. N
                   PROVE  read[n + 1] \in Reading
      BY <1>2
    <3>2. read[n] \in Reading /\ name[n + 1] \in Letters /\ read[n + 1] = SlugStep(room, read[n], name[n + 1])
      BY <1>2, <1>6, <2>2, <3>1
    <3>3. QED
      BY <3>2, SlugStepType
  <2>3. Nat \subseteq P
    <3> HIDE DEF P
    <3>1. QED
      BY <2>1, <2>2, Induction
  <2>4. \A n \in 0 .. N : read[n] \in Reading
    BY <1>2, <2>3
  <2>5. read = [n \in 0 .. N |-> Fn(read, n)]
    BY <1>5 DEF IsRead
  <2> HIDE DEF Fn
  <2>6. QED
    BY <2>4, <2>5
<1>8. QED
  BY <1>1, <1>6, <1>7

\* The page replaces what is no letter, from one character to the next.
LEMMA HyphenReads ==
  ASSUME NEW name \in Seq(Letters)
  PROVE  \E f \in [0 .. Len(name) -> Seq(Letters)] :
           /\ f[0] = <<>>
           /\ \A n \in 1 .. Len(name) : f[n] = HyphenStep(name, n, f[n - 1])
           /\ Kebab(name) = Trimmed(f[Len(name)])
<1> DEFINE N == Len(name)
           Fn(g, n) == IF n = 0 THEN <<>> ELSE HyphenStep(name, n, g[n - 1])
           IsRead(g) == g = [n \in 0 .. N |-> Fn(g, n)]
           read == CHOOSE g : IsRead(g)
<1>1. Kebab(name) = Trimmed(read[N])
  BY DEF Kebab
<1>2. N \in Nat /\ <<>> \in Seq(Letters) /\ \A n \in 1 .. N : name[n] \in Letters
  OBVIOUS
<1>3. PICK f : f \in [0 .. N -> Seq(Letters)] /\ f[0] = <<>> /\ \A n \in 1 .. N : f[n] = HyphenStep(name, n, f[n - 1])
  <2> DEFINE step == [n \in 1 .. N |-> [text \in Seq(Letters) |-> HyphenStep(name, n, text)]]
  <2>1. \A n \in 1 .. N, text \in Seq(Letters) : step[n][text] = HyphenStep(name, n, text)
    OBVIOUS
  <2>2. step \in [1 .. N -> [Seq(Letters) -> Seq(Letters)]]
    <3>1. \A n \in 1 .. N, text \in Seq(Letters) : HyphenStep(name, n, text) \in Seq(Letters)
      BY <1>2 DEF HyphenStep
    <3>2. QED
      BY <3>1
  <2> HIDE DEF step, N
  <2>3. PICK f : f \in [0 .. N -> Seq(Letters)] /\ f[0] = <<>> /\ \A n \in 1 .. N : f[n] = step[n][f[n - 1]]
    <3>1. \E g : Steps(g, Seq(Letters), <<>>, N, step)
      BY <1>2, <2>2, Recursion
    <3>2. QED
      BY <3>1 DEF Steps
  <2>4. \A n \in 1 .. N : f[n - 1] \in Seq(Letters)
    BY <1>2, <2>3
  <2>5. \A n \in 1 .. N : step[n][f[n - 1]] = HyphenStep(name, n, f[n - 1])
    BY <2>1, <2>4
  <2>6. QED
    BY <2>3, <2>5
<1>4. IsRead(f)
  <2> HIDE DEF N
  <2>1. \A n \in 0 .. N : f[n] = Fn(f, n)
    BY <1>2, <1>3
  <2> HIDE DEF Fn
  <2>2. QED
    BY <1>3, <2>1
<1> HIDE DEF IsRead
<1>5. IsRead(read)
  BY <1>4
<1> USE DEF IsRead
<1>6. read[0] = <<>> /\ \A n \in 1 .. N : read[n] = HyphenStep(name, n, read[n - 1])
  <2> HIDE DEF read, N
  <2>1. \A n \in 0 .. N : read[n] = Fn(read, n)
    <3> HIDE DEF Fn
    <3>1. QED
      BY <1>5
  <2>2. QED
    BY <1>2, <2>1
<1>7. read \in [0 .. N -> Seq(Letters)]
  <2> HIDE DEF read, N, IsRead
  <2> DEFINE P == {n \in Nat : n <= N => read[n] \in Seq(Letters)}
  <2>1. 0 \in P
    BY <1>2, <1>6
  <2>2. ASSUME NEW n \in Nat, n \in P
        PROVE  n + 1 \in P
    <3>1. SUFFICES ASSUME n + 1 \in 1 .. N
                   PROVE  read[n + 1] \in Seq(Letters)
      BY <1>2
    <3>2. read[n] \in Seq(Letters) /\ name[n + 1] \in Letters /\ read[n + 1] = HyphenStep(name, n + 1, read[n])
      BY <1>2, <1>6, <2>2, <3>1
    <3>3. QED
      BY <3>2 DEF HyphenStep
  <2>3. Nat \subseteq P
    <3> HIDE DEF P
    <3>1. QED
      BY <2>1, <2>2, Induction
  <2>4. \A n \in 0 .. N : read[n] \in Seq(Letters)
    BY <1>2, <2>3
  <2>5. read = [n \in 0 .. N |-> Fn(read, n)]
    BY <1>5 DEF IsRead
  <2> HIDE DEF Fn
  <2>6. QED
    BY <2>4, <2>5
<1>8. QED
  BY <1>1, <1>6, <1>7

\* A slug that starts and ends with a letter, if it has any.
Bare(slug) == slug \in Seq(Letters) /\ (slug # <<>> => slug[1] = "a" /\ slug[Len(slug)] = "a")

LEMMA BareGrows ==
  ASSUME NEW slug, Bare(slug)
  PROVE  Bare(slug \o <<"a">>) /\ (slug # <<>> => Bare(slug \o <<"-", "a">>))
<1>1. slug \in Seq(Letters) /\ Len(slug) \in Nat /\ "a" \in Letters /\ "-" \in Letters
  BY DEF Bare, Letters
<1>2. Bare(slug \o <<"a">>)
  <2>1. slug \o <<"a">> \in Seq(Letters) /\ Len(slug \o <<"a">>) = Len(slug) + 1
    BY <1>1
  <2>2. (slug \o <<"a">>)[Len(slug) + 1] = "a"
    BY <1>1
  <2>3. slug # <<>> => (slug \o <<"a">>)[1] = slug[1]
    BY <1>1
  <2>4. slug = <<>> => Len(slug) + 1 = 1
    BY <1>1
  <2>5. QED
    BY <2>1, <2>2, <2>3, <2>4 DEF Bare
<1>3. ASSUME slug # <<>>
      PROVE  Bare(slug \o <<"-", "a">>)
  <2>1. slug \o <<"-", "a">> \in Seq(Letters) /\ Len(slug \o <<"-", "a">>) = Len(slug) + 2
    BY <1>1
  <2>2. (slug \o <<"-", "a">>)[Len(slug) + 2] = "a" /\ (slug \o <<"-", "a">>)[1] = slug[1]
    BY <1>1, <1>3
  <2>3. QED
    BY <1>3, <2>1, <2>2 DEF Bare
<1>4. QED
  BY <1>2, <1>3

LEMMA BareSteps ==
  ASSUME NEW acc \in Reading, Bare(acc.slug), Len(acc.slug) <= SlugMax, NEW ch \in Letters
  PROVE  Bare(SlugStep(2, acc, ch).slug) /\ Len(SlugStep(2, acc, ch).slug) <= SlugMax
<1>1. acc.slug \in Seq(Letters) /\ Len(acc.slug) \in Nat /\ SlugMax \in Nat
  BY PageAssumption DEF Reading
<1>2. CASE ch = "-"
  BY <1>2 DEF SlugStep, Reading
<1>3. CASE ch # "-" /\ Len(acc.slug) = SlugMax
  BY <1>3 DEF SlugStep
<1>4. CASE ch # "-" /\ Len(acc.slug) # SlugMax
  <2>1. ch = "a" /\ Len(acc.slug) + 1 <= SlugMax
    BY <1>1, <1>4 DEF Letters
  <2>2. \/ SlugStep(2, acc, ch).slug = acc.slug \o <<"a">>
        \/ acc.slug # <<>> /\ Len(acc.slug) + 2 <= SlugMax /\ SlugStep(2, acc, ch).slug = acc.slug \o <<"-", "a">>
    BY <1>4, <2>1 DEF SlugStep
  <2>3. Len(acc.slug \o <<"a">>) = Len(acc.slug) + 1 /\ Len(acc.slug \o <<"-", "a">>) = Len(acc.slug) + 2
    BY <1>1
  <2>4. QED
    BY <2>1, <2>2, <2>3, BareGrows
<1>5. QED
  BY <1>2, <1>3, <1>4

LEMMA SlugifyIsBare ==
  ASSUME NEW name \in Seq(Letters)
  PROVE  Bare(Slugify(name)) /\ Len(Slugify(name)) <= SlugMax
<1>1. PICK f \in [0 .. Len(name) -> Reading] :
        /\ f[0] = NothingRead
        /\ \A n \in 1 .. Len(name) : f[n] = SlugStep(2, f[n - 1], name[n])
        /\ SlugWith(2, name) = f[Len(name)].slug
  BY SlugReads
<1> DEFINE P == {n \in Nat : n <= Len(name) => Bare(f[n].slug) /\ Len(f[n].slug) <= SlugMax}
<1>2. 0 \in P
  <2>1. f[0].slug = <<>>
    BY <1>1 DEF NothingRead
  <2>2. <<>> \in Seq(Letters) /\ Len(<<>>) = 0 /\ 0 <= SlugMax
    BY PageAssumption
  <2>3. QED
    BY <2>1, <2>2 DEF Bare
<1>3. ASSUME NEW n \in Nat, n \in P
      PROVE  n + 1 \in P
  <2>1. SUFFICES ASSUME n + 1 \in 1 .. Len(name)
                 PROVE  Bare(f[n + 1].slug) /\ Len(f[n + 1].slug) <= SlugMax
    OBVIOUS
  <2>2. f[n] \in Reading /\ name[n + 1] \in Letters /\ f[n + 1] = SlugStep(2, f[n], name[n + 1])
    BY <1>1, <2>1
  <2>3. Bare(f[n].slug) /\ Len(f[n].slug) <= SlugMax
    BY <1>3, <2>1
  <2>4. QED
    BY <2>2, <2>3, BareSteps
<1>4. Nat \subseteq P
  <2> HIDE DEF P
  <2>1. QED
    BY <1>2, <1>3, Induction
<1>5. Len(name) \in P
  <2>1. Len(name) \in Nat
    OBVIOUS
  <2> HIDE DEF P
  <2>2. QED
    BY <1>4, <2>1
<1>6. QED
  BY <1>1, <1>5 DEF Slugify

\* slugify: whatever the name, the slug is one validate_slug accepts, or shorter than two.
THEOREM SlugifyIsValid ==
  ASSUME NEW name \in Seq(Letters)
  PROVE  Len(Slugify(name)) < 2 \/ ValidSlug(Slugify(name))
<1>1. Bare(Slugify(name)) /\ Len(Slugify(name)) <= SlugMax /\ Len(Slugify(name)) \in Nat
  BY SlugifyIsBare DEF Bare
<1>2. QED
  BY <1>1, PageAssumption DEF Bare, ValidSlug

-----------------------------------------------------------------------------
(* The two make the same slug of a name, unless it must be cut. *)

\* The page has the slug between a hyphen it will take off the front, if there was no letter
\* at first, and one it will take off the end, if the last character was no letter; the server
\* has the slug, as long as it fits, and knows whether a separator waits.
Pair(waits, text, acc, slug, lead) ==
  /\ Bare(slug) /\ lead \in {<<>>, <<"-">>}
  /\ text = lead \o (IF waits /\ slug # <<>> THEN Append(slug, "-") ELSE slug)
  /\ Len(slug) <= SlugMax => acc = [slug |-> slug, pending |-> waits]

\* The first letter ends the hyphens at the front.
Same(read, waits, text, acc) ==
  \E slug, lead \in Seq(Letters) :
    /\ Pair(waits, text, acc, slug, lead)
    /\ slug = <<>> => IF read THEN waits /\ lead = <<"-">> ELSE lead = <<>>

LEMMA SlugStepOf ==
  ASSUME NEW slug \in Seq(Letters), NEW waits \in BOOLEAN
  PROVE  /\ SlugStep(2, [slug |-> slug, pending |-> waits], "-") = [slug |-> slug, pending |-> TRUE]
         /\ Len(slug) # SlugMax /\ (waits /\ slug # <<>> => Len(slug) + 2 <= SlugMax) =>
              SlugStep(2, [slug |-> slug, pending |-> waits], "a") =
                [slug |-> IF waits /\ slug # <<>> THEN slug \o <<"-", "a">> ELSE slug \o <<"a">>, pending |-> FALSE]
  BY DEF SlugStep

LEMMA AppendAfter ==
  ASSUME NEW s \in Seq(Letters), NEW u \in Seq(Letters), NEW ch \in Letters
  PROVE  Append(s \o u, ch) = s \o Append(u, ch)
  OBVIOUS

LEMMA AppendTwo ==
  ASSUME NEW u \in Seq(Letters)
  PROVE  /\ Append(u, "a") = u \o <<"a">> /\ Append(Append(u, "-"), "a") = u \o <<"-", "a">>
         /\ Append(u, "-") \in Seq(Letters) /\ Append(u, "a") \in Seq(Letters)
         /\ u \o <<"a">> \in Seq(Letters) /\ u \o <<"-", "a">> \in Seq(Letters)
         /\ Len(u \o <<"a">>) = Len(u) + 1 /\ Len(u \o <<"-", "a">>) = Len(u) + 2 /\ Len(u) \in Nat
<1>1. "a" \in Letters /\ "-" \in Letters
  BY DEF Letters
<1>2. Append(Append(u, "-"), "a") = u \o <<"-", "a">>
  <2> DEFINE v == Append(u, "-")
             l == Append(v, "a")
             r == u \o <<"-", "a">>
  <2>1. v \in Seq(Letters) /\ Len(v) = Len(u) + 1 /\ v[Len(u) + 1] = "-" /\ \A i \in 1 .. Len(u) : v[i] = u[i]
    BY <1>1
  <2>2. /\ l \in Seq(Letters) /\ Len(l) = Len(v) + 1 /\ l[Len(v) + 1] = "a" /\ \A i \in 1 .. Len(v) : l[i] = v[i]
    <3> HIDE DEF v
    <3>1. QED
      BY <1>1, <2>1
  <2>3. /\ r \in Seq(Letters) /\ Len(r) = Len(u) + 2 /\ r[Len(u) + 1] = "-" /\ r[Len(u) + 2] = "a"
        /\ \A i \in 1 .. Len(u) : r[i] = u[i]
    BY <1>1
  <2> HIDE DEF v, l, r
  <2>4. Len(u) \in Nat /\ Len(l) = Len(r) /\ \A i \in 1 .. Len(l) : l[i] = r[i]
    BY <2>1, <2>2, <2>3
  <2>5. l = r
    BY <2>2, <2>3, <2>4
  <2>6. QED
    BY <2>5 DEF l, r, v
<1>3. QED
  BY <1>1, <1>2

\* A separator.
LEMMA SameSeparator ==
  ASSUME NEW read \in BOOLEAN, NEW waits \in BOOLEAN, waits => read, NEW text, NEW acc, Same(read, waits, text, acc)
  PROVE  Same(TRUE, TRUE, IF waits THEN text ELSE Append(text, "-"), SlugStep(2, acc, "-"))
<1>1. PICK slug \in Seq(Letters), lead \in Seq(Letters) :
        /\ Pair(waits, text, acc, slug, lead)
        /\ slug = <<>> => IF read THEN waits /\ lead = <<"-">> ELSE lead = <<>>
  BY DEF Same
<1>2. Len(slug) <= SlugMax => SlugStep(2, acc, "-") = [slug |-> slug, pending |-> TRUE]
  BY <1>1, SlugStepOf DEF Pair
<1>3. "-" \in Letters /\ <<"-">> \in Seq(Letters)
  BY DEF Letters
<1>4. CASE waits
  <2>1. Pair(TRUE, text, SlugStep(2, acc, "-"), slug, lead)
    BY <1>1, <1>2, <1>4 DEF Pair
  <2>2. QED
    BY <1>1, <1>4, <2>1 DEF Same
<1>5. CASE ~waits /\ slug # <<>>
  <2>1. Append(text, "-") = lead \o Append(slug, "-")
    BY <1>1, <1>3, <1>5, AppendAfter DEF Pair
  <2>2. Pair(TRUE, Append(text, "-"), SlugStep(2, acc, "-"), slug, lead)
    BY <1>1, <1>2, <1>5, <2>1 DEF Pair
  <2>3. QED
    BY <1>5, <2>2 DEF Same
<1>6. CASE ~waits /\ slug = <<>>
  <2>1. lead = <<>> /\ text = lead \o slug
    BY <1>1, <1>6 DEF Pair
  <2>2. Append(text, "-") = <<"-">> \o slug
    BY <1>3, <1>6, <2>1
  <2>3. Pair(TRUE, Append(text, "-"), SlugStep(2, acc, "-"), slug, <<"-">>)
    BY <1>1, <1>2, <1>6, <2>2 DEF Pair
  <2>4. QED
    BY <1>3, <1>6, <2>3 DEF Same
<1>7. QED
  BY <1>4, <1>5, <1>6

\* A letter.
LEMMA SameLetter ==
  ASSUME NEW read \in BOOLEAN, NEW waits \in BOOLEAN, NEW text, NEW acc, Same(read, waits, text, acc)
  PROVE  Same(TRUE, FALSE, Append(text, "a"), SlugStep(2, acc, "a"))
<1>1. PICK slug \in Seq(Letters), lead \in Seq(Letters) : Pair(waits, text, acc, slug, lead)
  BY DEF Same
<1>2. PICK next : next = IF waits /\ slug # <<>> THEN slug \o <<"-", "a">> ELSE slug \o <<"a">>
  OBVIOUS
<1>3. "a" \in Letters /\ Append(slug, "-") \in Seq(Letters) /\ Len(slug) \in Nat /\ SlugMax \in Nat
  BY AppendTwo, PageAssumption DEF Letters
<1>4. Append(text, "a") = lead \o next
  <2>1. CASE waits /\ slug # <<>>
    <3>1. Append(text, "a") = lead \o Append(Append(slug, "-"), "a")
      BY <1>1, <1>3, <2>1, AppendAfter DEF Pair
    <3>2. QED
      BY <1>2, <2>1, <3>1, AppendTwo
  <2>2. CASE ~(waits /\ slug # <<>>)
    <3>1. Append(text, "a") = lead \o Append(slug, "a")
      BY <1>1, <1>3, <2>2, AppendAfter DEF Pair
    <3>2. QED
      BY <1>2, <2>2, <3>1, AppendTwo
  <2>3. QED
    BY <2>1, <2>2
<1>5. Bare(next) /\ next \in Seq(Letters) /\ Len(next) = Len(slug) + (IF waits /\ slug # <<>> THEN 2 ELSE 1)
  <2>1. Bare(next)
    BY <1>1, <1>2, BareGrows DEF Pair
  <2>2. QED
    BY <1>2, <2>1, AppendTwo
<1>6. ASSUME Len(next) <= SlugMax
      PROVE  SlugStep(2, acc, "a") = [slug |-> next, pending |-> FALSE]
  <2>1. Len(slug) <= SlugMax /\ Len(slug) # SlugMax /\ (waits /\ slug # <<>> => Len(slug) + 2 <= SlugMax)
    BY <1>3, <1>5, <1>6
  <2>2. QED
    BY <1>1, <1>2, <2>1, SlugStepOf DEF Pair
<1>7. next # <<>> /\ Pair(FALSE, Append(text, "a"), SlugStep(2, acc, "a"), next, lead)
  <2>1. next # <<>>
    BY <1>3, <1>5
  <2>2. QED
    BY <1>1, <1>4, <1>5, <1>6, <2>1 DEF Pair
<1>8. QED
  BY <1>5, <1>7 DEF Same

\* Whatever is before and after the slug, the page takes it off.
LEMMA TrimmedPart ==
  ASSUME NEW text \in Seq(Letters), NEW slug \in Seq(Letters), Bare(slug), slug # <<>>,
         NEW before \in {0, 1}, NEW after \in {0, 1},
         Len(text) = before + Len(slug) + after,
         \A i \in 1 .. Len(slug) : text[before + i] = slug[i],
         before = 1 => text[1] = "-", after = 1 => text[Len(text)] = "-"
  PROVE  Trimmed(text) = slug
<1>1. Len(slug) \in Nat /\ Len(slug) > 0 /\ text # <<>> /\ Len(text) \in Nat
  OBVIOUS
<1>2. slug[1] = "a" /\ slug[Len(slug)] = "a"
  BY DEF Bare
<1>3. text[1] = "-" <=> before = 1
  BY <1>1, <1>2
<1>4. text[Len(text)] = "-" <=> after = 1
  <2>1. CASE after = 0
    <3>1. Len(text) = before + Len(slug) /\ Len(slug) \in 1 .. Len(slug)
      BY <1>1, <2>1
    <3>2. QED
      BY <1>2, <2>1, <3>1
  <2>2. QED
    BY <2>1
<1>5. Trimmed(text) = SubSeq(text, before + 1, before + Len(slug))
  <2>1. PICK first, last :
          /\ first = IF text # <<>> /\ text[1] = "-" THEN 2 ELSE 1
          /\ last = IF text # <<>> /\ text[Len(text)] = "-" THEN Len(text) - 1 ELSE Len(text)
    OBVIOUS
  <2>2. Trimmed(text) = SubSeq(text, first, last)
    BY <2>1 DEF Trimmed
  <2>3. first = before + 1
    BY <1>1, <1>3, <2>1
  <2>4. last = before + Len(slug)
    BY <1>1, <1>4, <2>1
  <2>5. QED
    BY <2>2, <2>3, <2>4
<1>6. Len(SubSeq(text, before + 1, before + Len(slug))) = Len(slug)
      /\ SubSeq(text, before + 1, before + Len(slug)) \in Seq(Letters)
  BY <1>1
<1>7. \A i \in 1 .. Len(slug) : SubSeq(text, before + 1, before + Len(slug))[i] = slug[i]
  BY <1>1
<1>8. QED
  BY <1>5, <1>6, <1>7

LEMMA TrimmedSlug ==
  ASSUME NEW slug \in Seq(Letters), Bare(slug), NEW lead \in {<<>>, <<"-">>}
  PROVE  /\ Trimmed(lead \o slug) = slug
         /\ slug # <<>> => Trimmed(lead \o Append(slug, "-")) = slug
<1>1. "-" \in Letters /\ Len(slug) \in Nat /\ lead \in Seq(Letters) /\ lead \o slug \in Seq(Letters)
  <2>1. "-" \in Letters
    BY DEF Letters
  <2>2. <<>> \in Seq(Letters) /\ <<"-">> \in Seq(Letters)
    BY <2>1
  <2>3. lead \in Seq(Letters)
    BY <2>2
  <2>4. QED
    BY <2>1, <2>3
<1>2. PICK before \in {0, 1} : Len(lead) = before /\ (before = 1 => lead = <<"-">>) /\ (before = 0 => lead = <<>>)
  <2>1. Len(<<"-">>) = 1 /\ Len(<<>>) = 0
    OBVIOUS
  <2>2. QED
    BY <2>1
<1>3. CASE slug = <<>>
  <2>1. lead \o slug = lead
    BY <1>1, <1>3
  <2>2. Trimmed(<<>>) = <<>>
    BY DEF Trimmed
  <2>3. Trimmed(<<"-">>) = <<>>
    BY DEF Trimmed
  <2>4. QED
    BY <1>3, <2>1, <2>2, <2>3
<1>4. ASSUME slug # <<>>
      PROVE  Trimmed(lead \o slug) = slug
  <2>1. /\ Len(lead \o slug) = before + Len(slug) + 0
        /\ \A i \in 1 .. Len(slug) : (lead \o slug)[before + i] = slug[i]
        /\ before = 1 => (lead \o slug)[1] = "-"
    BY <1>1, <1>2
  <2>2. PICK text \in Seq(Letters), after \in {0, 1} : text = lead \o slug /\ after = 0
    BY <1>1
  <2>3. Len(text) = before + Len(slug) + after /\ (\A i \in 1 .. Len(slug) : text[before + i] = slug[i])
    BY <2>1, <2>2
  <2>4. (before = 1 => text[1] = "-") /\ (after = 1 => text[Len(text)] = "-")
    BY <2>1, <2>2
  <2>5. Trimmed(text) = slug
    BY <1>4, <2>3, <2>4, TrimmedPart
  <2>6. QED
    BY <2>2, <2>5
<1>5. ASSUME slug # <<>>
      PROVE  Trimmed(lead \o Append(slug, "-")) = slug
  <2>1. PICK more \in Seq(Letters) :
          /\ more = Append(slug, "-") /\ Len(more) = Len(slug) + 1 /\ more[Len(slug) + 1] = "-"
          /\ \A i \in 1 .. Len(slug) : more[i] = slug[i]
    <3>1. /\ Append(slug, "-") \in Seq(Letters)
          /\ Len(Append(slug, "-")) = Len(slug) + 1 /\ Append(slug, "-")[Len(slug) + 1] = "-"
          /\ \A i \in 1 .. Len(slug) : Append(slug, "-")[i] = slug[i]
      BY <1>1
    <3>2. QED
      BY <3>1
  <2>2. lead \o more \in Seq(Letters)
    BY <1>1
  <2>3. /\ Len(lead \o more) = before + Len(slug) + 1
        /\ \A i \in 1 .. Len(more) : (lead \o more)[before + i] = more[i]
        /\ before = 1 => (lead \o more)[1] = "-"
    <3>1. /\ Len(lead \o more) = Len(lead) + Len(more) /\ Len(more) \in Nat
          /\ \A i \in 1 .. Len(more) : (lead \o more)[Len(lead) + i] = more[i]
          /\ Len(lead) > 0 => (lead \o more)[1] = lead[1]
      BY <1>1
    <3>2. before = 1 => Len(lead) > 0 /\ lead[1] = "-"
      BY <1>2
    <3>3. QED
      BY <1>1, <1>2, <2>1, <3>1, <3>2
  <2>4. /\ \A i \in 1 .. Len(slug) : (lead \o more)[before + i] = slug[i]
        /\ (lead \o more)[Len(lead \o more)] = "-"
    BY <1>1, <2>1, <2>3
  <2>5. PICK text \in Seq(Letters), after \in {0, 1} : text = lead \o more /\ after = 1
    BY <2>2
  <2>6. Len(text) = before + Len(slug) + after /\ (\A i \in 1 .. Len(slug) : text[before + i] = slug[i])
    BY <2>3, <2>4, <2>5
  <2>7. (before = 1 => text[1] = "-") /\ (after = 1 => text[Len(text)] = "-")
    BY <2>3, <2>4, <2>5
  <2>8. Trimmed(text) = slug
    BY <1>5, <2>6, <2>7, TrimmedPart, SMTT(30)
  <2>9. QED
    BY <2>1, <2>5, <2>8
<1>6. QED
  BY <1>3, <1>4, <1>5

LEMMA KebabAndSlugify ==
  ASSUME NEW name \in Seq(Letters)
  PROVE  Bare(Kebab(name)) /\ (Len(Kebab(name)) <= SlugMax => Slugify(name) = Kebab(name))
<1>1. PICK f \in [0 .. Len(name) -> Reading] :
        /\ f[0] = NothingRead
        /\ \A n \in 1 .. Len(name) : f[n] = SlugStep(2, f[n - 1], name[n])
        /\ SlugWith(2, name) = f[Len(name)].slug
  BY SlugReads
<1>2. PICK h \in [0 .. Len(name) -> Seq(Letters)] :
        /\ h[0] = <<>>
        /\ \A n \in 1 .. Len(name) : h[n] = HyphenStep(name, n, h[n - 1])
        /\ Kebab(name) = Trimmed(h[Len(name)])
  BY HyphenReads
<1> DEFINE At(n) ==
             \E read, waits \in BOOLEAN :
               /\ read <=> n > 0
               /\ waits <=> n > 0 /\ name[n] = "-"
               /\ Same(read, waits, h[n], f[n])
           P == {n \in Nat : n <= Len(name) => At(n)}
<1>3. 0 \in P
  <2>1. Bare(<<>>) /\ <<>> \in Seq(Letters)
    BY DEF Bare
  <2>2. <<>> = <<>> \o <<>>
    OBVIOUS
  <2>3. Pair(FALSE, <<>>, NothingRead, <<>>, <<>>)
    BY <2>1, <2>2 DEF Pair, NothingRead
  <2>4. Same(FALSE, FALSE, <<>>, NothingRead)
    BY <2>1, <2>3 DEF Same
  <2>5. Same(FALSE, FALSE, h[0], f[0])
    BY <1>1, <1>2, <2>4
  <2>6. QED
    BY <2>5, SMTT(30)
<1>4. ASSUME NEW n \in Nat, n \in P
      PROVE  n + 1 \in P
  <2>1. SUFFICES ASSUME n + 1 \in 1 .. Len(name)
                 PROVE  At(n + 1)
    <3> HIDE DEF At
    <3>1. QED
      OBVIOUS
  <2>2. PICK read \in BOOLEAN, waits \in BOOLEAN :
          /\ read <=> n > 0
          /\ waits <=> n > 0 /\ name[n] = "-"
          /\ Same(read, waits, h[n], f[n])
    BY <1>4, <2>1
  <2>3. /\ (n + 1) - 1 = n /\ n + 1 > 0 /\ (n + 1 > 1 <=> n > 0)
        /\ name[n + 1] \in Letters
        /\ h[n + 1] = HyphenStep(name, n + 1, h[n]) /\ f[n + 1] = SlugStep(2, f[n], name[n + 1])
    BY <1>1, <1>2, <2>1
  <2>4. CASE name[n + 1] = "-"
    <3>1. h[n + 1] = IF waits THEN h[n] ELSE Append(h[n], "-")
      BY <2>2, <2>3, <2>4 DEF HyphenStep
    <3>2. Same(TRUE, TRUE, IF waits THEN h[n] ELSE Append(h[n], "-"), SlugStep(2, f[n], "-"))
      BY <2>2, SameSeparator
    <3>3. Same(TRUE, TRUE, h[n + 1], f[n + 1])
      BY <2>3, <2>4, <3>1, <3>2
    <3>4. QED
      BY <2>3, <2>4, <3>3
  <2>5. CASE name[n + 1] = "a"
    <3>1. h[n + 1] = Append(h[n], "a")
      BY <2>3, <2>5 DEF HyphenStep
    <3>2. Same(TRUE, FALSE, Append(h[n], "a"), SlugStep(2, f[n], "a"))
      BY <2>2, SameLetter
    <3>3. Same(TRUE, FALSE, h[n + 1], f[n + 1])
      BY <2>3, <2>5, <3>1, <3>2
    <3>4. QED
      BY <2>3, <2>5, <3>3
  <2>6. QED
    BY <2>3, <2>4, <2>5 DEF Letters
<1>5. Len(name) \in P
  <2>1. Len(name) \in Nat
    OBVIOUS
  <2> HIDE DEF P
  <2>2. QED
    BY <1>3, <1>4, <2>1, Induction
<1>6. PICK waits \in BOOLEAN, slug \in Seq(Letters), lead \in Seq(Letters) :
        Pair(waits, h[Len(name)], f[Len(name)], slug, lead)
  BY <1>5 DEF Same
<1>7. Kebab(name) = slug /\ Bare(slug)
  BY <1>2, <1>6, TrimmedSlug DEF Pair
<1>8. Len(slug) <= SlugMax => Slugify(name) = slug
  BY <1>1, <1>6 DEF Pair, Slugify
<1>9. QED
  BY <1>7, <1>8

\* The page and the server agree on the slug of a name that need not be cut.
THEOREM SlugsAgree ==
  ASSUME NEW name \in Seq(Letters), Len(Kebab(name)) <= SlugMax
  PROVE  Slugify(name) = AutoSlug(name) /\ AutoSlug(name) = Kebab(name)
<1>1. Kebab(name) \in Seq(Letters) /\ Slugify(name) = Kebab(name)
  BY KebabAndSlugify DEF Bare
<1>2. SubSeq(Kebab(name), 1, Len(Kebab(name))) = Kebab(name)
  BY <1>1
<1>3. AutoSlug(name) = SubSeq(Kebab(name), 1, Len(Kebab(name)))
  <2>1. Len(Kebab(name)) \in Nat /\ SlugMax \in Nat
    BY <1>1, PageAssumption
  <2>2. (IF Len(Kebab(name)) < SlugMax THEN Len(Kebab(name)) ELSE SlugMax) = Len(Kebab(name))
    BY <2>1
  <2>3. QED
    BY <2>2 DEF AutoSlug
<1>4. QED
  BY <1>1, <1>2, <1>3

LEMMA AutoSlugType ==
  ASSUME NEW name \in Seq(Letters)
  PROVE  AutoSlug(name) \in Seq(Letters)
<1>1. Kebab(name) \in Seq(Letters) /\ SlugMax \in Nat
  BY KebabAndSlugify, PageAssumption DEF Bare
<1>2. QED
  BY <1>1 DEF AutoSlug
-----------------------------------------------------------------------------
(* What is true of a page between steps. *)

\* The frames that were hidden when the issue page was kept may stay hidden.
KeptCard == kept.card.mode = "app" => kept.card.app \/ kept.card.asked

\* The control follows the preference on every page, not only where it is shown.
ControlFollows ==
  ready[Here] /\ news[Here] = 0 /\ ~unsaved[Here] =>
    control[Here] = shown[Here] \/ (restored /\ control[Here] = FirstOption)

\* A single acknowledgement is under way at a time, and it is the original text that it will
\* put back -- until copies overlap.
CopyWaits ==
  ~restored =>
    /\ ~overlap => copy.later \in {<<>>, <<"original">>} /\ (copy.later = <<>> => copy.text = "original")
    /\ copy.later = <<>> => ~copy.marked

\* A name that was typed before app.js listens would have no slug: there is none.
FormFollows ==
  /\ ~ready[Here] => form.name = <<>>
  /\ form.listens /\ ~form.edited /\ form.name # <<>> => form.slug \in {<<>>, AutoSlug(form.name)}

PInv == IInv /\ PageTypeOK /\ KeptCard /\ ControlFollows /\ CopyWaits /\ FormFollows

\* The types of the body.
BodyOK(c, b, p, o, f) ==
  /\ c \in Cards /\ b \in {"plain", "live", "husk"} /\ p \in Copies /\ o \in BOOLEAN /\ f \in Forms
  /\ c.mode = "app" => c.app \/ c.asked

\* The types of what surrounds it.
PlaceOK == page \in Pages /\ visited \subseteq Pages /\ restored \in BOOLEAN /\ kept \in Kept /\ KeptCard

LEMMA Parts ==
  PageTypeOK /\ KeptCard <=> TypeOK /\ PlaceOK /\ BodyOK(card, box, copy, overlap, form) /\ (box = "husk" => restored)
  BY DEF PageTypeOK, PlaceOK, BodyOK

LEMMA FreshTypes ==
  /\ \A app \in BOOLEAN : FreshCard(app) \in Cards /\ FreshCard(app).mode # "app"
  /\ FreshCopy \in Copies /\ FreshForm \in Forms
  /\ NothingKept \in Kept /\ NothingKept.card.mode # "app"
<1>1. \A app \in BOOLEAN : FreshCard(app) \in Cards /\ FreshCard(app).mode # "app"
  BY DEF FreshCard, Cards
<1>2. <<>> \in Seq({"original", "copied"}) /\ <<>> \in Seq({"a", "-"}) /\ <<>> \in Name
  BY PageAssumption
<1>3. FreshCopy \in Copies
  BY <1>2 DEF FreshCopy, Copies
<1>4. FreshForm \in Forms
  BY <1>2 DEF FreshForm, Forms
<1>5. NothingKept \in Kept /\ NothingKept.card.mode # "app"
  BY <1>1, <1>3 DEF NothingKept, Kept
<1>6. QED
  BY <1>1, <1>3, <1>4, <1>5

LEMMA FreshBodyType ==
  ASSUME NEW app \in BOOLEAN, FreshBody(app)
  PROVE  BodyOK(card, box, copy, overlap, form)' /\ box' # "husk"
<1>1. FreshCard(app) \in Cards /\ FreshCard(app).mode # "app" /\ FreshCopy \in Copies /\ FreshForm \in Forms
  BY FreshTypes
<1>2. QED
  BY <1>1 DEF FreshBody, BodyOK

LEMMA MarkupType ==
  ASSUME BodyOK(card, box, copy, overlap, form)
  PROVE  Markup \in Kept /\ (Markup.card.mode = "app" => Markup.card.app \/ Markup.card.asked)
<1>1. <<>> \in Seq({"original", "copied"})
  OBVIOUS
<1>2. [copy EXCEPT !.asks = 0, !.later = <<>>] \in Copies
  BY <1>1 DEF BodyOK, Copies
<1>3. QED
  BY <1>2 DEF Markup, BodyOK, Kept

LEMMA LeaveType ==
  ASSUME PlaceOK, BodyOK(card, box, copy, overlap, form), Leave
  PROVE  visited' \subseteq Pages /\ kept' \in Kept /\ (kept'.card.mode = "app" => kept'.card.app \/ kept'.card.asked)
<1>1. visited' \subseteq Pages
  BY DEF Leave, PlaceOK
<1>2. kept' \in {Markup, kept}
  BY DEF Leave
<1>3. QED
  BY <1>1, <1>2, MarkupType DEF PlaceOK, KeptCard

LEMMA PageTypeNext ==
  ASSUME PageTypeOK, KeptCard, TypeOK', PageNext
  PROVE  PageTypeOK' /\ KeptCard'
<1> DEFINE Body == BodyOK(card, box, copy, overlap, form)
<1>0. PlaceOK /\ Body /\ (box = "husk" => restored)
  BY Parts
<1>1. SUFFICES PlaceOK' /\ Body' /\ (box = "husk" => restored)'
  BY Parts DEF PageTypeOK, PlaceOK, BodyOK
<1>2. CASE ThemeStep
  BY <1>0, <1>2 DEF ThemeStep, pageVars, PlaceOK, KeptCard, BodyOK
<1>3. ASSUME NEW p \in Pages, LoadPage(p)
      PROVE  PlaceOK' /\ Body' /\ (box = "husk" => restored)'
  <2>1. PICK app \in BOOLEAN : FreshBody(app)
    BY <1>3 DEF LoadPage
  <2>2. PlaceOK'
    BY <1>3, FreshTypes DEF LoadPage, PlaceOK, KeptCard
  <2>3. QED
    BY <2>1, <2>2, FreshBodyType
<1>4. ASSUME NEW p \in Pages, Boost(p)
      PROVE  PlaceOK' /\ Body' /\ (box = "husk" => restored)'
  <2>1. PlaceOK'
    BY <1>0, <1>4, LeaveType DEF Boost, PlaceOK, KeptCard
  <2>2. QED
    BY <1>4, <2>1, FreshBodyType DEF Boost
<1>5. ASSUME NEW p \in Pages, Restore(p)
      PROVE  PlaceOK' /\ Body' /\ (box = "husk" => restored)'
  <2>1. kept' \in Kept /\ (kept'.card.mode = "app" => kept'.card.app \/ kept'.card.asked) /\ restored'
    BY <1>0, <1>5, LeaveType DEF Restore
  <2>2. PlaceOK'
    BY <1>0, <1>5, <2>1, LeaveType DEF Restore, PlaceOK, KeptCard
  <2>3. CASE p = "issue"
    <3>1. BodyOK(kept'.card, kept'.box, kept'.copy, kept'.overlap, FreshForm)
      BY <2>1, FreshTypes DEF BodyOK, Kept
    <3>2. QED
      BY <1>5, <2>1, <2>2, <2>3, <3>1 DEF Restore
  <2>4. CASE p # "issue"
    BY <1>5, <2>2, <2>4, FreshBodyType DEF Restore
  <2>5. QED
    BY <2>3, <2>4
<1>6. ASSUME NEW p \in Pages, RestoreMissed(p)
      PROVE  PlaceOK' /\ Body' /\ (box = "husk" => restored)'
  <2>1. PICK app \in BOOLEAN : FreshBody(app)
    BY <1>6 DEF RestoreMissed
  <2>2. PlaceOK'
    BY <1>0, <1>6, LeaveType DEF RestoreMissed, PlaceOK, KeptCard
  <2>3. QED
    BY <2>1, <2>2, FreshBodyType
<1>7. CASE PageReady
  <2>1. UNCHANGED <<page, restored, visited, kept, copy, overlap>>
    BY <1>7 DEF PageReady
  <2>2. card' \in Cards /\ (card'.mode = "app" => card'.app \/ card'.asked)
    BY <1>0, <1>7 DEF PageReady, Prepared, BodyOK, Cards
  <2>3. box' \in {"plain", "live", "husk"} /\ (box' = "husk" => box = "husk")
    BY <1>0, <1>7 DEF PageReady, BodyOK
  <2>4. form' \in Forms
    BY <1>0, <1>7 DEF PageReady, BodyOK, Forms
  <2>5. QED
    BY <1>0, <2>1, <2>2, <2>3, <2>4 DEF PlaceOK, KeptCard, BodyOK
<1>8. ASSUME NEW mode \in {"app", "all"}, ChooseFrames(mode)
      PROVE  PlaceOK' /\ Body' /\ (box = "husk" => restored)'
  <2>1. card' \in Cards /\ (card'.mode = "app" => card'.app \/ card'.asked)
    BY <1>0, <1>8 DEF ChooseFrames, BodyOK, Cards
  <2>2. QED
    BY <1>0, <1>8, <2>1 DEF ChooseFrames, PlaceOK, KeptCard, BodyOK
<1>9. CASE ClickCopy \/ Copied \/ CopyFails \/ FeedbackEnds
  <2>1. UNCHANGED <<page, restored, visited, kept, card, box, form>> /\ overlap' \in BOOLEAN
    BY <1>0, <1>9 DEF ClickCopy, Copied, CopyFails, FeedbackEnds, BodyOK
  <2>2. copy' \in Copies
    <3>1. copy \in Copies
      BY <1>0 DEF BodyOK
    <3>2. CASE ClickCopy
      BY <3>1, <3>2 DEF ClickCopy, Copies
    <3>3. CASE Copied
      <4>1. Append(copy.later, copy.text) \in Seq({"original", "copied"}) /\ copy.asks - 1 \in Nat
        BY <3>1, <3>3 DEF Copied, Copies
      <4>2. QED
        BY <3>1, <3>3, <4>1 DEF Copied, Feedback, Copies
    <3>4. CASE CopyFails
      BY <3>1, <3>4 DEF CopyFails, Copies
    <3>5. CASE FeedbackEnds
      <4>1. Head(copy.later) \in {"original", "copied"} /\ Tail(copy.later) \in Seq({"original", "copied"})
        BY <3>1, <3>5 DEF FeedbackEnds, Copies
      <4>2. QED
        BY <3>1, <3>5, <4>1 DEF FeedbackEnds, PutBack, Copies
    <3>6. QED
      BY <1>9, <3>2, <3>3, <3>4, <3>5
  <2>3. QED
    BY <1>0, <2>1, <2>2 DEF PlaceOK, KeptCard, BodyOK
<1>10. ASSUME NEW name \in Name, TypeName(name) \/ TypeSlug(name)
       PROVE  PlaceOK' /\ Body' /\ (box = "husk" => restored)'
  <2>1. UNCHANGED <<page, restored, visited, kept, card, box, copy, overlap>>
    BY <1>10 DEF TypeName, TypeSlug
  <2>2. name \in Seq({"a", "-"}) /\ AutoSlug(name) \in Seq({"a", "-"})
    BY AutoSlugType, PageAssumption DEF Letters
  <2>3. form' \in Forms
    BY <1>0, <1>10, <2>2 DEF TypeName, TypeSlug, BodyOK, Forms
  <2>4. QED
    BY <1>0, <2>1, <2>3 DEF PlaceOK, KeptCard, BodyOK
<1>11. QED
  BY <1>2, <1>3, <1>4, <1>5, <1>6, <1>7, <1>8, <1>9, <1>10 DEF PageNext, PageStep

\* The control, in steps of the theme alone.
LEMMA ControlInTheme ==
  ASSUME IInv, PageTypeOK, ControlFollows, ThemeStep
  PROVE  ControlFollows'
<1> USE PageAssumption
<1>0. /\ shown \in [Tab -> Preferences] /\ control \in [Tab -> Preferences] /\ ready \in [Tab -> BOOLEAN]
      /\ news \in [Tab -> Nat] /\ unsaved \in [Tab -> BOOLEAN] /\ restored' = restored
  BY DEF IInv, TypeOK, ThemeStep, pageVars
<1>1. ASSUME NEW t \in Tab, HearStorage(t) \/ (HearDevice(t) /\ Preference(t) = "system")
      PROVE  ControlFollows'
  <2>1. Refresh(t) /\ ready' = ready
    BY <1>1 DEF HearStorage, HearDevice
  <2>2. CASE t = Here
    BY <1>0, <2>1, <2>2 DEF Refresh, Apply, SyncIfReady, ControlFollows
  <2>3. CASE t # Here
    <3>1. news'[Here] = news[Here] /\ unsaved'[Here] = unsaved[Here]
          /\ shown'[Here] = shown[Here] /\ control'[Here] = control[Here]
      BY <1>0, <1>1, <2>1, <2>3 DEF HearStorage, HearDevice, Refresh, Apply, SyncIfReady
    <3>2. QED
      BY <1>0, <2>1, <3>1 DEF ControlFollows
  <2>4. QED
    BY <2>2, <2>3
<1>2. ASSUME NEW t \in Tab, HearDevice(t), Preference(t) # "system"
      PROVE  ControlFollows'
  BY <1>0, <1>2 DEF HearDevice, ControlFollows
<1>3. ASSUME NEW t \in Tab, NEW value \in Choice, Choose(t, value)
      PROVE  ControlFollows'
  <2>1. CASE t = Here
    <3>1. PICK read : control'[Here] = read /\ shown'[Here] = value /\ unsaved'[Here] = (read # value)
      BY <1>0, <1>3, <2>1 DEF Choose, Apply
    <3>2. QED
      BY <3>1 DEF ControlFollows
  <2>2. CASE t # Here
    <3>1. unsaved'[Here] = unsaved[Here] /\ ready' = ready /\ shown'[Here] = shown[Here] /\ control'[Here] = control[Here]
      BY <1>0, <1>3, <2>2 DEF Choose, Apply
    <3>2. news'[Here] = 0 => news[Here] = 0
      BY <1>0, <1>3, <2>2 DEF Choose, Announce
    <3>3. QED
      BY <1>0, <3>1, <3>2 DEF ControlFollows
  <2>3. QED
    BY <2>1, <2>2
<1>4. ASSUME NEW t \in Tab \ {Here}, Load(t) \/ DomReady(t)
      PROVE  ControlFollows'
  <2>1. /\ news'[Here] = news[Here] /\ unsaved'[Here] = unsaved[Here] /\ ready'[Here] = ready[Here]
        /\ shown'[Here] = shown[Here] /\ control'[Here] = control[Here]
    BY <1>0, <1>4 DEF Load, Apply, DomReady, Sync
  <2>2. QED
    BY <1>0, <2>1 DEF ControlFollows
<1>5. CASE FlipDevice \/ StorageFails
  BY <1>0, <1>5 DEF FlipDevice, StorageFails, ControlFollows
<1>6. QED
  BY <1>1, <1>2, <1>3, <1>4, <1>5 DEF ThemeStep, Hear

LEMMA ControlNext ==
  ASSUME IInv, PageTypeOK, ControlFollows, PageNext
  PROVE  ControlFollows'
<1> USE PageAssumption
<1>0. shown \in [Tab -> Preferences] /\ control \in [Tab -> Preferences] /\ ready \in [Tab -> BOOLEAN]
  BY DEF IInv, TypeOK
<1>1. CASE ThemeStep
  BY <1>1, ControlInTheme
<1>2. ASSUME NEW p \in Pages, LoadPage(p)
      PROVE  ControlFollows'
  BY <1>0, <1>2 DEF LoadPage, Load, ControlFollows
<1>3. ASSUME Sync(Here)
      PROVE  ControlFollows'
  <2>1. UNCHANGED <<shown, news, unsaved>> /\ control'[Here] = Preference(Here)
    BY <1>0, <1>3 DEF Sync
  <2>2. QED
    BY <2>1, PreferenceIsShown DEF ControlFollows
<1>4. ASSUME Rebuild(Here), restored'
      PROVE  ControlFollows'
  BY <1>0, <1>4 DEF Rebuild, ControlFollows
<1>5. ASSUME NEW p \in Pages, Boost(p) \/ Restore(p) \/ RestoreMissed(p)
      PROVE  ControlFollows'
  BY <1>3, <1>4, <1>5 DEF Boost, Restore, RestoreMissed
<1>6. CASE PageReady
  BY <1>3, <1>6 DEF PageReady, DomReady
<1>7. CASE \/ \E mode \in {"app", "all"} : ChooseFrames(mode)
           \/ ClickCopy \/ Copied \/ CopyFails \/ FeedbackEnds
           \/ \E name \in Name : TypeName(name) \/ TypeSlug(name)
  <2>1. UNCHANGED <<shown, control, ready, news, unsaved, restored>>
    BY <1>7 DEF ChooseFrames, ClickCopy, Copied, CopyFails, FeedbackEnds, TypeName, TypeSlug, themeVars
  <2>2. QED
    BY <2>1 DEF ControlFollows
<1>8. QED
  BY <1>1, <1>2, <1>5, <1>6, <1>7 DEF PageNext, PageStep

LEMMA CopyNext ==
  ASSUME PageTypeOK, CopyWaits, PageNext
  PROVE  CopyWaits'
<1>0. /\ copy \in [text : {"original", "copied"}, marked : BOOLEAN, asks : Nat, later : Seq({"original", "copied"})]
      /\ restored \in BOOLEAN /\ overlap \in BOOLEAN
  BY DEF PageTypeOK, Copies
<1>1. CASE ThemeStep
  BY <1>1 DEF ThemeStep, pageVars, CopyWaits
<1>2. ASSUME NEW p \in Pages, LoadPage(p) \/ Boost(p)
      PROVE  CopyWaits'
  <2>1. copy' = FreshCopy
    BY <1>2 DEF LoadPage, Boost, FreshBody
  <2>2. QED
    BY <2>1 DEF FreshCopy, CopyWaits
<1>3. ASSUME NEW p \in Pages, Restore(p) \/ RestoreMissed(p)
      PROVE  CopyWaits'
  BY <1>3 DEF Restore, RestoreMissed, CopyWaits
<1>4. CASE PageReady \/ (\E mode \in {"app", "all"} : ChooseFrames(mode))
           \/ (\E name \in Name : TypeName(name) \/ TypeSlug(name))
  <2>1. UNCHANGED <<restored, overlap, copy>>
    BY <1>4 DEF PageReady, ChooseFrames, TypeName, TypeSlug
  <2>2. QED
    BY <2>1 DEF CopyWaits
<1>5. CASE ClickCopy \/ CopyFails
  <2>1. UNCHANGED <<restored, overlap>> /\ copy'.text = copy.text /\ copy'.marked = copy.marked /\ copy'.later = copy.later
    BY <1>0, <1>5 DEF ClickCopy, CopyFails
  <2>2. QED
    BY <2>1 DEF CopyWaits
<1>6. CASE Copied
  <2>1. /\ copy'.later = Append(copy.later, copy.text) /\ restored' = restored
        /\ overlap' = (overlap \/ copy.later # <<>>)
    BY <1>0, <1>6 DEF Copied, Feedback
  <2>2. Append(copy.later, copy.text) # <<>>
    BY <1>0
  <2>3. copy.later = <<>> => Append(copy.later, "original") = <<"original">>
    OBVIOUS
  <2>4. QED
    BY <1>0, <2>1, <2>2, <2>3 DEF CopyWaits
<1>7. CASE FeedbackEnds
  <2>1. /\ copy'.later = Tail(copy.later) /\ copy'.text = Head(copy.later) /\ ~copy'.marked
        /\ copy.later # <<>> /\ UNCHANGED <<restored, overlap>>
    BY <1>0, <1>7 DEF FeedbackEnds, PutBack
  <2>2. Tail(<<"original">>) = <<>> /\ Head(<<"original">>) = "original"
    OBVIOUS
  <2>3. QED
    BY <2>1, <2>2 DEF CopyWaits
<1>8. QED
  BY <1>1, <1>2, <1>3, <1>4, <1>5, <1>6, <1>7 DEF PageNext, PageStep

LEMMA FormNext ==
  ASSUME IInv, PageTypeOK, FormFollows, PageNext
  PROVE  FormFollows'
<1> USE PageAssumption
<1>0. form \in [name : Name, slug : Seq({"a", "-"}), listens : BOOLEAN, edited : BOOLEAN] /\ ready \in [Tab -> BOOLEAN]
  BY DEF PageTypeOK, Forms, IInv, TypeOK
<1>1. CASE form' = form /\ ready'[Here] = ready[Here]
  BY <1>1 DEF FormFollows
<1>2. CASE form' = FreshForm
  <2>1. form'.name = <<>>
    BY <1>2 DEF FreshForm
  <2>2. QED
    BY <2>1 DEF FormFollows
<1>3. CASE ThemeStep
  <2>1. form' = form
    BY <1>3 DEF ThemeStep, pageVars
  <2>2. ready'[Here] = ready[Here]
    BY <1>0, <1>3 DEF ThemeStep, Hear, HearStorage, HearDevice, Choose, Load, DomReady, FlipDevice, StorageFails
  <2>3. QED
    BY <1>1, <2>1, <2>2
<1>4. ASSUME NEW p \in Pages, LoadPage(p) \/ Boost(p) \/ RestoreMissed(p) \/ Restore(p)
      PROVE  FormFollows'
  <2>1. form' = FreshForm
    BY <1>4 DEF LoadPage, Boost, Restore, RestoreMissed, FreshBody
  <2>2. QED
    BY <1>2, <2>1
<1>5. CASE PageReady
  <2>1. form.name = <<>>
    BY <1>5 DEF PageReady, DomReady, FormFollows
  <2>2. form'.name = <<>>
    BY <1>0, <1>5, <2>1 DEF PageReady
  <2>3. QED
    BY <2>2 DEF FormFollows
<1>6. CASE (\E mode \in {"app", "all"} : ChooseFrames(mode)) \/ ClickCopy \/ Copied \/ CopyFails \/ FeedbackEnds
  <2>1. UNCHANGED <<form, ready>>
    BY <1>6 DEF ChooseFrames, ClickCopy, Copied, CopyFails, FeedbackEnds, themeVars
  <2>2. QED
    BY <1>1, <2>1
<1>7. ASSUME NEW name \in Name, TypeName(name)
      PROVE  FormFollows'
  <2>1. /\ form'.name = name /\ form'.listens = form.listens /\ form'.edited = form.edited
        /\ form'.slug = IF form.listens /\ ~form.edited THEN AutoSlug(name) ELSE form.slug
        /\ ready'[Here]
    BY <1>0, <1>7 DEF TypeName, themeVars
  <2>2. QED
    BY <2>1 DEF FormFollows
<1>8. ASSUME NEW slug \in Name, TypeSlug(slug)
      PROVE  FormFollows'
  <2>1. /\ form'.slug = slug /\ form'.listens = form.listens /\ (form.listens => form'.edited = (slug # <<>>))
        /\ ready'[Here]
    BY <1>0, <1>8 DEF TypeSlug, themeVars
  <2>2. QED
    BY <2>1 DEF FormFollows
<1>9. QED
  BY <1>3, <1>4, <1>5, <1>6, <1>7, <1>8 DEF PageNext, PageStep

LEMMA PInvNext ==
  ASSUME PInv, [PageNext]_vars
  PROVE  PInv'
<1>1. IInv'
  BY PageStepsTheme, IInvNext DEF PInv
<1>2. CASE PageNext
  <2>1. PageTypeOK' /\ KeptCard'
    BY <1>1, <1>2, PageTypeNext DEF PInv, IInv
  <2>2. QED
    BY <1>1, <1>2, <2>1, ControlNext, CopyNext, FormNext DEF PInv
<1>3. CASE UNCHANGED vars
  <2>1. UNCHANGED <<page, restored, visited, kept, card, box, copy, overlap, form, shown, control, ready, news, unsaved>>
    BY <1>3 DEF vars, themeVars, pageVars
  <2>2. PageTypeOK' /\ KeptCard'
    BY <1>1, <2>1 DEF PInv, IInv, PageTypeOK, KeptCard
  <2>3. ControlFollows' /\ CopyWaits' /\ FormFollows'
    BY <2>1 DEF PInv, ControlFollows, CopyWaits, FormFollows
  <2>4. QED
    BY <1>1, <2>2, <2>3 DEF PInv
<1>4. QED
  BY <1>2, <1>3

LEMMA PInvInit ==
  ASSUME PageInit
  PROVE  PInv
<1>1. IInv
  BY IInvInit DEF PageInit
<1>2. PICK app \in BOOLEAN : card = [FreshCard(app) EXCEPT !.mode = IF app THEN "app" ELSE "none"]
  BY DEF PageInit
<1>3. card \in Cards /\ (card.mode = "app" => card.app)
  BY <1>2 DEF FreshCard, Cards
<1>4. BodyOK(card, box, copy, overlap, form)
  BY <1>3, FreshTypes DEF PageInit, BodyOK
<1>5. PlaceOK
  BY FreshTypes DEF PageInit, PlaceOK, KeptCard, Pages
<1>6. PageTypeOK /\ KeptCard
  <2>1. box # "husk"
    BY DEF PageInit
  <2>2. QED
    BY <1>1, <1>4, <1>5, <2>1, Parts DEF IInv
<1>7. ControlFollows
  BY PageAssumption DEF PageInit, Init, ControlFollows
<1>8. CopyWaits /\ FormFollows
  BY PageAssumption DEF PageInit, Init, CopyWaits, FormFollows, FreshCopy, FreshForm
<1>9. QED
  BY <1>1, <1>6, <1>7, <1>8 DEF PInv

LEMMA PInvHolds == Spec => []PInv
<1>1. PageInit => PInv
  BY PInvInit
<1>2. PInv /\ [PageNext]_vars => PInv'
  BY PInvNext
<1>3. QED
  BY <1>1, <1>2, PTL DEF Spec

\* Whatever is put back, nothing is hidden without a reason: frames only if others remain or
\* the reader asked for it, the textarea only behind an editor, dead only on a page put back
\* (prepareStackTraces, the markdown editors).
THEOREM PageTypes == Spec => []PageTypeOK
<1>1. PInv => PageTypeOK
  BY DEF PInv
<1>2. QED
  BY <1>1, PInvHolds, PTL

\* The control on the settings page agrees with the preference of the page, however the page
\* was reached (syncThemeControls); in fact it would on every page.
THEOREM PageControlAgrees == Spec => []ControlAgrees
<1>1. PInv => ControlAgrees
  BY DEF PInv, ControlFollows, ControlAgrees
<1>2. QED
  BY <1>1, PInvHolds, PTL

\* After every copy the button is as it was, as far as the timers allow (showCopyFeedback).
THEOREM PageCopyReturns == Spec => []CopyButtonReturns
<1>1. PInv => CopyButtonReturns
  BY DEF PInv, CopyWaits, CopyButtonReturns
<1>2. QED
  BY <1>1, PInvHolds, PTL

\* The slug the page fills in is one the server accepts, and the one the server would make,
\* unless it is cut (setupAutoSlug, slugify, validate_slug).
THEOREM PageSlugIsValid == Spec => []AutoSlugIsValid
<1>1. ASSUME PInv
      PROVE  AutoSlugIsValid
  <2>1. form.name \in Seq(Letters)
    BY <1>1, PageAssumption DEF PInv, PageTypeOK, Forms, Letters
  <2>2. Len(Slugify(form.name)) < 2 \/ ValidSlug(Slugify(form.name))
    BY <2>1, SlugifyIsValid
  <2>3. Len(Kebab(form.name)) <= SlugMax => Slugify(form.name) = AutoSlug(form.name)
    BY <2>1, SlugsAgree
  <2>4. form.listens /\ ~form.edited /\ form.name # <<>> => form.slug \in {<<>>, AutoSlug(form.name)}
    BY <1>1 DEF PInv, FormFollows
  <2>5. Len(<<>>) < 2
    OBVIOUS
  <2>6. QED
    BY <2>2, <2>3, <2>4, <2>5 DEF AutoSlugIsValid
<1>2. QED
  BY <1>1, PInvHolds, PTL
=============================================================================
