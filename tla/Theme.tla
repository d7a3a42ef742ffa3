-------------------------------- MODULE Theme --------------------------------
(***************************************************************************)
(* The colour theme of every open tab (src/static/theme-init.js) and its   *)
(* control on the settings page (syncThemeControls and the change listener *)
(* of src/static/app.js).  The tabs of one browser share localStorage and  *)
(* the device's colour scheme; each keeps a preference in memory for when  *)
(* storage cannot be read.  Events tell a tab what another tab has stored  *)
(* and that the device has changed; until one is handled the page is       *)
(* stale.                                                                  *)
(***************************************************************************)
EXTENDS Naturals

CONSTANTS
  Tab,      \* documents of this origin that are open
  Choice,   \* preferences that are chosen
  MaxNews   \* bound: storage events under way to one tab

ASSUME ThemeAssumption == Choice \subseteq {"light", "dark", "system"} /\ MaxNews \in Nat

VARIABLES
  stored,    \* what localStorage holds under zbierak-theme
  storage,   \* "ok", "full": it cannot be written, "denied": not read either
  device,    \* what prefers-color-scheme: dark stands at
  memory,    \* memoryPreference
  shown,     \* data-theme-preference, and what Scalar is configured with
  painted,   \* data-bs-theme and the color-scheme
  control,   \* the option selected in [data-theme-select]
  ready,     \* app.js has run and has enhanced the document
  news,      \* storage events that have not been handled
  flipped,   \* whether the device has changed since the tab was told: "no", "yes", or "undone"
  unsaved    \* history: the page shows a choice that could not be stored

themeVars == <<stored, storage, device, memory, shown, painted, control, ready, news, flipped, unsaved>>

Preferences == {"light", "dark", "system"}
Schemes == {"light", "dark"}
FirstOption == "system"

TypeOK ==
  /\ stored \in Preferences \cup {"none", "other"}
  /\ storage \in {"ok", "full", "denied"} /\ device \in Schemes
  /\ memory \in [Tab -> Preferences] /\ shown \in [Tab -> Preferences]
  /\ painted \in [Tab -> Schemes] /\ control \in [Tab -> Preferences]
  /\ ready \in [Tab -> BOOLEAN] /\ news \in [Tab -> Nat]
  /\ flipped \in [Tab -> {"no", "yes", "undone"}] /\ unsaved \in [Tab -> BOOLEAN]

\* validPreference, for the two who fall back to the system's.
Valid(value) == IF value \in Preferences THEN value ELSE "system"

\* preference(): what is stored, or what is in memory when storage cannot be read.
Preference(t) == IF storage = "denied" THEN memory[t] ELSE Valid(stored)

Resolved(value) == IF value = "system" THEN device ELSE value

\* apply, with the preference its caller has read.
Apply(t, value) ==
  /\ shown' = [shown EXCEPT ![t] = value]
  /\ painted' = [painted EXCEPT ![t] = Resolved(value)]

\* get() refreshes the memory, whoever calls it.
Read(t) == memory' = [memory EXCEPT ![t] = Preference(t)]

\* Mutated form: no one listens to zbierak:themechange.
SyncUnheard(t) == UNCHANGED control

\* zbierak:themechange reaches app.js once it runs.
SyncIfReady(t) == control' = [control EXCEPT ![t] = IF ready[t] THEN Preference(t) ELSE @]

Refresh(t) ==
  /\ Read(t) /\ Apply(t, Preference(t)) /\ SyncIfReady(t)
  /\ unsaved' = [unsaved EXCEPT ![t] = FALSE]

Init ==
  /\ stored \in {"none", "other"} \cup Choice
  /\ storage = "ok" /\ device \in Schemes
  /\ memory = [t \in Tab |-> Valid(stored)] /\ shown = memory
  /\ painted = [t \in Tab |-> Resolved(shown[t])]
  /\ control = shown /\ ready = [t \in Tab |-> TRUE]
  /\ news = [t \in Tab |-> 0] /\ flipped = [t \in Tab |-> "no"]
  /\ unsaved = [t \in Tab |-> FALSE]
-----------------------------------------------------------------------------
\* A new document: theme-init.js runs in its head, with nothing in memory yet.
Load(t) ==
  LET first == IF storage = "denied" THEN "system" ELSE Valid(stored) IN
  /\ memory' = [memory EXCEPT ![t] = first]
  /\ Apply(t, first)
  /\ control' = [control EXCEPT ![t] = FirstOption]
  /\ ready' = [ready EXCEPT ![t] = FALSE]
  /\ news' = [news EXCEPT ![t] = 0]
  /\ flipped' = [flipped EXCEPT ![t] = "no"]
  /\ unsaved' = [unsaved EXCEPT ![t] = FALSE]
  /\ UNCHANGED <<stored, storage, device>>

\* syncThemeControls, called by enhance.
Sync(t) ==
  /\ Read(t)
  /\ control' = [control EXCEPT ![t] = Preference(t)]
  /\ UNCHANGED <<stored, storage, device, shown, painted, news, flipped, unsaved>>

\* DOMContentLoaded: app.js enhances the document.
DomReady(t) ==
  /\ ~ready[t] /\ ready' = [ready EXCEPT ![t] = TRUE]
  /\ Sync(t)

\* The body is replaced and the new control is left as it was built.
Rebuild(t) ==
  /\ control' = [control EXCEPT ![t] = FirstOption]
  /\ UNCHANGED <<stored, storage, device, memory, shown, painted, ready, news, flipped, unsaved>>

\* A storage event is only sent for a change, and only to other documents.
Announce(t, value) ==
  IF stored = value THEN UNCHANGED news
  ELSE /\ \A u \in Tab \ {t} : news[u] < MaxNews
       /\ news' = [u \in Tab |-> IF u = t THEN news[u] ELSE news[u] + 1]

\* Mutated form: a choice is applied and remembered, but not stored.
ChooseUnstored(t, value) ==
  /\ ready[t] /\ control[t] # value
  /\ memory' = [memory EXCEPT ![t] = value]
  /\ Apply(t, value)
  /\ control' = [control EXCEPT ![t] = value]
  /\ UNCHANGED <<stored, storage, device, ready, news, flipped, unsaved>>

\* The change listener of app.js calls set, when another option is chosen.  Applying the
\* choice sends themechange, and the control shows what get() reads then: not the choice, if
\* that could not be stored.
Choose(t, value) ==
  LET read == IF storage = "full" THEN Valid(stored) ELSE value IN
  /\ ready[t] /\ control[t] # value
  /\ IF storage = "ok" THEN stored' = value /\ Announce(t, value) ELSE UNCHANGED <<stored, news>>
  /\ Apply(t, value)
  /\ memory' = [memory EXCEPT ![t] = read]
  /\ control' = [control EXCEPT ![t] = read]
  /\ unsaved' = [unsaved EXCEPT ![t] = read # value]
  /\ UNCHANGED <<storage, device, ready, flipped>>

\* Mutated form: the handler drops the event.
HearStorageIgnored(t) ==
  /\ news[t] > 0 /\ news' = [news EXCEPT ![t] = @ - 1]
  /\ UNCHANGED <<stored, storage, device, memory, shown, painted, control, ready, flipped, unsaved>>

HearStorage(t) ==
  /\ news[t] > 0 /\ news' = [news EXCEPT ![t] = @ - 1]
  /\ Refresh(t)
  /\ UNCHANGED <<stored, storage, device, ready, flipped>>

\* Mutated form: the page follows the device whatever the preference.
HearDeviceAlways(t) ==
  /\ flipped[t] = "yes" /\ flipped' = [flipped EXCEPT ![t] = "no"]
  /\ Read(t) /\ Apply(t, "system") /\ SyncIfReady(t)
  /\ UNCHANGED <<stored, storage, device, ready, news, unsaved>>

\* onSystemChange.
HearDevice(t) ==
  /\ flipped[t] = "yes" /\ flipped' = [flipped EXCEPT ![t] = "no"]
  /\ IF Preference(t) = "system" THEN Refresh(t)
     ELSE Read(t) /\ UNCHANGED <<shown, painted, control, unsaved>>
  /\ UNCHANGED <<stored, storage, device, ready, news>>

\* The event is sent when the page is rendered next; if the device has changed back by then
\* there is none.
FlipDevice ==
  /\ device' \in Schemes \ {device}
  /\ flipped' = [t \in Tab |-> IF flipped[t] = "yes" THEN "undone" ELSE "yes"]
  /\ UNCHANGED <<stored, storage, memory, shown, painted, control, ready, news, unsaved>>

\* The quota is reached, or storage is blocked.
StorageFails ==
  /\ storage = "ok" /\ storage' \in {"full", "denied"}
  /\ UNCHANGED <<stored, device, memory, shown, painted, control, ready, news, flipped, unsaved>>

Hear(t) == HearStorage(t) \/ HearDevice(t)

ThemeNext ==
  \/ \E t \in Tab : \/ Load(t) \/ DomReady(t) \/ Rebuild(t) \/ Hear(t)
                    \/ Sync(t) /\ UNCHANGED ready
                    \/ \E value \in Choice : Choose(t, value)
  \/ FlipDevice \/ StorageFails

ThemeSpec == Init /\ [][ThemeNext]_themeVars
-----------------------------------------------------------------------------
(* Properties. *)

\* A tab that has handled its events shows what is stored, whichever tabs chose what in
\* which order, and in the colours the device has where the preference leaves them to it --
\* unless the tab shows a choice of its own that could not be stored.
TabsFollowStorage ==
  \A t \in Tab : news[t] = 0 /\ ~unsaved[t] =>
    /\ storage # "denied" => shown[t] = Valid(stored)
    /\ flipped[t] = "no" => painted[t] = Resolved(shown[t])

\* A page shows another preference only when it is loaded anew, when one is chosen in it, or
\* when another tab has stored one.
Sticks(t) ==
  shown'[t] # shown[t] => Load(t) \/ (\E value \in Choice : Choose(t, value)) \/ news[t] > 0

\* So it is for every choice that is stored, and while storage cannot even be read: then the
\* memory of the page takes its place (preference).
ChoiceSticks == [][\A t \in Tab : ~unsaved[t] => Sticks(t)]_themeVars

\* When no tab chooses any more, all of them show what was chosen last: every storage event
\* is handled, and the handler reads what is stored then, not what the event carries.
TabsConverge ==
  \A t \in Tab, value \in Choice :
    <>[](stored = value /\ storage = "ok") => <>[](shown[t] = value)
=============================================================================
