-------------------------------- MODULE Page ---------------------------------
(***************************************************************************)
(* The pages of one tab (src/static/app.js), over the theme all tabs share *)
(* (Theme).  A page is loaded as a document, or htmx replaces the body:    *)
(* with the page a boosted link of the navigation leads to, or, on the way *)
(* back, with the markup it kept when the page was left.  A body that was  *)
(* put back is not enhanced: htmx sends afterSwap without a target then.   *)
(* What scripts attach to elements is not in the markup, either.           *)
(***************************************************************************)
EXTENDS Theme, Integers, Sequences

CONSTANTS
  Here,      \* the tab whose pages are modelled
  Name,      \* project names that are typed: letters "a" and separators "-"
  SlugMax,   \* 50, the longest slug
  MaxClicks  \* bound: copies under way, and feedback on show

ASSUME PageAssumption ==
  /\ Here \in Tab /\ Name \subseteq Seq({"a", "-"}) /\ <<>> \in Name
  /\ SlugMax \in Nat \ {0, 1} /\ MaxClicks \in Nat

VARIABLES
  page,     \* which page the body shows
  restored, \* htmx has put the body back
  visited,  \* pages this document can go back to without being loaded
  kept,     \* the issue page as it was kept when it was left
  card,     \* the stack card: whether it has application frames, data-mode, which button
            \* is active, and whether it was asked for
  box,      \* the comment's textarea: "plain", a "live" editor, or the "husk" of one
  copy,     \* the copy button: its text, its mark, requests under way, texts to put back
  overlap,  \* history: it was clicked again during the feedback of a copy
  form      \* project-name and project-slug, whether app.js listens, slugEdited

pageVars == <<page, restored, visited, kept, card, box, copy, overlap, form>>
vars == <<themeVars, pageVars>>

Pages == {"issue", "settings", "projects"}
Boosted == {"settings", "projects"}

Cards == [app : BOOLEAN, mode : {"none", "app", "all"}, active : {"app", "all"}, asked : BOOLEAN]
Copies == [text : {"original", "copied"}, marked : BOOLEAN, asks : Nat, later : Seq({"original", "copied"})]
Kept == [card : Cards, box : {"plain", "live", "husk"}, copy : Copies, overlap : BOOLEAN]
Forms == [name : Name, slug : Seq({"a", "-"}), listens : BOOLEAN, edited : BOOLEAN]

\* Frames are hidden only if others remain or the reader asked for it (prepareStackTraces), and
\* the textarea is hidden behind an editor that does not work only on a page put back by htmx.
PageTypeOK ==
  /\ TypeOK
  /\ page \in Pages /\ visited \subseteq Pages /\ restored \in BOOLEAN
  /\ kept \in Kept
  /\ card \in Cards /\ copy \in Copies /\ form \in Forms
  /\ box \in {"plain", "live", "husk"} /\ overlap \in BOOLEAN
  /\ card.mode = "app" => card.app \/ card.asked
  /\ box = "husk" => restored

\* What the server renders: issue.html and projects.html.
FreshCard(app) == [app |-> app, mode |-> "none", active |-> "app", asked |-> FALSE]
FreshCopy == [text |-> "original", marked |-> FALSE, asks |-> 0, later |-> <<>>]
FreshForm == [name |-> <<>>, slug |-> <<>>, listens |-> FALSE, edited |-> FALSE]

NothingKept == [card |-> FreshCard(FALSE), box |-> "plain", copy |-> FreshCopy, overlap |-> FALSE]

FreshBody(app) ==
  /\ card' = FreshCard(app) /\ box' = "plain"
  /\ copy' = FreshCopy /\ overlap' = FALSE
  /\ form' = FreshForm

PageInit ==
  /\ Init
  /\ page = "issue" /\ restored = FALSE /\ visited = {} /\ kept = NothingKept
  /\ \E app \in BOOLEAN : card = [FreshCard(app) EXCEPT !.mode = IF app THEN "app" ELSE "none"]
  /\ box \in {"plain", "live"} /\ copy = FreshCopy /\ overlap = FALSE /\ form = FreshForm
-----------------------------------------------------------------------------
(* The life of a page. *)

LoadPage(p) ==
  /\ Load(Here)
  /\ page' = p /\ restored' = FALSE /\ visited' = {} /\ kept' = NothingKept
  /\ \E app \in BOOLEAN : FreshBody(app /\ p = "issue")

\* Mutated form: the application's frames are chosen although there may be none.
PreparedAlways(c) == [c EXCEPT !.mode = "app"]

\* prepareStackTraces chooses the application's frames if there are any.
Prepared(c) == [c EXCEPT !.mode = IF c.app THEN "app" ELSE @]

\* enhance(document), and the listeners of the form: an editor may fail to start.
PageReady ==
  /\ DomReady(Here)
  /\ card' = Prepared(card)
  /\ box' \in IF page = "issue" THEN {"plain", "live"} ELSE {box}
  /\ form' = [form EXCEPT !.listens = page = "projects"]
  /\ UNCHANGED <<page, restored, visited, kept, copy, overlap>>

\* htmx keeps markup: an editor without its code, a button without its timers.
Markup ==
  [card |-> card, box |-> IF box = "live" THEN "husk" ELSE box,
   copy |-> [copy EXCEPT !.asks = 0, !.later = <<>>],
   overlap |-> overlap]

Leave ==
  /\ visited' = visited \cup {page}
  /\ kept' = IF page = "issue" THEN Markup ELSE kept

\* A link of the navigation: the new body is enhanced, but the form's listeners were
\* attached when the document was loaded.
Boost(p) ==
  /\ ready[Here] /\ p \in Boosted
  /\ Leave
  /\ page' = p /\ restored' = FALSE
  /\ FreshBody(FALSE)
  /\ Sync(Here) /\ UNCHANGED ready

\* Back or forward to a page whose markup was kept, by the browser or by
\* [data-history-back].
Restore(p) ==
  /\ ready[Here] /\ p \in visited
  /\ Leave
  /\ page' = p /\ restored' = TRUE
  /\ IF p = "issue"
       THEN card' = kept'.card /\ box' = kept'.box /\ copy' = kept'.copy
            /\ overlap' = kept'.overlap /\ form' = FreshForm
       ELSE FreshBody(FALSE)
  /\ Rebuild(Here)

\* The markup could not be kept; htmx asks the server, and does not announce the body.
RestoreMissed(p) ==
  /\ ready[Here] /\ p \in visited
  /\ storage # "ok"
  /\ Leave
  /\ page' = p /\ restored' = TRUE
  /\ \E app \in BOOLEAN : FreshBody(app /\ p = "issue")
  /\ Rebuild(Here)
-----------------------------------------------------------------------------
(* The issue page. *)

OnIssue == page = "issue" /\ ready[Here]

\* [data-stack-mode]
ChooseFrames(mode) ==
  /\ OnIssue
  /\ card' = [card EXCEPT !.mode = mode, !.active = mode, !.asked = @ \/ mode = "app"]
  /\ UNCHANGED <<themeVars, page, restored, visited, kept, box, copy, overlap, form>>

\* [data-copy-url]
ClickCopy ==
  /\ OnIssue /\ copy.asks + Len(copy.later) < MaxClicks
  /\ copy' = [copy EXCEPT !.asks = @ + 1]
  /\ UNCHANGED <<themeVars, page, restored, visited, kept, card, box, overlap, form>>

\* Mutated form: the text is put back, the mark is not taken off.
PutBackText(c) == [c EXCEPT !.text = Head(c.later), !.later = Tail(@)]

\* showCopyFeedback remembers the text it finds.
Feedback(c) == [c EXCEPT !.text = "copied", !.marked = TRUE, !.asks = @ - 1, !.later = Append(@, c.text)]
PutBack(c) == [c EXCEPT !.text = Head(c.later), !.marked = FALSE, !.later = Tail(@)]

\* The export was fetched and is on the clipboard.
Copied ==
  /\ copy.asks > 0
  /\ copy' = Feedback(copy)
  /\ overlap' = (overlap \/ copy.later # <<>>)
  /\ UNCHANGED <<themeVars, page, restored, visited, kept, card, box, form>>

\* It was not; it is opened in another window instead.
CopyFails ==
  /\ copy.asks > 0
  /\ copy' = [copy EXCEPT !.asks = @ - 1]
  /\ UNCHANGED <<themeVars, page, restored, visited, kept, card, box, overlap, form>>

\* The timers end in the order they were set.
FeedbackEnds ==
  /\ copy.later # <<>>
  /\ copy' = PutBack(copy)
  /\ UNCHANGED <<themeVars, page, restored, visited, kept, card, box, overlap, form>>
-----------------------------------------------------------------------------
(* The form for a new project. *)

\* Runs of other characters become one hyphen, those at the ends none; then the slug is cut.
Trimmed(text) ==
  SubSeq(text, IF text # <<>> /\ text[1] = "-" THEN 2 ELSE 1,
               IF text # <<>> /\ text[Len(text)] = "-" THEN Len(text) - 1 ELSE Len(text))

HyphenStep(name, n, text) ==
  IF name[n] = "-" /\ n > 1 /\ name[n - 1] = "-" THEN text ELSE Append(text, name[n])

Kebab(name) ==
  LET hyphened[n \in 0 .. Len(name)] == IF n = 0 THEN <<>> ELSE HyphenStep(name, n, hyphened[n - 1])
  IN  Trimmed(hyphened[Len(name)])

AutoSlug(name) ==
  LET all == Kebab(name) IN SubSeq(all, 1, IF Len(all) < SlugMax THEN Len(all) ELSE SlugMax)

\* What the server makes of a name that comes without a slug, character by character; a
\* separator waits for the next letter, and is left out when not both fit.
SlugStep(room, acc, ch) ==
  IF ch = "-" THEN [acc EXCEPT !.pending = TRUE]
  ELSE IF Len(acc.slug) = SlugMax THEN acc
  ELSE [slug |-> acc.slug \o (IF acc.pending /\ acc.slug # <<>> /\ Len(acc.slug) + room <= SlugMax
                                THEN <<"-", ch>> ELSE <<ch>>),
        pending |-> FALSE]

SlugWith(room, name) ==
  LET read[n \in 0 .. Len(name)] ==
        IF n = 0 THEN [slug |-> <<>>, pending |-> FALSE] ELSE SlugStep(room, read[n - 1], name[n])
  IN  read[Len(name)].slug

\* Mutated form: room for the separator is not room for the letter.
SlugifyNoRoom(name) == SlugWith(1, name)

Slugify(name) == SlugWith(2, name)

TypeName(name) ==
  /\ page = "projects" /\ ready[Here]
  /\ form' = [form EXCEPT !.name = name,
       !.slug = IF form.listens /\ ~form.edited THEN AutoSlug(name) ELSE @]
  /\ UNCHANGED <<themeVars, page, restored, visited, kept, card, box, copy, overlap>>

\* A slug of one's own is kept until it is emptied.
TypeSlug(slug) ==
  /\ page = "projects" /\ ready[Here]
  /\ form' = [form EXCEPT !.slug = slug, !.edited = IF form.listens THEN slug # <<>> ELSE @]
  /\ UNCHANGED <<themeVars, page, restored, visited, kept, card, box, copy, overlap>>
-----------------------------------------------------------------------------
\* What happens to the theme without a change of the page.
ThemeStep ==
  /\ \/ \E t \in Tab : Hear(t) \/ \E value \in Choice : (t = Here => page = "settings") /\ Choose(t, value)
     \/ \E t \in Tab \ {Here} : Load(t) \/ DomReady(t)
     \/ FlipDevice \/ StorageFails
  /\ UNCHANGED pageVars

PageStep ==
  \/ \E p \in Pages : LoadPage(p) \/ Boost(p) \/ Restore(p) \/ RestoreMissed(p)
  \/ PageReady
  \/ \E mode \in {"app", "all"} : ChooseFrames(mode)
  \/ ClickCopy \/ Copied \/ CopyFails \/ FeedbackEnds
  \/ \E name \in Name : TypeName(name) \/ TypeSlug(name)

PageNext == ThemeStep \/ PageStep

\* Browsers deliver events and run deferred scripts.
PageFairness == \A t \in Tab : WF_vars(HearStorage(t) /\ UNCHANGED pageVars)
Spec == PageInit /\ [][PageNext]_vars /\ PageFairness
-----------------------------------------------------------------------------
(* Properties. *)

\* The control on the settings page shows the preference the page shows, however the page was
\* reached and whoever changed the preference -- unless htmx put the body back, or the choice
\* could not be stored.
ControlAgrees ==
  page = "settings" /\ ready[Here] /\ news[Here] = 0 /\ ~unsaved[Here] =>
    control[Here] = shown[Here] \/ (restored /\ control[Here] = FirstOption)

\* When every copy has been acknowledged the button is as it was, unless copies overlapped or
\* the button was put back without its timer.
CopyButtonReturns ==
  copy.later = <<>> /\ ~restored => ~copy.marked /\ (overlap \/ copy.text = "original")

\* validate_slug, and the pattern of the field.
ValidSlug(slug) ==
  /\ Len(slug) \in 2 .. SlugMax
  /\ slug[1] # "-" /\ slug[Len(slug)] # "-"

\* A slug made of a name is one the server accepts unless the name has too few letters: always
\* when the server makes it, and when the page does unless it was cut.  What need not be cut is
\* the same slug.
AutoSlugIsValid ==
  LET whole == Len(Kebab(form.name)) <= SlugMax
      Accepted(slug) == Len(slug) < 2 \/ ValidSlug(slug)
  IN /\ Accepted(Slugify(form.name))
     /\ whole => Slugify(form.name) = AutoSlug(form.name)
     /\ form.listens /\ ~form.edited /\ whole /\ form.name # <<>> => Accepted(form.slug)
=============================================================================
