------------------------------ MODULE WikiLive ------------------------------
(***************************************************************************)
(* Live editing of a published wiki page (internal/store/wiki_live.go, the *)
(* drafts of wiki_drafts.go, the page form of internal/web/wiki.go and     *)
(* startLiveEditing in web/static/wiki.js).  Every open editor exchanges   *)
(* its one unsent change with the shared document once a second; a change  *)
(* is accepted at the latest revision only, and an editor that is behind   *)
(* gets what it missed and carries its own work over.                      *)
(*                                                                         *)
(*   page       wiki_pages: version and body (the page stays current)      *)
(*   draft      wiki_content_drafts: the text, or NoText                   *)
(*   doc        wiki_live_documents: <<>> or <<the row>>                   *)
(*   kept       wiki_live_changes, at most KeptChanges, oldest first       *)
(*   carets     wiki_live_cursors: a position or NoCaret                   *)
(*   editor     what the browser of each person holds; when the editor is  *)
(*              not open, its entry in localStorage                        *)
(*   calls      the exchanges under way.  A call whose editor has given it *)
(*              up goes on in the server until it notices                  *)
(*   discarding a discard has deleted the draft and not the document yet   *)
(*                                                                         *)
(* A call is one request: the server reads the page and its draft (Send),  *)
(* then locks, reads and writes the live document in a transaction         *)
(* (CatchUp, RefuseChange, Accept), then may save the draft (SaveDraft);   *)
(* what it answers arrives with the last of these.                         *)
(*                                                                         *)
(* A page is edited as storage, in a text area, or in the rich editor,     *)
(* which draws the storage it is given and leaves out of its sight what it *)
(* cannot draw: such storage is not shown at all, though the exchange goes *)
(* on as if it were (richText.set).                                        *)
(*                                                                         *)
(* History and bounds.                                                     *)
(*   fresh      the number of the next session                             *)
(*   typed      the characters somebody has typed (each is typed once)     *)
(*   erased     the characters somebody has deleted                        *)
(*   replaced   the characters an editor took for deleted because it       *)
(*              opened without them (opening) or could not show them       *)
(*              (drawing), and how often an answer was not shown (misses)  *)
(*   events     what happened besides typing and exchanges                 *)
(***************************************************************************)
EXTENDS LiveText, FiniteSets

CONSTANTS Editors, Chars, Markup, Macros, SourceOnly, StartTexts, NoText, NoCaret,
          KeptChanges, MaxBody, MaxEvents, MaxMisses

StartChars == UNION {ToSet(text) : text \in StartTexts}

(* NoText is no text: null, or nothing under the key of localStorage. *)
ASSUME TextAssumption ==
    /\ StartTexts \subseteq Seq(StartChars)
    /\ NoText \notin Seq(StartChars \cup UNION {Chars[e] : e \in Editors})
ASSUME KeptAssumption == KeptChanges \in Nat \ {0}
ASSUME LimitAssumption == MaxBody \in Nat
ASSUME EventsAssumption == MaxEvents \in Nat /\ MaxMisses \in Nat

VARIABLES page, draft, doc, kept, carets, editor, calls, discarding,
          fresh, typed, erased, replaced, events

content == <<page, draft>>
shared == <<doc, kept, carets, fresh>>
hands == <<typed, erased>>
liveVars == <<content, shared, editor, calls, discarding, hands, replaced, events>>

(* Text caught in the middle of a tag does not render (wikimarkup.Render): *)
(* a character in Markup stands for half a tag.                            *)
Renders(text) == ToSet(text) \cap Markup = {}

(* What the rich editor would lose, such as a task list, is edited as      *)
(* storage: SourceOnly stands for it.                                      *)
RichEditable(text) == Renders(text) /\ ToSet(text) \cap SourceOnly = {}

(* The page is rendered with the macros and layouts the rich editor holds  *)
(* (Macros), but the editor cannot draw them again (renderStorage).        *)
Draws(text) == RichEditable(text) /\ ToSet(text) \cap Macros = {}

(* The characters of which `text' has fewer than `body'. *)
Places(text, c) == {n \in 1..Len(text) : text[n] = c}
Lacking(text, body) ==
    {c \in ToSet(body) : Cardinality(Places(text, c)) < Cardinality(Places(body, c))}

(* What the page is edited from: its draft, if there is one. *)
Rendered == IF draft = NoText THEN page.body ELSE draft

(* An editor without an entry of its own on the device. *)
Blank == [open |-> FALSE, rich |-> FALSE, session |-> 0, revision |-> 0, synced |-> NoText,
          initial |-> NoText, text |-> NoText, saves |-> 0]

(* What an editor shows after text.set(text). *)
Takes(ed, text) == ed.rich => Draws(text)
Showing(ed, text) == IF Takes(ed, text) THEN text ELSE ed.text

(* The caret of an editor is at the end of its text, where it is outside   *)
(* first when the document gets shorter; the server clamps it.             *)
Caret(sent, body) == Min({Len(sent), Len(body)})

(* A caret before a change stays, one after it moves by its length, one    *)
(* inside what it deleted lands after what it inserted.                    *)
MovedCaret(at, c) ==
    CASE at = NoCaret -> NoCaret
      [] at # NoCaret /\ at <= c.position -> at
      [] at # NoCaret /\ at > c.position /\ at >= c.position + c.delete ->
            at - c.delete + Len(c.insert)
      [] OTHER -> c.position + Len(c.insert)

(* The row that opens, or restarts, the document: a session of its own. *)
Opened(version, text) ==
    [session |-> fresh, revision |-> 0, base |-> version, body |-> text]

InitLive ==
    /\ page \in [version : {1}, body : StartTexts]
    /\ draft = NoText /\ doc = <<>> /\ kept = <<>>
    /\ carets = [e \in Editors |-> NoCaret]
    /\ editor = [e \in Editors |-> Blank]
    /\ calls = {} /\ discarding = FALSE
    /\ fresh = 1 /\ typed = {} /\ erased = {}
    /\ replaced = [opening |-> {}, drawing |-> {}, misses |-> 0]
    /\ events = 0

(* Of all that people and the network may do besides typing, MaxEvents     *)
(* things happen; MaxMisses answers at most are not shown (two editors     *)
(* that cannot show the page could go on for ever).                        *)
Happens == events < MaxEvents /\ events' = events + 1
-----------------------------------------------------------------------------
(***************************************************************************)
(* The browser.  The text is measured against what was synced or, before   *)
(* the first exchange, against what the page was rendered with.            *)
(***************************************************************************)
Base(ed) == IF ed.synced = NoText THEN ed.initial ELSE ed.synced

(* What is left on the device by keep() when the editor goes away. *)
Entry(ed) ==
    IF ed.text = Base(ed) THEN Blank
    ELSE [ed EXCEPT !.open = FALSE, !.rich = FALSE, !.synced = Base(ed), !.initial = NoText, !.saves = 0]

Waiting(e) == {k \in calls : k.who = e /\ k.waited}

(* The request is aborted: the server notices, or goes on with it. *)
Abandon(e) ==
    \/ calls' = calls \ Waiting(e)
    \/ calls' = (calls \ Waiting(e)) \cup {[k EXCEPT !.waited = FALSE] : k \in Waiting(e)}

(***************************************************************************)
(* The page form is rendered with the draft, if there is one.  Text that   *)
(* was left on the device comes back, unless the page contains just that;  *)
(* when it cannot be shown, what the page contains is measured against it. *)
(***************************************************************************)
OpenEditor(e) ==
    LET rendered == Rendered
        left == editor[e]
        back == left.text \notin {NoText, rendered}
        form == [(IF back THEN left ELSE Blank) EXCEPT
                    !.open = TRUE, !.rich = RichEditable(rendered),
                    !.initial = rendered, !.text = rendered, !.saves = page.version + 1]
        ed == IF back THEN [form EXCEPT !.text = Showing(form, left.text)] ELSE form IN
    /\ ~left.open
    /\ Happens
    /\ editor' = [editor EXCEPT ![e] = ed]
    /\ replaced' = IF back /\ ~Takes(form, left.text)
                      THEN [replaced EXCEPT !.drawing = @ \cup Lacking(ed.text, Base(ed))]
                      ELSE replaced
    /\ UNCHANGED <<content, shared, calls, discarding, hands>>

(* What is typed into the rich editor is written with whole tags.          *)
TypeIn(e, c, n) ==
    /\ editor[e].open /\ (editor[e].rich => RichEditable(<<c>>))
    /\ c \in Chars[e] \ typed /\ n \in 0..Len(editor[e].text)
    /\ typed' = typed \cup {c}
    /\ editor' = [editor EXCEPT ![e].text = InsertAt(@, n + 1, c)]
    /\ UNCHANGED <<content, shared, calls, discarding, erased, replaced, events>>

Erase(e, n) ==
    /\ editor[e].open /\ n \in 1..Len(editor[e].text)
    /\ Happens
    /\ erased' = erased \cup {editor[e].text[n]}
    /\ editor' = [editor EXCEPT ![e].text = RemoveAt(@, n)]
    /\ UNCHANGED <<content, shared, calls, discarding, typed, replaced>>

(***************************************************************************)
(* The one unsent change goes out, none before the first answer.  The      *)
(* server reads the page and its draft before it locks the document        *)
(* (lockWikiLiveDocument).                                                 *)
(***************************************************************************)
Send(e) ==
    LET ed == editor[e] IN
    /\ ed.open /\ Waiting(e) = {}
    /\ calls' = calls \cup
          {[who |-> e, waited |-> TRUE, at |-> "lock",
            session |-> ed.session, revision |-> ed.revision, sent |-> ed.text,
            changes |-> IF ed.synced = NoText THEN <<>> ELSE liveDiff(ed.synced, ed.text),
            version |-> page.version, body |-> Rendered]}
    /\ UNCHANGED <<content, shared, editor, discarding, hands, replaced, events>>

(* Fifteen seconds have passed, the network is gone, an answer is lost. *)
GiveUp(e) ==
    /\ Waiting(e) # {}
    /\ Happens
    /\ Abandon(e)
    /\ UNCHANGED <<content, shared, editor, discarding, hands, replaced>>

(* The tab is closed, reloaded, or dies. *)
CloseEditor(e) ==
    /\ editor[e].open
    /\ Happens
    /\ editor' = [editor EXCEPT ![e] = Entry(@)]
    /\ Abandon(e)
    /\ UNCHANGED <<content, shared, discarding, hands, replaced>>
-----------------------------------------------------------------------------
(***************************************************************************)
(* The answer reaches the editor (sync in startLiveEditing), which may     *)
(* show more by now than it sent.  An editor that has not synced before    *)
(* and still shows what the page was rendered with takes that for a change *)
(* of its own (OwnText).  What an editor could not show, it has synced.    *)
(***************************************************************************)
OwnText(ed) == ed.synced = NoText /\ ed.text = ed.initial

Synced(ed, latest, synced, text) ==
    [ed EXCEPT !.session = latest.session, !.revision = latest.revision,
               !.saves = latest.base + 1, !.synced = synced, !.text = text,
               !.initial = NoText]

Reloaded(ed, latest) ==
    Synced(ed, latest, latest.body,
           IF OwnText(ed) THEN ed.text
           ELSE Showing(ed, liveMerge(Base(ed), ed.text, liveDiff(Base(ed), latest.body))))

CaughtUp(ed, latest, changes) ==
    Synced(ed, latest, ApplyAll(ed.synced, changes),
           Showing(ed, liveMerge(ed.synced, ed.text, changes)))

(***************************************************************************)
(* The call is over; what it answered arrives, if somebody waits for it.   *)
(***************************************************************************)
Answer(k, received) ==
    /\ calls' = calls \ {k}
    /\ editor' = IF k.waited THEN [editor EXCEPT ![k.who] = received] ELSE editor
-----------------------------------------------------------------------------
(***************************************************************************)
(* The server locks the document as it is, opens it, or restarts it.       *)
(***************************************************************************)
Restarts(k) == doc = <<>> \/ doc[1].base # k.version
Locked(k) == IF Restarts(k) THEN Opened(k.version, k.body) ELSE doc[1]

\* Mutation: a change of another session is accepted at the same revision.
UpToDateByRevision(k) == k.revision = Locked(k).revision

UpToDate(k) == k.session = Locked(k).session /\ k.revision = Locked(k).revision

(* wikiLiveCatchUp: the changes that were missed, or the whole text if     *)
(* they are not those of this session or not all kept.                     *)
Missed(k) == Locked(k).revision - k.revision
MustReload(k) ==
    k.session # Locked(k).session \/ Missed(k) > KeptChanges \/ Missed(k) > Len(kept)

LastKept(n) == SubSeq(kept, Len(kept) - n + 1, Len(kept))

(* What the editor is to show is its own text, or the merge.               *)
Replaces(k) == MustReload(k) /\ OwnText(editor[k.who])

Merge(k) ==
    LET ed == editor[k.who] IN
    IF MustReload(k) THEN liveMerge(Base(ed), ed.text, liveDiff(Base(ed), Locked(k).body))
    ELSE liveMerge(ed.synced, ed.text, LastKept(Missed(k)))

Misses(k) == ~Replaces(k) /\ Showing(editor[k.who], Merge(k)) # Merge(k)

(* What the editor takes for deleted from now on.                          *)
Replaced(k) ==
    LET ed == editor[k.who]
        lacking == Lacking(ed.text, Locked(k).body) IN
    CASE Replaces(k) -> [replaced EXCEPT !.opening = @ \cup lacking]
      [] Misses(k) -> [replaced EXCEPT !.drawing = @ \cup lacking, !.misses = @ + 1]
      [] OTHER -> replaced

CatchUp(k) ==
    /\ k.at = "lock"
    /\ ~UpToDate(k) \/ k.changes = <<>>
    /\ doc' = <<Locked(k)>>
    /\ kept' = IF Restarts(k) THEN <<>> ELSE kept
    /\ fresh' = IF Restarts(k) THEN fresh + 1 ELSE fresh
    /\ carets' = CASE Restarts(k) -> [e \in Editors |-> NoCaret]
                   [] UpToDate(k) -> [carets EXCEPT ![k.who] = Caret(k.sent, doc[1].body)]
                   [] OTHER -> carets
    /\ Answer(k, IF MustReload(k) THEN Reloaded(editor[k.who], Locked(k))
                 ELSE CaughtUp(editor[k.who], Locked(k), LastKept(Missed(k))))
    /\ k.waited /\ Misses(k) => replaced.misses < MaxMisses
    /\ replaced' = IF k.waited THEN Replaced(k) ELSE replaced
    /\ UNCHANGED <<content, discarding, hands, events>>

(* Accepted(k): what the row is when the change is in it. *)
Accepted(k) == [doc[1] EXCEPT !.revision = @ + 1, !.body = liveApply(@, k.changes[1])]

(* A document that would be too long is left as it is, and the editor is   *)
(* told only that something went wrong.                                    *)
RefuseChange(k) ==
    /\ k.at = "lock" /\ doc # <<>> /\ UpToDate(k) /\ k.changes # <<>>
    /\ Fits(k.changes[1], doc[1].body) /\ Len(Accepted(k).body) > MaxBody
    /\ calls' = calls \ {k}
    /\ UNCHANGED <<content, shared, editor, discarding, hands, replaced, events>>

(***************************************************************************)
(* The change is accepted and kept, the oldest ones are pruned, and the    *)
(* carets move with it.  Text that renders is then saved as the draft.     *)
(***************************************************************************)
Accept(k) ==
    LET log == Append(kept, k.changes[1])
        text == Accepted(k).body IN
    /\ k.at = "lock" /\ doc # <<>> /\ UpToDate(k) /\ k.changes # <<>>
    /\ Fits(k.changes[1], doc[1].body) /\ Len(text) <= MaxBody
    /\ doc' = <<Accepted(k)>>
    /\ kept' = SubSeq(log, Max({1, Len(log) - KeptChanges + 1}), Len(log))
    /\ carets' = [e \in Editors |->
          IF e = k.who THEN Caret(k.sent, text) ELSE MovedCaret(carets[e], k.changes[1])]
    /\ IF Renders(text)
          THEN /\ calls' = (calls \ {k}) \cup {[k EXCEPT !.at = "save", !.revision = @ + 1, !.body = text]}
               /\ UNCHANGED editor
          ELSE Answer(k, Synced(editor[k.who], Accepted(k), k.sent, editor[k.who].text))
    /\ UNCHANGED <<content, discarding, fresh, hands, replaced, events>>

\* Mutation: the editor takes what it shows for what it sent.
SaveDraftSyncingShown(k) ==
    /\ k.at = "save"
    /\ draft' = k.body
    /\ Answer(k, Synced(editor[k.who], [session |-> k.session, revision |-> k.revision, base |-> k.version],
                        editor[k.who].text, editor[k.who].text))
    /\ UNCHANGED <<page, shared, discarding, hands, replaced, events>>

(* SaveWikiContentDraft, in a transaction of its own. *)
SaveDraft(k) ==
    /\ k.at = "save"
    /\ draft' = k.body
    /\ Answer(k, Synced(editor[k.who], [session |-> k.session, revision |-> k.revision, base |-> k.version],
                        k.sent, editor[k.who].text))
    /\ UNCHANGED <<page, shared, discarding, hands, replaced, events>>
-----------------------------------------------------------------------------
(* The form is submitted: nothing is exchanged any more. *)
Publishes(e) == editor[e].saves = page.version + 1 /\ Renders(editor[e].text)

(* SaveWikiPage: the next version; the draft is gone. *)
Publish(e) ==
    /\ editor[e].open /\ Publishes(e)
    /\ Happens
    /\ page' = [version |-> page.version + 1, body |-> editor[e].text]
    /\ draft' = NoText
    /\ editor' = [editor EXCEPT ![e] = Entry(@)]
    /\ Abandon(e)
    /\ UNCHANGED <<shared, discarding, hands, replaced>>

(* The save, of the page or of its draft, is refused and the form rendered *)
(* again with the refused text.  A draft is refused if it does not render. *)
PublishRefused(e) ==
    LET ed == editor[e] IN
    /\ ed.open /\ ~Publishes(e)
    /\ Happens
    /\ editor' = [editor EXCEPT ![e] =
          [Blank EXCEPT !.open = TRUE, !.rich = RichEditable(ed.text), !.initial = ed.text, !.text = ed.text, !.saves = ed.saves]]
    /\ Abandon(e)
    /\ UNCHANGED <<content, shared, discarding, hands, replaced>>

(* "Save as draft": the form's text, whatever the document says. *)
SaveAsDraft(e) ==
    /\ editor[e].open /\ Renders(editor[e].text)
    /\ Happens
    /\ draft' = editor[e].text
    /\ editor' = [editor EXCEPT ![e] = Entry(@)]
    /\ Abandon(e)
    /\ UNCHANGED <<page, shared, discarding, hands, replaced>>

(* WikiPageDraftDiscard: the draft, then the live document with its rows.  *)
(* The REST route has the first step only.                                 *)
DiscardDraft ==
    /\ draft # NoText /\ ~discarding
    /\ Happens
    /\ draft' = NoText /\ discarding' = TRUE
    /\ UNCHANGED <<page, shared, editor, calls, hands, replaced>>

CloseDocument ==
    /\ discarding
    /\ discarding' = FALSE
    /\ doc' = <<>> /\ kept' = <<>> /\ carets' = [e \in Editors |-> NoCaret]
    /\ UNCHANGED <<content, editor, calls, fresh, hands, replaced, events>>
-----------------------------------------------------------------------------
Serve(k) == CatchUp(k) \/ RefuseChange(k) \/ Accept(k) \/ SaveDraft(k)

Write(e) ==
    \/ \E c \in Chars[e], n \in 0..Len(editor[e].text) : TypeIn(e, c, n)
    \/ \E n \in 1..Len(editor[e].text) : Erase(e, n)

NextLive ==
    \/ \E e \in Editors :
          \/ OpenEditor(e) \/ (editor[e].open /\ Write(e)) \/ Send(e)
          \/ GiveUp(e) \/ CloseEditor(e)
          \/ Publish(e) \/ PublishRefused(e) \/ SaveAsDraft(e)
    \/ \E k \in calls : Serve(k)
    \/ DiscardDraft \/ CloseDocument

SpecLive == InitLive /\ [][NextLive]_liveVars

(***************************************************************************)
(* An open editor asks every second and what it has asked is answered: no  *)
(* call stays under way.                                                   *)
(***************************************************************************)
Ends(e) == \E k \in calls : k.who = e /\ calls' = calls \ {k}

FairnessLive == \A e \in Editors : WF_liveVars(Send(e)) /\ WF_calls(Ends(e))

FairSpecLive == SpecLive /\ FairnessLive
-----------------------------------------------------------------------------
LiveTypeOK ==
    /\ page.version \in Nat \ {0}
    /\ Len(doc) <= 1
    /\ \A k \in calls : k.at \in {"lock", "save"} /\ Len(k.changes) <= 1
    /\ \A e \in Editors : Cardinality(Waiting(e)) <= 1
    /\ erased \subseteq typed \cup StartChars

(***************************************************************************)
(* An editor on the document's session holds the document as it was at its *)
(* revision: the kept changes, done to what it synced, give the document.  *)
(***************************************************************************)
SyncedIsTheDocument ==
    \A e \in Editors :
        LET ed == editor[e]
            missed == doc[1].revision - ed.revision IN
        (doc # <<>> /\ ed.synced # NoText /\ ed.session = doc[1].session) =>
            /\ missed >= 0
            /\ missed <= Len(kept) => ApplyAll(ed.synced, LastKept(missed)) = doc[1].body

(* No change sent from the latest revision reaches past the document. *)
NothingIsRefused ==
    \A k \in calls :
        (k.at = "lock" /\ doc # <<>> /\ UpToDate(k) /\ k.changes # <<>>) =>
            Fits(k.changes[1], doc[1].body)

CaretsAreInside ==
    \A e \in Editors : carets[e] # NoCaret => doc # <<>> /\ carets[e] \in 0..Len(doc[1].body)

LiveInv == LiveTypeOK /\ SyncedIsTheDocument /\ NothingIsRefused /\ CaretsAreInside

(***************************************************************************)
(* Accepting a change takes a character out of the document only if        *)
(* somebody deleted it: whatever is carried over what, whichever answer is *)
(* lost and whenever the page is published, nobody's text is dropped by    *)
(* somebody else's typing (liveRebase, liveMerge).  Except for the text    *)
(* that an editor replaces when it opens, or cannot show when it gets it.  *)
(***************************************************************************)
SameDocument == doc # <<>> /\ doc' # <<>> /\ doc[1].session = doc'[1].session
Left == ToSet(doc[1].body) \ ToSet(doc'[1].body)

TextLeavesByErasure ==
    [][SameDocument => Left \subseteq erased \cup replaced.opening \cup replaced.drawing]_liveVars

(* The document is one that every open editor can show, as is what it      *)
(* shows, and no text is too long for it.                                  *)
Showable ==
    \A e \in Editors :
        editor[e].open => /\ doc # <<>> => Takes(editor[e], doc[1].body)
                          /\ Takes(editor[e], editor[e].text)
                          /\ Len(editor[e].text) <= MaxBody

Agreed ==
    \A e \in Editors :
        editor[e].open => /\ doc # <<>>
                          /\ editor[e].text = doc[1].body
                          /\ editor[e].synced = doc[1].body

(***************************************************************************)
(* When people stop typing, publishing and losing answers, all open        *)
(* editors show the document, with nothing left to send, provided that     *)
(* they can show it.                                                       *)
(***************************************************************************)
EditorsConverge == <>[]Showable => <>[]Agreed
-----------------------------------------------------------------------------
(***************************************************************************)
(* docs/CONFLUENCE_LIVE.md:81-82: "The rich editor redraws merged markup   *)
(* in place", and :61, "nobody's inserted text is deleted".  Opening aside *)
(* text leaves by erasure alone.                                           *)
(***************************************************************************)
RedrawnTextStays ==
    [][SameDocument => Left \subseteq erased \cup replaced.opening]_liveVars

(***************************************************************************)
(* docs/CONFLUENCE_LIVE.md:61: "nobody's inserted text is deleted".        *)
(***************************************************************************)
NobodysTextIsDeleted == [][SameDocument => Left \subseteq erased]_liveVars

(***************************************************************************)
(* wiki_live.go:262: whenever the merged text is valid storage it becomes  *)
(* the content's draft; docs/CONFLUENCE_LIVE.md:65.                        *)
(***************************************************************************)
DraftIsTheDocument ==
    (doc # <<>> /\ calls = {} /\ ~discarding) =>
        (doc[1].base = page.version /\ doc[1].revision > 0 /\ Renders(doc[1].body)
            => draft = doc[1].body)

(***************************************************************************)
(* wiki.go:2600: editors still open would otherwise write the discarded    *)
(* text back.                                                              *)
(***************************************************************************)
DiscardedTextStaysAway ==
    [][\A k \in calls \ calls' :
          k.at = "save" /\ draft # k.body /\ draft' = k.body
              => doc # <<>> /\ doc[1].session = k.session]_liveVars
=============================================================================
