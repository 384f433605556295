------------------------------- MODULE AnswerFlow -------------------------------
(***************************************************************************)
(* Forms that ask the user (src/src/answer-flow.ts), for the questions of  *)
(* the agent (questions.ts) and the requests of MCP servers                *)
(* (elicitation.ts).  Requests wait for the one input owner; a request is  *)
(* then shown as a form with a page for each field and a review page, or,  *)
(* where there is no terminal, as one dialog after the other.  A request   *)
(* may be aborted at any time.                                             *)
(*                                                                         *)
(* An answer is a set of texts: of one text, where the code has a string,  *)
(* of the chosen ones, where it has an array.  The row the cursor is on is *)
(* left out: the arrow keys reach every row and do nothing else.           *)
(***************************************************************************)
EXTENDS Naturals, Sequences

CONSTANTS
    Request,    \* requests
    Field,      \* their fields
    Text,       \* what may be typed or chosen
    Empty,      \* the empty text
    Blank,      \* the texts of nothing but blanks
    None,       \* no answer, no draft, nobody
    FieldsOf,   \* the fields of a request, in order
    Declinable, \* the requests that offer to be declined
    Options,    \* the texts a field offers
    Texts,      \* the texts that users type for a field
    Multiple,   \* the fields of which several options may be chosen
    Custom,     \* the fields with options that take a text as well
    Required,   \* the fields that must be answered
    Initial,    \* the answer a field starts with
    Accepted    \* the answers that the validation of a field accepts

Answer == SUBSET Text

ASSUME FormAssumption ==
    /\ FieldsOf \in [Request -> Seq(Field)]
    /\ \A r \in Request : \A i, j \in 1..Len(FieldsOf[r]) :
          FieldsOf[r][i] = FieldsOf[r][j] => i = j
    /\ Options \in [Field -> SUBSET Text]
    /\ Texts \in [Field -> SUBSET Text]
    /\ Initial \in [Field -> {None} \cup Answer]
    /\ Accepted \in [Field -> SUBSET Answer]
    /\ Empty \in Blank /\ Blank \subseteq Text
    /\ None \notin Text \cup Request /\ \A v \in Answer : v # None
    \* Multiple choice and texts of one's own come with options (questionFields,
    \* elicitationFields).  Where there is one choice, the answer is a string.
    /\ \A f \in Multiple \cup Custom : Options[f] # {}
    /\ \A f \in Field \ Multiple : Initial[f] # None => \E t \in Text : Initial[f] = {t}
    \* Questions have no default, and they alone take texts beside several choices.
    /\ \A f \in Multiple \cap Custom : Initial[f] = None

VARIABLES
    mode,       \* "tui" or "dialogs": what the user's interface offers
    owner,      \* the request that has the permit of inputOwner, or None
    stage,      \* where each request is
    aborted,    \* the requests that were aborted
    cancelling, \* the requests whose form is going to cancel itself
    page,       \* the field asked for; after the last comes the review
    editing,    \* whether keys go to the text input
    input,      \* the text in it
    values,     \* the answers given so far
    drafts,     \* the texts left in the input without being confirmed
    latest      \* the text last typed for a field since it was last decided on

form == <<page, editing, input, values, drafts, latest>>

vars == <<mode, owner, stage, aborted, cancelling, form>>

Stage == {"idle", "queued", "opening", "open", "dialog",
          "accept", "decline", "cancel", "aborted"}

OnScreen == {"opening", "open", "dialog"}

Fields(r) == {FieldsOf[r][i] : i \in 1..Len(FieldsOf[r])}

Review(r) == Len(FieldsOf[r]) + 1

\* The form that keys reach, and the field of the page it is on.
Keys(r) == stage[r] = "open" /\ r \notin aborted

Here(r) == FieldsOf[r][page]

OnField(r) == page < Review(r)

\* Questions are answered with texts that are not blank (questionFields).
QuestionAccepts == {v \in Answer : v # {} /\ v \cap Blank = {}}

\* validateAnswer.
Valid(f, v) ==
    IF v = None THEN f \notin Required
    ELSE /\ Options[f] # {} /\ f \notin Custom => v \subseteq Options[f]
         /\ v \in Accepted[f]

Given(f) == IF values[f] = None THEN {} ELSE values[f]

\* Mutant: an answer that is missing is put into the input as it is.
TextOrNothing(v) == IF v \in {None, {}} THEN None ELSE CHOOSE t \in v : TRUE

\* What the input shows of an answer.
TextIn(v) == IF v \in {None, {}} THEN Empty ELSE CHOOSE t \in v : TRUE

\* The text of an answer that a draft replaces.
Previous(f) == TextIn(IF f \in Multiple THEN Given(f) \ Options[f] ELSE values[f])

-----------------------------------------------------------------------------
(***************************************************************************)
(* Requests and their turns.                                               *)
(***************************************************************************)

ClearForm ==
    /\ page' = 1
    /\ editing' = FALSE
    /\ input' = Empty
    /\ values' = [f \in Field |-> None]
    /\ drafts' = [f \in Field |-> None]
    /\ latest' = [f \in Field |-> None]

Goto(r, step) == stage' = [stage EXCEPT ![r] = step]

Ask(r) ==
    /\ stage[r] = "idle"
    /\ Goto(r, "queued")
    /\ UNCHANGED <<mode, owner, aborted, cancelling, form>>

Take(r) ==
    /\ stage[r] = "queued"
    /\ owner = None
    /\ owner' = r
    /\ Goto(r, IF mode = "tui" THEN "opening" ELSE "dialog")
    /\ UNCHANGED <<mode, aborted, cancelling, form>>

\* Mutant: the text of the page before stays in the input.
EnterWithText(r, p, vs, ds) ==
    LET f == FieldsOf[r][p] IN
    /\ page' = p
    /\ editing' = (p # Review(r) /\ Options[f] = {})
    /\ input' = IF p # Review(r) /\ ds[f] # None THEN ds[f] ELSE input

\* enterPage, when the answers and drafts have become vs and ds.
EnterPage(r, p, vs, ds) ==
    LET f == FieldsOf[r][p] IN
    /\ page' = p
    /\ IF p = Review(r)
       THEN editing' = FALSE /\ input' = Empty
       ELSE /\ editing' = (Options[f] = {})
            /\ input' = IF ds[f] # None THEN ds[f]
                        ELSE IF f \in Multiple THEN Empty ELSE TextIn(vs[f])

\* Mutant: a form that missed the signal is not cancelled.
ConstructDeaf(r) ==
    /\ stage[r] = "opening"
    /\ Goto(r, "open")
    /\ LET vs == [f \in Field |-> IF f \in Fields(r) THEN Initial[f] ELSE None] IN
       /\ EnterPage(r, 1, vs, drafts)
       /\ values' = vs
    /\ UNCHANGED <<mode, owner, aborted, cancelling, drafts, latest>>

\* The interface builds the form.  One whose request was aborted meanwhile has missed
\* the signal; it cancels itself in a microtask, before any key can reach it.
Construct(r) ==
    /\ stage[r] = "opening"
    /\ Goto(r, "open")
    /\ IF r \in aborted
       THEN /\ cancelling' = cancelling \cup {r}
            /\ UNCHANGED form
       ELSE LET vs == [f \in Field |-> IF f \in Fields(r) THEN Initial[f] ELSE None] IN
            /\ EnterPage(r, 1, vs, drafts)
            /\ values' = vs
            /\ UNCHANGED <<cancelling, drafts, latest>>
    /\ UNCHANGED <<mode, owner, aborted>>

CancelItself(r) ==
    /\ r \in cancelling
    /\ cancelling' = cancelling \ {r}
    /\ Goto(r, "aborted")
    /\ UNCHANGED <<mode, owner, aborted, form>>

\* Mutant: the permit waits for a form that is being built.
AbortLate(r) ==
    /\ stage[r] \in {"queued"} \cup OnScreen
    /\ r \notin aborted
    /\ aborted' = aborted \cup {r}
    /\ owner' = IF owner = r /\ stage[r] # "opening" THEN None ELSE owner
    /\ IF stage[r] = "opening" THEN UNCHANGED stage ELSE Goto(r, "aborted")
    /\ IF stage[r] \in {"open", "dialog"} THEN ClearForm ELSE UNCHANGED form
    /\ UNCHANGED <<mode, cancelling>>

\* The caller's signal, or the end of the session.  The permit is given back at once;
\* a form that is open is closed by the signal, one that is being built is not.
Abort(r) ==
    /\ stage[r] \in {"queued"} \cup OnScreen
    /\ r \notin aborted
    /\ aborted' = aborted \cup {r}
    /\ owner' = IF owner = r THEN None ELSE owner
    /\ IF stage[r] = "opening" THEN UNCHANGED stage ELSE Goto(r, "aborted")
    /\ IF stage[r] \in {"open", "dialog"} THEN ClearForm ELSE UNCHANGED form
    /\ UNCHANGED <<mode, cancelling>>

\* done: the request has its result, and the next one its turn.
Finish(r, result) ==
    /\ Goto(r, result)
    /\ owner' = None
    /\ ClearForm
    /\ UNCHANGED <<mode, aborted, cancelling>>

-----------------------------------------------------------------------------
(***************************************************************************)
(* Keys (handleInput).                                                     *)
(***************************************************************************)

requests == <<mode, owner, stage, aborted, cancelling>>

\* Mutant: a text is a draft only while there is no answer.
FirstDraft(r) ==
    IF OnField(r) /\ editing
    THEN [drafts EXCEPT ![Here(r)] =
             IF input = Previous(Here(r)) \/ values[Here(r)] # None THEN None ELSE input]
    ELSE drafts

\* saveDraft.
SavedDraft(r) ==
    IF OnField(r) /\ editing
    THEN [drafts EXCEPT ![Here(r)] = IF input = Previous(Here(r)) THEN None ELSE input]
    ELSE drafts

\* store and advance, when the answer is valid; otherwise an error is shown.
Store(r, v) ==
    LET f == Here(r)
        vs == [values EXCEPT ![f] = v]
        ds == [drafts EXCEPT ![f] = None]
    IN
    /\ Valid(f, v)
    /\ values' = vs
    /\ drafts' = ds
    /\ latest' = [latest EXCEPT ![f] = None]
    /\ EnterPage(r, page + 1, vs, ds)
    /\ UNCHANGED requests

\* Escape leaves the text of a field with options, and cancels anywhere else.
Escape(r) ==
    /\ Keys(r)
    /\ IF editing /\ Options[Here(r)] # {}
       THEN /\ drafts' = SavedDraft(r)
            /\ editing' = FALSE
            /\ UNCHANGED <<requests, page, input, values, latest>>
       ELSE Finish(r, "cancel")

\* Tab and its reverse go round the pages.
Turn(r) ==
    /\ Keys(r)
    /\ \E p \in {IF page = Review(r) THEN 1 ELSE page + 1,
                 IF page = 1 THEN Review(r) ELSE page - 1} :
          EnterPage(r, p, values, SavedDraft(r))
    /\ drafts' = SavedDraft(r)
    /\ UNCHANGED <<requests, values, latest>>

\* Ctrl+O omits an optional answer.
Omit(r) ==
    /\ Keys(r)
    /\ OnField(r)
    /\ Here(r) \notin Required
    /\ LET f == Here(r)
           vs == [values EXCEPT ![f] = None]
           ds == [drafts EXCEPT ![f] = None]
       IN /\ values' = vs
          /\ drafts' = ds
          /\ latest' = [latest EXCEPT ![f] = None]
          /\ EnterPage(r, page + 1, vs, ds)
    /\ UNCHANGED requests

Type(r) ==
    /\ Keys(r)
    /\ OnField(r)
    /\ editing
    /\ \E t \in Texts[Here(r)] \cup {Empty} :
          /\ input' = t
          /\ latest' = [latest EXCEPT ![Here(r)] = t]
    /\ UNCHANGED <<requests, page, editing, values, drafts>>

\* Enter on the text makes it the answer, or adds it to the chosen options, of which
\* none may come twice.
Save(r) ==
    /\ Keys(r)
    /\ OnField(r)
    /\ editing
    /\ LET f == Here(r)
           kept == Given(f) \cap Options[f]
       IN IF f \in Multiple
          THEN input \notin kept /\ Store(r, kept \cup ({input} \ Blank))
          ELSE Store(r, {input})

\* Enter or a digit on an option, where one is to be chosen.
Choose(r) ==
    /\ Keys(r)
    /\ OnField(r)
    /\ ~editing
    /\ Here(r) \notin Multiple
    /\ \E t \in Options[Here(r)] : Store(r, {t})

\* Space or a digit on an option, where several may be chosen.
Toggle(r) ==
    /\ Keys(r)
    /\ OnField(r)
    /\ ~editing
    /\ Here(r) \in Multiple
    /\ \E t \in Options[Here(r)] :
          values' = [values EXCEPT ![Here(r)] =
                        IF t \in Given(Here(r)) THEN Given(Here(r)) \ {t}
                        ELSE Given(Here(r)) \cup {t}]
    /\ UNCHANGED <<requests, page, editing, input, drafts, latest>>

\* Enter on an option, where several may be chosen, confirms them.
Continue(r) ==
    /\ Keys(r)
    /\ OnField(r)
    /\ ~editing
    /\ Here(r) \in Multiple
    /\ Store(r, Given(Here(r)))

\* Any of these keys on the row after the options.
Other(r) ==
    /\ Keys(r)
    /\ OnField(r)
    /\ ~editing
    /\ Here(r) \in Custom
    /\ editing' = TRUE
    /\ input' = IF drafts[Here(r)] # None THEN drafts[Here(r)]
                ELSE TextIn(Given(Here(r)) \ Options[Here(r)])
    /\ UNCHANGED <<requests, page, values, drafts, latest>>

\* The rows of the review page: an answer to go back to, ...
Revisit(r) ==
    /\ Keys(r)
    /\ page = Review(r)
    /\ \E p \in 1..Len(FieldsOf[r]) : EnterPage(r, p, values, drafts)
    /\ UNCHANGED <<requests, values, drafts, latest>>

Decline(r) ==
    /\ Keys(r)
    /\ page = Review(r)
    /\ r \in Declinable
    /\ Finish(r, "decline")

\* Mutant: an answer is not validated again.
UnsetOrDraft(r, i) ==
    LET f == FieldsOf[r][i] IN
    (f \in Required /\ values[f] = None) \/ drafts[f] # None

\* A field that holds the submission back.
Problem(r, i) ==
    LET f == FieldsOf[r][i] IN ~Valid(f, values[f]) \/ drafts[f] # None

\* ... and the submission, which goes to the first field with a problem instead.
Submit(r) ==
    LET problems == {i \in 1..Len(FieldsOf[r]) : Problem(r, i)} IN
    /\ Keys(r)
    /\ page = Review(r)
    /\ IF problems = {}
       THEN Finish(r, "accept")
       ELSE /\ \E i \in problems :
                  /\ \A j \in problems : i <= j
                  /\ EnterPage(r, i, values, drafts)
            /\ UNCHANGED <<requests, values, drafts, latest>>

-----------------------------------------------------------------------------
(***************************************************************************)
(* Dialogs (showDialogs): the fields one after the other, each until its   *)
(* answer is valid.                                                        *)
(***************************************************************************)

Dialog(r) == stage[r] = "dialog" /\ r \notin aborted

\* What a dialog may bring: an option or a text, or any list of texts.
Brought(f) ==
    IF f \in Multiple THEN SUBSET (Options[f] \cup Texts[f])
    ELSE {{t} : t \in Options[f] \cup
                      IF Options[f] # {} /\ f \notin Custom THEN {} ELSE Texts[f] \cup {Empty}}

AnswerDialog(r) ==
    /\ Dialog(r)
    /\ OnField(r)
    /\ \E v \in Brought(Here(r)) :
          /\ Valid(Here(r), v)
          /\ values' = [values EXCEPT ![Here(r)] = v]
    /\ page' = page + 1
    /\ UNCHANGED <<requests, editing, input, drafts, latest>>

\* Nothing is entered, or the answer omitted.
SkipDialog(r) ==
    /\ Dialog(r)
    /\ OnField(r)
    /\ Here(r) \notin Required
    /\ page' = page + 1
    /\ UNCHANGED <<requests, editing, input, values, drafts, latest>>

DismissDialog(r) == Dialog(r) /\ Finish(r, "cancel")

DecideDialog(r) ==
    /\ Dialog(r)
    /\ page = Review(r)
    /\ \E result \in {"accept"} \cup IF r \in Declinable THEN {"decline"} ELSE {} :
          Finish(r, result)

-----------------------------------------------------------------------------

Init ==
    /\ mode \in {"tui", "dialogs"}
    /\ owner = None
    /\ stage = [r \in Request |-> "idle"]
    /\ aborted = {}
    /\ cancelling = {}
    /\ page = 1
    /\ editing = FALSE
    /\ input = Empty
    /\ values = [f \in Field |-> None]
    /\ drafts = [f \in Field |-> None]
    /\ latest = [f \in Field |-> None]

Key(r) ==
    \/ Escape(r) \/ Turn(r) \/ Omit(r) \/ Type(r) \/ Save(r)
    \/ Choose(r) \/ Toggle(r) \/ Continue(r) \/ Other(r)
    \/ Revisit(r) \/ Decline(r) \/ Submit(r)

DialogStep(r) == AnswerDialog(r) \/ SkipDialog(r) \/ DismissDialog(r) \/ DecideDialog(r)

Next ==
    \E r \in Request :
        \/ Ask(r) \/ Take(r) \/ Construct(r) \/ CancelItself(r) \/ Abort(r)
        \/ Key(r)
        \/ DialogStep(r)

Spec == Init /\ [][Next]_vars

-----------------------------------------------------------------------------
(***************************************************************************)
(* Properties.                                                             *)
(***************************************************************************)

TypeOK ==
    /\ mode \in {"tui", "dialogs"}
    /\ owner \in Request \cup {None}
    /\ stage \in [Request -> Stage]
    /\ aborted \subseteq Request
    /\ cancelling \subseteq Request
    /\ page \in Nat \ {0}
    /\ editing \in BOOLEAN
    /\ input \in Text
    /\ values \in [Field -> {None} \cup Answer]
    /\ drafts \in [Field -> Text \cup {None}]
    /\ latest \in [Field -> Text \cup {None}]

\* The terminal has one owner, which is a request on the screen that nobody aborted:
\* an aborted one has given it back, whatever it was doing (answerFormEffect).
OneInputOwner ==
    \A r \in Request : owner = r <=> stage[r] \in OnScreen /\ r \notin aborted

\* A request that is aborted ends: it is over, or its form is about to go, or to be
\* built, which will see to it (showForm).
AbortedFormsClose ==
    /\ \A r \in aborted : \/ stage[r] \in {"opening", "aborted"}
                          \/ stage[r] = "open" /\ r \in cancelling
    /\ \A r \in cancelling : r \in aborted /\ stage[r] = "open"

\* Whatever way the user goes through the pages, an answer or draft of a field is of
\* its own options and texts, never of what was typed on another page (enterPage).
OwnTexts(f) ==
    Options[f] \cup Texts[f] \cup {Empty} \cup (IF Initial[f] = None THEN {} ELSE Initial[f])

AnswersAreTheirFields ==
    \A f \in Field :
        /\ Given(f) \subseteq OwnTexts(f)
        /\ drafts[f] # None => drafts[f] \in OwnTexts(f)

IsClear ==
    /\ page = 1
    /\ ~editing
    /\ \A f \in Field : values[f] = None /\ drafts[f] = None /\ latest[f] = None

\* The form is that of the owner, and untouched until it is shown.
FormIsTheOwners ==
    /\ owner = None => IsClear
    /\ owner # None /\ stage[owner] = "opening" => IsClear
    /\ owner # None => page <= Review(owner)
    /\ editing => /\ owner # None /\ stage[owner] = "open"
                  /\ OnField(owner)
                  /\ input \in OwnTexts(Here(owner))

\* Dialogs leave nothing unconfirmed, and valid answers to what was asked.
DialogsAreValid ==
    owner # None /\ stage[owner] = "dialog" =>
        /\ \A f \in Field : drafts[f] = None /\ latest[f] = None
        /\ \A i \in 1..Len(FieldsOf[owner]) :
              IF i < page THEN Valid(FieldsOf[owner][i], values[FieldsOf[owner][i]])
              ELSE values[FieldsOf[owner][i]] = None

\* What was typed last is in the input, or a draft, unless it is the answer.
EditingOf(f) == editing /\ owner # None /\ f = Here(owner)

DraftsAreTyped ==
    \A f \in Field : latest[f] # None =>
        \/ latest[f] = Previous(f)
        \/ EditingOf(f) /\ input = latest[f]
        \/ ~EditingOf(f) /\ drafts[f] = latest[f]

\* The inductive invariant behind the properties.
AnswerInv ==
    /\ TypeOK
    /\ OneInputOwner
    /\ AbortedFormsClose
    /\ AnswersAreTheirFields
    /\ FormIsTheOwners
    /\ DialogsAreValid
    /\ DraftsAreTyped

Accepts(r) == stage[r] # "accept" /\ stage'[r] = "accept"

\* A request is accepted with valid answers only, and with one for each required
\* field, in whatever order fields were answered, changed, toggled and omitted
\* (reviewAction, showDialogs).
SubmittedAnswersAreValid ==
    [][\A r \in Request : Accepts(r) => \A f \in Fields(r) : Valid(f, values[f])]_vars

\* No text is silently dropped: what the user typed last for a field, unless he
\* chose, confirmed or omitted since, is what is submitted (saveDraft, reviewAction).
TypedTextIsSubmitted ==
    [][\A r \in Request : Accepts(r) =>
          \A f \in Fields(r) : latest[f] \in {None, Previous(f)}]_vars
=============================================================================
