---------------------------- MODULE AnswerFlowProofs ----------------------------
(***************************************************************************)
(* Theorems about AnswerFlow, for all requests, fields and texts.          *)
(***************************************************************************)
EXTENDS AnswerFlow, TLAPS

-----------------------------------------------------------------------------
(***************************************************************************)
(* Texts, fields and pages.                                                *)
(***************************************************************************)

\* The input shows a text of the answer, or nothing.
LEMMA TextInBelongs ==
    ASSUME NEW S, NEW v, v = None \/ v \subseteq S
    PROVE  TextIn(v) \in S \cup {Empty}
<1>1. CASE v = None \/ v = {}
    BY <1>1 DEF TextIn
<1>2. CASE v # None /\ v # {}
    <2>1. \E t : t \in v
        BY <1>2, Zenon
    <2>2. (CHOOSE t \in v : TRUE) \in v
        BY <2>1, Zenon
    <2>3. v \subseteq S
        BY <1>2
    <2>4. TextIn(v) = CHOOSE t \in v : TRUE
        BY <1>2, Zenon DEF TextIn
    <2> QED
        BY <2>2, <2>3, <2>4, Zenon
<1> QED
    BY <1>1, <1>2

\* The texts of a field are texts.
LEMMA OwnTextsAreTexts == \A f \in Field : OwnTexts(f) \subseteq Text /\ Empty \in OwnTexts(f)
BY FormAssumption, Zenon DEF OwnTexts, Answer

\* A page before the review is that of a field of the request.
LEMMA PageHasField ==
    ASSUME NEW r \in Request, NEW p \in Nat \ {0}, p < Review(r)
    PROVE  p \in 1..Len(FieldsOf[r]) /\ FieldsOf[r][p] \in Field
<1>1. FieldsOf[r] \in Seq(Field)
    BY FormAssumption
<1> QED
    BY <1>1 DEF Review

\* Fields without options take one text.
LEMMA OneTextFields == \A f \in Field : Options[f] = {} => f \notin Multiple
BY FormAssumption

\* Who gets keys, or is in a dialog, is the owner.
LEMMA KeysMeanOwner ==
    ASSUME OneInputOwner, NEW r \in Request, Keys(r) \/ Dialog(r)
    PROVE  owner = r
BY DEF OneInputOwner, Keys, Dialog, OnScreen

\* What entering a page does to the input, when the answers become vs and the drafts ds.
LEMMA EnteredPage ==
    ASSUME NEW r \in Request, NEW p \in 1..Review(r), NEW vs, NEW ds,
           \A f \in Field : vs[f] = None \/ vs[f] \subseteq OwnTexts(f),
           \A f \in Field : ds[f] = None \/ ds[f] \in OwnTexts(f),
           EnterPage(r, p, vs, ds)
    PROVE  /\ page' = p /\ page' \in Nat \ {0} /\ page' <= Review(r)
           /\ editing' \in BOOLEAN
           /\ input' \in Text
           /\ editing' => /\ page' < Review(r)
                          /\ FieldsOf[r][p] \in Field \ Multiple
                          /\ input' \in OwnTexts(FieldsOf[r][p])
                          /\ input' = IF ds[FieldsOf[r][p]] # None THEN ds[FieldsOf[r][p]]
                                      ELSE TextIn(vs[FieldsOf[r][p]])
<1>1. Review(r) \in Nat \ {0}
    BY FormAssumption DEF Review
<1>2. p \in Nat \ {0} /\ p <= Review(r)
    BY <1>1
<1>3. CASE p = Review(r)
    <2>1. page' = p /\ editing' = FALSE /\ input' = Empty
        BY <1>3 DEF EnterPage
    <2> QED
        BY <2>1, <1>2, FormAssumption
<1>4. CASE p # Review(r)
    <2> DEFINE f == FieldsOf[r][p]
    <2>1. p < Review(r)
        BY <1>1, <1>2, <1>4
    <2>2. f \in Field
        BY <1>2, <2>1, PageHasField
    <2>3. /\ page' = p
          /\ editing' = (Options[f] = {})
          /\ input' = IF ds[f] # None THEN ds[f]
                      ELSE IF f \in Multiple THEN Empty ELSE TextIn(vs[f])
        BY <1>4 DEF EnterPage
    <2>4. TextIn(vs[f]) \in OwnTexts(f) \cup {Empty}
        BY <2>2, TextInBelongs
    <2>5. input' \in OwnTexts(f)
        BY <2>2, <2>3, <2>4, OwnTextsAreTexts
    <2>6. input' \in Text
        BY <2>2, <2>5, OwnTextsAreTexts
    <2>7. editing' => f \notin Multiple
        BY <2>2, <2>3, OneTextFields
    <2>8. editing' \in BOOLEAN
        BY <2>3
    <2> HIDE DEF f
    <2>9. editing' => input' = IF ds[f] # None THEN ds[f] ELSE TextIn(vs[f])
        BY <2>3, <2>7
    <2> QED
        BY <1>2, <2>1, <2>2, <2>3, <2>5, <2>6, <2>7, <2>8, <2>9 DEF f
<1> QED
    BY <1>3, <1>4

-----------------------------------------------------------------------------
(***************************************************************************)
(* The inductive invariant.                                                *)
(***************************************************************************)

\* A key that leads to a page keeps the invariant, if it leaves answers and drafts
\* that are their fields', and no text that is neither answer nor draft.
LEMMA PageKeepsInv ==
    ASSUME AnswerInv, NEW r \in Request, Keys(r), NEW p \in 1..Review(r),
           EnterPage(r, p, values', drafts'),
           UNCHANGED requests,
           values' \in [Field -> {None} \cup Answer],
           drafts' \in [Field -> Text \cup {None}],
           latest' \in [Field -> Text \cup {None}],
           AnswersAreTheirFields',
           \A f \in Field : latest'[f] # None =>
               latest'[f] = Previous(f)' \/ drafts'[f] = latest'[f]
    PROVE  AnswerInv'
<1>1. owner = r /\ stage[r] = "open" /\ owner # None
    BY KeysMeanOwner, FormAssumption DEF AnswerInv, Keys
<1>2. \A f \in Field : values'[f] = None \/ values'[f] \subseteq OwnTexts(f)
    BY Zenon DEF AnswersAreTheirFields, Given, OwnTexts
<1>3. \A f \in Field : drafts'[f] = None \/ drafts'[f] \in OwnTexts(f)
    BY Zenon DEF AnswersAreTheirFields, OwnTexts
<1>4. /\ page' = p /\ page' \in Nat \ {0} /\ page' <= Review(r)
      /\ editing' \in BOOLEAN
      /\ input' \in Text
      /\ editing' => /\ page' < Review(r)
                     /\ FieldsOf[r][p] \in Field \ Multiple
                     /\ input' \in OwnTexts(FieldsOf[r][p])
                     /\ input' = IF drafts'[FieldsOf[r][p]] # None THEN drafts'[FieldsOf[r][p]]
                                 ELSE TextIn(values'[FieldsOf[r][p]])
    BY <1>2, <1>3, EnteredPage
<1>5. TypeOK'
    BY <1>4 DEF AnswerInv, TypeOK, requests
<1>6. OneInputOwner' /\ AbortedFormsClose'
    BY DEF AnswerInv, OneInputOwner, AbortedFormsClose, requests
<1>7. FormIsTheOwners'
    <2>1. owner' = r /\ stage'[r] = "open"
        BY <1>1 DEF requests
    <2>2. editing' => OnField(r)' /\ input' \in OwnTexts(Here(r))'
        BY <1>4 DEF OnField, Here, Review, OwnTexts
    <2>3. page' <= Review(r)'
        BY <1>4 DEF Review
    <2> QED
        BY <2>1, <2>2, <2>3, <1>1 DEF FormIsTheOwners
<1>8. DialogsAreValid'
    BY <1>1 DEF DialogsAreValid, requests
<1>9. DraftsAreTyped'
    <2> SUFFICES ASSUME NEW f \in Field, latest'[f] # None
                 PROVE  \/ latest'[f] = Previous(f)'
                        \/ EditingOf(f)' /\ input' = latest'[f]
                        \/ ~EditingOf(f)' /\ drafts'[f] = latest'[f]
        BY Zenon DEF DraftsAreTyped
    <2>1. CASE drafts'[f] = latest'[f] /\ EditingOf(f)'
        <3>1. editing' /\ f = FieldsOf[r][p]
            BY <2>1, <1>1, <1>4 DEF EditingOf, Here, requests
        <3>2. input' = drafts'[f]
            BY <2>1, <3>1, <1>4
        <3> QED
            BY <2>1, <3>2
    <2> QED
        BY <2>1
<1> QED
    BY <1>5, <1>6, <1>7, <1>8, <1>9 DEF AnswerInv

\* A form that is cleared has the form of one.
LEMMA ClearedForm ==
    ASSUME ClearForm
    PROVE  /\ IsClear'
           /\ page' \in Nat \ {0} /\ editing' \in BOOLEAN /\ input' \in Text
           /\ values' \in [Field -> {None} \cup Answer]
           /\ drafts' \in [Field -> Text \cup {None}]
           /\ latest' \in [Field -> Text \cup {None}]
           /\ AnswersAreTheirFields'
           /\ DraftsAreTyped'
<1>1. IsClear'
    BY DEF ClearForm, IsClear
<1>2. page' \in Nat \ {0} /\ editing' \in BOOLEAN /\ input' \in Text
    <2>1. Empty \in Text
        BY FormAssumption
    <2>2. page' \in Nat \ {0}
        BY DEF ClearForm
    <2>3. editing' \in BOOLEAN
        BY DEF ClearForm
    <2>4. input' \in Text
        BY <2>1 DEF ClearForm
    <2> QED
        BY <2>2, <2>3, <2>4
<1>3. values' \in [Field -> {None} \cup Answer]
    BY DEF ClearForm
<1>4. drafts' \in [Field -> Text \cup {None}] /\ latest' \in [Field -> Text \cup {None}]
    BY DEF ClearForm
<1>5. AnswersAreTheirFields'
    BY <1>1 DEF AnswersAreTheirFields, IsClear, Given
<1>6. DraftsAreTyped'
    BY <1>1 DEF DraftsAreTyped, IsClear
<1> QED
    BY <1>1, <1>2, <1>3, <1>4, <1>5, <1>6

\* The end of a request keeps the invariant.
LEMMA FinishKeepsInv ==
    ASSUME AnswerInv, NEW r \in Request, owner = r,
           NEW result \in {"accept", "decline", "cancel"}, Finish(r, result)
    PROVE  AnswerInv'
<1>1. owner' = None /\ stage' = [stage EXCEPT ![r] = result] /\ IsClear'
    BY ClearedForm DEF Finish, Goto
<1>2. TypeOK'
    BY <1>1, ClearedForm DEF AnswerInv, TypeOK, Finish, Stage
<1>3. OneInputOwner'
    BY <1>1, FormAssumption DEF AnswerInv, OneInputOwner, TypeOK, OnScreen, Finish
<1>4. AbortedFormsClose'
    BY <1>1, FormAssumption DEF AnswerInv, AbortedFormsClose, OneInputOwner, TypeOK, OnScreen, Finish
<1>5. AnswersAreTheirFields' /\ DraftsAreTyped'
    BY ClearedForm DEF Finish
<1>6. FormIsTheOwners'
    BY <1>1 DEF FormIsTheOwners, IsClear
<1>7. DialogsAreValid'
    BY <1>1 DEF DialogsAreValid
<1> QED
    BY <1>2, <1>3, <1>4, <1>5, <1>6, <1>7 DEF AnswerInv

\* A step of another request that leaves the form and its owner alone keeps what the
\* invariant says of them.
LEMMA FormUntouched ==
    ASSUME AnswerInv, UNCHANGED <<mode, owner, form>>,
           owner # None => stage'[owner] = stage[owner]
    PROVE  /\ AnswersAreTheirFields'
           /\ FormIsTheOwners'
           /\ DialogsAreValid'
           /\ DraftsAreTyped'
<1>1. UNCHANGED <<owner, page, editing, input, values, drafts, latest>>
    BY DEF form
<1>2. AnswersAreTheirFields'
    BY <1>1 DEF AnswerInv, AnswersAreTheirFields, Given
<1>3. FormIsTheOwners'
    BY <1>1 DEF AnswerInv, FormIsTheOwners, IsClear, OnField, Here
<1>4. DialogsAreValid'
    BY <1>1 DEF AnswerInv, DialogsAreValid
<1>5. DraftsAreTyped'
    BY <1>1 DEF AnswerInv, DraftsAreTyped, Previous, Given, EditingOf, Here
<1> QED
    BY <1>2, <1>3, <1>4, <1>5
-----------------------------------------------------------------------------
(***************************************************************************)
(* Requests and their turns.                                               *)
(***************************************************************************)

LEMMA AskKeepsInv == ASSUME AnswerInv, NEW r \in Request, Ask(r) PROVE AnswerInv'
<1>1. /\ stage[r] = "idle" /\ stage' = [stage EXCEPT ![r] = "queued"]
      /\ UNCHANGED <<mode, owner, aborted, cancelling, form>>
    BY DEF Ask, Goto
<1>2. TypeOK'
    BY <1>1 DEF AnswerInv, TypeOK, Stage, form
<1>3. OneInputOwner' /\ AbortedFormsClose'
    BY <1>1 DEF AnswerInv, TypeOK, OneInputOwner, AbortedFormsClose, OnScreen
<1>4. owner # None => stage'[owner] = stage[owner]
    BY <1>1 DEF AnswerInv, TypeOK, OneInputOwner, OnScreen
<1> QED
    BY <1>1, <1>2, <1>3, <1>4, FormUntouched DEF AnswerInv

LEMMA TakeKeepsInv == ASSUME AnswerInv, NEW r \in Request, Take(r) PROVE AnswerInv'
<1> DEFINE step == IF mode = "tui" THEN "opening" ELSE "dialog"
<1>1. /\ stage[r] = "queued" /\ stage' = [stage EXCEPT ![r] = step]
      /\ owner = None /\ owner' = r /\ IsClear
      /\ UNCHANGED <<mode, aborted, cancelling, form>>
    BY DEF Take, Goto, AnswerInv, FormIsTheOwners
<1>2. step \in {"opening", "dialog"} /\ r # None
    BY FormAssumption
<1> HIDE DEF step
<1>3. TypeOK'
    BY <1>1, <1>2 DEF AnswerInv, TypeOK, Stage, form
<1>4. r \notin aborted
    BY <1>1 DEF AnswerInv, AbortedFormsClose
<1>5. OneInputOwner'
    BY <1>1, <1>2, <1>4, FormAssumption DEF AnswerInv, OneInputOwner, TypeOK, OnScreen
<1>6. AbortedFormsClose'
    BY <1>1, <1>2, <1>4 DEF AnswerInv, AbortedFormsClose, TypeOK
<1>7. IsClear' /\ stage'[r] = step /\ 1 <= Review(r)
    BY <1>1, FormAssumption DEF IsClear, form, AnswerInv, TypeOK, Review
<1>8. AnswersAreTheirFields' /\ DraftsAreTyped'
    BY <1>7 DEF AnswersAreTheirFields, DraftsAreTyped, IsClear, Given
<1>9. FormIsTheOwners'
    BY <1>1, <1>2, <1>7 DEF FormIsTheOwners, IsClear, Review
<1>10. DialogsAreValid'
    <2>1. page' = 1 /\ \A f \in Field : values'[f] = None /\ drafts'[f] = None /\ latest'[f] = None
        BY <1>7 DEF IsClear
    <2>2. \A i \in 1..Len(FieldsOf[r]) : ~(i < 1) /\ FieldsOf[r][i] \in Field
        BY FormAssumption
    <2> QED
        BY <1>1, <2>1, <2>2 DEF DialogsAreValid
<1> QED
    BY <1>3, <1>5, <1>6, <1>8, <1>9, <1>10 DEF AnswerInv

\* What a form starts with belongs to its fields.
LEMMA InitialAnswers ==
    ASSUME NEW r \in Request
    PROVE  LET vs == [f \in Field |-> IF f \in Fields(r) THEN Initial[f] ELSE None] IN
           /\ vs \in [Field -> {None} \cup Answer]
           /\ \A f \in Field : vs[f] = None \/ vs[f] \subseteq OwnTexts(f)
BY FormAssumption DEF OwnTexts

LEMMA ConstructKeepsInv == ASSUME AnswerInv, NEW r \in Request, Construct(r) PROVE AnswerInv'
<1>1. /\ stage[r] = "opening" /\ stage' = [stage EXCEPT ![r] = "open"]
      /\ UNCHANGED <<mode, owner, aborted>>
    BY DEF Construct, Goto
<1>2. OneInputOwner'
    BY <1>1 DEF AnswerInv, OneInputOwner, TypeOK, OnScreen
<1>3. CASE r \in aborted
    <2>1. cancelling' = cancelling \cup {r} /\ UNCHANGED form
        BY <1>3 DEF Construct
    <2>2. owner # r
        BY <1>3, FormAssumption DEF AnswerInv, OneInputOwner
    <2>3. TypeOK'
        BY <1>1, <2>1 DEF AnswerInv, TypeOK, Stage, form
    <2>4. AbortedFormsClose'
        BY <1>1, <1>3, <2>1 DEF AnswerInv, AbortedFormsClose, TypeOK
    <2>5. owner # None => stage'[owner] = stage[owner]
        BY <1>1, <2>2 DEF AnswerInv, TypeOK
    <2> QED
        BY <1>1, <1>2, <2>1, <2>3, <2>4, <2>5, FormUntouched DEF AnswerInv
<1>4. CASE r \notin aborted
    <2>1. owner = r /\ owner # None /\ IsClear
        BY <1>1, <1>4, FormAssumption DEF AnswerInv, OneInputOwner, OnScreen, FormIsTheOwners
    <2>2. /\ EnterPage(r, 1, values', drafts)
          /\ values' = [f \in Field |-> IF f \in Fields(r) THEN Initial[f] ELSE None]
          /\ UNCHANGED <<cancelling, drafts, latest>>
        BY <1>4 DEF Construct
    <2>3. values' \in [Field -> {None} \cup Answer]
          /\ \A f \in Field : values'[f] = None \/ values'[f] \subseteq OwnTexts(f)
        BY <2>2, InitialAnswers
    <2>4. \A f \in Field : drafts[f] = None /\ latest[f] = None
        BY <2>1 DEF IsClear
    <2>5. 1 \in 1..Review(r)
        BY FormAssumption DEF Review
    <2>6. /\ page' \in Nat \ {0} /\ page' <= Review(r)
          /\ editing' \in BOOLEAN
          /\ input' \in Text
          /\ editing' => /\ page' < Review(r) /\ page' = 1
                         /\ input' \in OwnTexts(FieldsOf[r][1])
        BY <2>2, <2>3, <2>4, <2>5, EnteredPage
    <2>7. TypeOK'
        BY <1>1, <2>2, <2>3, <2>6 DEF AnswerInv, TypeOK, Stage
    <2>8. AbortedFormsClose'
        BY <1>1, <1>4, <2>2 DEF AnswerInv, AbortedFormsClose, TypeOK
    <2>9. AnswersAreTheirFields'
        BY <2>2, <2>3, <2>4, Zenon DEF AnswersAreTheirFields, Given, OwnTexts
    <2>10. FormIsTheOwners'
        BY <1>1, <2>1, <2>6 DEF FormIsTheOwners, OnField, Here, Review, OwnTexts, AnswerInv, TypeOK
    <2>11. DialogsAreValid' /\ DraftsAreTyped'
        BY <1>1, <2>1, <2>2, <2>4 DEF DialogsAreValid, DraftsAreTyped, AnswerInv, TypeOK
    <2> QED
        BY <1>2, <2>7, <2>8, <2>9, <2>10, <2>11 DEF AnswerInv
<1> QED
    BY <1>3, <1>4

LEMMA CancelItselfKeepsInv ==
    ASSUME AnswerInv, NEW r \in Request, CancelItself(r) PROVE AnswerInv'
<1>1. /\ r \in cancelling /\ cancelling' = cancelling \ {r}
      /\ stage' = [stage EXCEPT ![r] = "aborted"]
      /\ UNCHANGED <<mode, owner, aborted, form>>
    BY DEF CancelItself, Goto
<1>2. r \in aborted /\ owner # r
    BY <1>1, FormAssumption DEF AnswerInv, AbortedFormsClose, OneInputOwner
<1>3. TypeOK'
    BY <1>1 DEF AnswerInv, TypeOK, Stage, form
<1>4. OneInputOwner' /\ AbortedFormsClose'
    BY <1>1, <1>2 DEF AnswerInv, TypeOK, OneInputOwner, AbortedFormsClose, OnScreen
<1>5. owner # None => stage'[owner] = stage[owner]
    BY <1>1, <1>2 DEF AnswerInv, TypeOK
<1> QED
    BY <1>1, <1>3, <1>4, <1>5, FormUntouched DEF AnswerInv

LEMMA AbortKeepsInv == ASSUME AnswerInv, NEW r \in Request, Abort(r) PROVE AnswerInv'
<1>1. /\ stage[r] \in {"queued"} \cup OnScreen /\ r \notin aborted
      /\ aborted' = aborted \cup {r}
      /\ owner' = IF owner = r THEN None ELSE owner
      /\ UNCHANGED <<mode, cancelling>>
    BY DEF Abort
<1>2. stage' = IF stage[r] = "opening" THEN stage ELSE [stage EXCEPT ![r] = "aborted"]
    BY DEF Abort, Goto
<1>3. owner = r <=> stage[r] # "queued"
    BY <1>1 DEF AnswerInv, OneInputOwner, OnScreen
<1>4. OneInputOwner'
    BY <1>1, <1>2, <1>3, FormAssumption DEF AnswerInv, TypeOK, OneInputOwner, OnScreen
<1>5. AbortedFormsClose'
    BY <1>1, <1>2, FormAssumption DEF AnswerInv, TypeOK, AbortedFormsClose, OnScreen
<1>6. CASE stage[r] \in {"open", "dialog"}
    <2>1. ClearForm /\ owner' = None
        BY <1>1, <1>3, <1>6 DEF Abort
    <2>2. TypeOK'
        BY <1>1, <1>2, <2>1, ClearedForm DEF AnswerInv, TypeOK, Stage
    <2>3. FormIsTheOwners'
        BY <2>1, ClearedForm DEF FormIsTheOwners, IsClear
    <2>4. DialogsAreValid'
        BY <2>1 DEF DialogsAreValid
    <2> QED
        BY <1>4, <1>5, <2>1, <2>2, <2>3, <2>4, ClearedForm DEF AnswerInv
<1>7. CASE stage[r] = "opening"
    <2>1. UNCHANGED form /\ owner' = None /\ UNCHANGED stage /\ IsClear
        BY <1>1, <1>2, <1>3, <1>7, FormAssumption DEF Abort, AnswerInv, FormIsTheOwners
    <2>2. TypeOK'
        BY <1>1, <2>1 DEF AnswerInv, TypeOK, Stage, form
    <2>3. IsClear'
        BY <2>1 DEF IsClear, form
    <2>4. AnswersAreTheirFields' /\ DraftsAreTyped'
        BY <2>3 DEF AnswersAreTheirFields, DraftsAreTyped, IsClear, Given
    <2>5. FormIsTheOwners' /\ DialogsAreValid'
        BY <2>1, <2>3 DEF FormIsTheOwners, DialogsAreValid, IsClear
    <2> QED
        BY <1>4, <1>5, <2>2, <2>4, <2>5 DEF AnswerInv
<1>8. CASE stage[r] = "queued"
    <2>1. UNCHANGED form /\ UNCHANGED owner /\ owner # r
        BY <1>1, <1>3, <1>8 DEF Abort
    <2>2. TypeOK'
        BY <1>1, <1>2, <1>8, <2>1 DEF AnswerInv, TypeOK, Stage, form
    <2>3. owner # None => stage'[owner] = stage[owner]
        BY <1>2, <2>1 DEF AnswerInv, TypeOK
    <2> QED
        BY <1>1, <1>4, <1>5, <2>1, <2>2, <2>3, FormUntouched DEF AnswerInv
<1> QED
    BY <1>1, <1>6, <1>7, <1>8 DEF OnScreen
-----------------------------------------------------------------------------
(***************************************************************************)
(* Keys.                                                                   *)
(***************************************************************************)

\* What holds of the form that keys reach.
LEMMA KeysForm ==
    ASSUME AnswerInv, NEW r \in Request, Keys(r)
    PROVE  /\ owner = r /\ owner # None /\ stage[owner] = "open"
           /\ Review(r) \in Nat \ {0} /\ page \in 1..Review(r)
           /\ OnField(r) => Here(r) \in Field /\ page + 1 \in 1..Review(r)
           /\ editing => /\ OnField(r)
                         /\ input \in OwnTexts(Here(r)) /\ input \in Text
<1>1. owner = r /\ owner # None /\ stage[owner] = "open"
    BY KeysMeanOwner, FormAssumption DEF AnswerInv, Keys
<1>2. Review(r) \in Nat \ {0}
    BY FormAssumption DEF Review
<1>3. page \in Nat \ {0} /\ page <= Review(r)
    BY <1>1 DEF AnswerInv, TypeOK, FormIsTheOwners
<1>4. OnField(r) => Here(r) \in Field /\ page + 1 \in 1..Review(r)
    BY <1>2, <1>3, PageHasField DEF OnField, Here
<1>5. editing => OnField(r) /\ input \in OwnTexts(Here(r)) /\ input \in Text
    BY <1>1 DEF AnswerInv, FormIsTheOwners, TypeOK
<1> QED
    BY <1>1, <1>2, <1>3, <1>4, <1>5

\* Leaving a page, the text in its input becomes a draft unless it is the answer.
LEMMA DraftIsSaved ==
    ASSUME AnswerInv, NEW r \in Request, Keys(r)
    PROVE  /\ SavedDraft(r) \in [Field -> Text \cup {None}]
           /\ \A f \in Field : SavedDraft(r)[f] # None => SavedDraft(r)[f] \in OwnTexts(f)
           /\ \A f \in Field : latest[f] # None =>
                  latest[f] = Previous(f) \/ SavedDraft(r)[f] = latest[f]
<1>1. drafts \in [Field -> Text \cup {None}]
    BY DEF AnswerInv, TypeOK
<1>2. \A f \in Field : drafts[f] # None => drafts[f] \in OwnTexts(f)
    BY DEF AnswerInv, AnswersAreTheirFields
<1>3. CASE editing
    <2>1. OnField(r) /\ owner = r /\ owner # None /\ Here(r) \in Field
          /\ input \in OwnTexts(Here(r)) /\ input \in Text
        BY <1>3, KeysForm
    <2>2. SavedDraft(r) = [drafts EXCEPT ![Here(r)] =
              IF input = Previous(Here(r)) THEN None ELSE input]
        BY <1>3, <2>1 DEF SavedDraft
    <2>3. \A f \in Field : EditingOf(f) <=> f = Here(r)
        BY <1>3, <2>1 DEF EditingOf
    <2>4. ASSUME NEW f \in Field, latest[f] # None
          PROVE  latest[f] = Previous(f) \/ SavedDraft(r)[f] = latest[f]
        BY <1>1, <2>1, <2>2, <2>3, <2>4 DEF AnswerInv, DraftsAreTyped
    <2>5. SavedDraft(r) \in [Field -> Text \cup {None}]
        BY <1>1, <2>1, <2>2
    <2>6. \A f \in Field : SavedDraft(r)[f] # None => SavedDraft(r)[f] \in OwnTexts(f)
        BY <1>1, <1>2, <2>1, <2>2
    <2> QED
        BY <2>4, <2>5, <2>6
<1>4. CASE ~editing
    BY <1>1, <1>2, <1>4 DEF SavedDraft, AnswerInv, DraftsAreTyped, EditingOf
<1> QED
    BY <1>3, <1>4 DEF AnswerInv, TypeOK

\* Deciding on a field, with an answer of its own or none, keeps the invariant.
LEMMA DecideKeepsInv ==
    ASSUME AnswerInv, NEW r \in Request, Keys(r), OnField(r),
           NEW v, v = None \/ v \in SUBSET OwnTexts(Here(r)),
           values' = [values EXCEPT ![Here(r)] = v],
           drafts' = [drafts EXCEPT ![Here(r)] = None],
           latest' = [latest EXCEPT ![Here(r)] = None],
           EnterPage(r, page + 1, values', drafts'),
           UNCHANGED requests
    PROVE  AnswerInv'
<1> DEFINE h == Here(r)
<1>1. h \in Field /\ page + 1 \in 1..Review(r) /\ owner = r /\ owner # None
    BY KeysForm
<1>2. v \in {None} \cup Answer
    BY <1>1, OwnTextsAreTexts DEF Answer
<1>3. /\ values \in [Field -> {None} \cup Answer]
      /\ drafts \in [Field -> Text \cup {None}]
      /\ latest \in [Field -> Text \cup {None}]
    BY DEF AnswerInv, TypeOK
<1>4. /\ values' \in [Field -> {None} \cup Answer]
      /\ drafts' \in [Field -> Text \cup {None}]
      /\ latest' \in [Field -> Text \cup {None}]
    BY <1>1, <1>2, <1>3
<1>5. values'[h] = v /\ drafts'[h] = None /\ latest'[h] = None
    BY <1>1, <1>3
<1>6. \A f \in Field \ {h} :
          values'[f] = values[f] /\ drafts'[f] = drafts[f] /\ latest'[f] = latest[f]
    BY <1>1, <1>3
<1>7. AnswersAreTheirFields'
    <2> SUFFICES ASSUME NEW f \in Field
                 PROVE  /\ Given(f)' \subseteq OwnTexts(f)
                        /\ drafts'[f] # None => drafts'[f] \in OwnTexts(f)
        BY Zenon DEF AnswersAreTheirFields, OwnTexts
    <2>1. CASE f = h
        BY <1>5, <2>1 DEF Given
    <2>2. CASE f # h
        BY <1>6, <2>2 DEF Given, AnswerInv, AnswersAreTheirFields
    <2> QED
        BY <2>1, <2>2
<1>8. \A f \in Field : latest'[f] # None =>
          latest'[f] = Previous(f)' \/ drafts'[f] = latest'[f]
    <2> SUFFICES ASSUME NEW f \in Field, latest'[f] # None
                 PROVE  latest'[f] = Previous(f)' \/ drafts'[f] = latest'[f]
        OBVIOUS
    <2>1. f # h
        BY <1>5
    <2>2. ~EditingOf(f)
        BY <1>1, <2>1 DEF EditingOf
    <2>3. Previous(f)' = Previous(f)
        BY <1>6, <2>1 DEF Previous, Given
    <2> QED
        BY <1>6, <2>1, <2>2, <2>3 DEF AnswerInv, DraftsAreTyped
<1> HIDE DEF h
<1> QED
    BY <1>1, <1>4, <1>7, <1>8, PageKeepsInv

\* Storing an answer is deciding on the field.
LEMMA StoreKeepsInv ==
    ASSUME AnswerInv, NEW r \in Request, Keys(r), OnField(r),
           NEW v \in SUBSET OwnTexts(Here(r)), Store(r, v)
    PROVE  AnswerInv'
BY DecideKeepsInv DEF Store

LEMMA EscapeKeepsInv == ASSUME AnswerInv, NEW r \in Request, Escape(r) PROVE AnswerInv'
<1>1. Keys(r) /\ owner = r /\ owner # None
    BY KeysForm DEF Escape
<1>2. CASE editing /\ Options[Here(r)] # {}
    <2>1. /\ drafts' = SavedDraft(r) /\ editing' = FALSE
          /\ UNCHANGED <<requests, page, input, values, latest>>
        BY <1>2 DEF Escape
    <2>2. TypeOK'
        BY <1>1, <2>1, DraftIsSaved DEF AnswerInv, TypeOK, requests
    <2>3. OneInputOwner' /\ AbortedFormsClose'
        BY <2>1 DEF AnswerInv, OneInputOwner, AbortedFormsClose, requests
    <2>4. AnswersAreTheirFields'
        BY <1>1, <2>1, DraftIsSaved DEF AnswerInv, AnswersAreTheirFields, Given
    <2>5. FormIsTheOwners' /\ DialogsAreValid'
        BY <1>1, <2>1 DEF AnswerInv, FormIsTheOwners, DialogsAreValid, Keys, requests
    <2>6. DraftsAreTyped'
        BY <1>1, <2>1, DraftIsSaved DEF DraftsAreTyped, EditingOf, Previous, Given
    <2> QED
        BY <2>2, <2>3, <2>4, <2>5, <2>6 DEF AnswerInv
<1>3. CASE ~(editing /\ Options[Here(r)] # {})
    BY <1>1, <1>3, FinishKeepsInv DEF Escape
<1> QED
    BY <1>2, <1>3

LEMMA TurnKeepsInv == ASSUME AnswerInv, NEW r \in Request, Turn(r) PROVE AnswerInv'
<1>1. Keys(r) /\ Review(r) \in Nat \ {0} /\ page \in 1..Review(r)
    BY KeysForm DEF Turn
<1>2. drafts' = SavedDraft(r) /\ UNCHANGED <<requests, values, latest>>
    BY DEF Turn
<1>3. PICK p \in {IF page = Review(r) THEN 1 ELSE page + 1,
                  IF page = 1 THEN Review(r) ELSE page - 1} :
          EnterPage(r, p, values, SavedDraft(r))
    BY DEF Turn
<1>4. p \in 1..Review(r)
    BY <1>1
<1>5. EnterPage(r, p, values', drafts')
    BY <1>2, <1>3
<1>6. AnswersAreTheirFields'
    BY <1>1, <1>2, DraftIsSaved DEF AnswerInv, AnswersAreTheirFields, Given
<1>7. \A f \in Field : latest'[f] # None =>
          latest'[f] = Previous(f)' \/ drafts'[f] = latest'[f]
    BY <1>1, <1>2, DraftIsSaved DEF Previous, Given
<1> QED
    BY <1>1, <1>2, <1>4, <1>5, <1>6, <1>7, DraftIsSaved, PageKeepsInv DEF AnswerInv, TypeOK

LEMMA OmitKeepsInv == ASSUME AnswerInv, NEW r \in Request, Omit(r) PROVE AnswerInv'
<1>1. Keys(r) /\ OnField(r)
    BY DEF Omit
<1>2. /\ values' = [values EXCEPT ![Here(r)] = None]
      /\ drafts' = [drafts EXCEPT ![Here(r)] = None]
      /\ latest' = [latest EXCEPT ![Here(r)] = None]
      /\ UNCHANGED requests
    BY DEF Omit
<1>3. EnterPage(r, page + 1, values', drafts')
    BY <1>2 DEF Omit
<1> QED
    BY <1>1, <1>2, <1>3, DecideKeepsInv

LEMMA TypeKeepsInv == ASSUME AnswerInv, NEW r \in Request, Type(r) PROVE AnswerInv'
<1>1. /\ Keys(r) /\ editing /\ owner = r /\ owner # None /\ stage[owner] = "open"
      /\ Here(r) \in Field
    BY KeysForm DEF Type
<1>2. PICK t \in Texts[Here(r)] \cup {Empty} :
          input' = t /\ latest' = [latest EXCEPT ![Here(r)] = t]
    BY DEF Type
<1>3. UNCHANGED <<requests, page, editing, values, drafts>>
    BY DEF Type
<1>4. t \in OwnTexts(Here(r)) /\ t \in Text
    BY <1>1, <1>2, OwnTextsAreTexts DEF OwnTexts
<1>5. TypeOK'
    BY <1>1, <1>2, <1>3, <1>4 DEF AnswerInv, TypeOK, requests
<1>6. OneInputOwner' /\ AbortedFormsClose'
    BY <1>3 DEF AnswerInv, OneInputOwner, AbortedFormsClose, requests
<1>7. AnswersAreTheirFields'
    BY <1>3 DEF AnswerInv, AnswersAreTheirFields, Given
<1>8. FormIsTheOwners' /\ DialogsAreValid'
    BY <1>1, <1>2, <1>3, <1>4 DEF AnswerInv, FormIsTheOwners, DialogsAreValid, requests, OnField, Here
<1>9. DraftsAreTyped'
    <2> SUFFICES ASSUME NEW f \in Field, latest'[f] # None
                 PROVE  \/ latest'[f] = Previous(f)'
                        \/ EditingOf(f)' /\ input' = latest'[f]
                        \/ ~EditingOf(f)' /\ drafts'[f] = latest'[f]
        BY Zenon DEF DraftsAreTyped
    <2>1. EditingOf(f)' <=> f = Here(r)
        BY <1>1, <1>3 DEF EditingOf, Here, requests
    <2>2. EditingOf(f) <=> f = Here(r)
        BY <1>1 DEF EditingOf
    <2>3. Previous(f)' = Previous(f)
        BY <1>3 DEF Previous, Given
    <2>4. latest'[f] = IF f = Here(r) THEN t ELSE latest[f]
        BY <1>2 DEF AnswerInv, TypeOK
    <2> QED
        BY <1>2, <1>3, <2>1, <2>2, <2>3, <2>4 DEF AnswerInv, DraftsAreTyped
<1> QED
    BY <1>5, <1>6, <1>7, <1>8, <1>9 DEF AnswerInv

LEMMA SaveKeepsInv == ASSUME AnswerInv, NEW r \in Request, Save(r) PROVE AnswerInv'
<1> DEFINE kept == Given(Here(r)) \cap Options[Here(r)]
<1>1. Keys(r) /\ OnField(r) /\ Here(r) \in Field /\ input \in OwnTexts(Here(r))
    BY KeysForm DEF Save
<1>2. kept \cup ({input} \ Blank) \in SUBSET OwnTexts(Here(r)) /\ {input} \in SUBSET OwnTexts(Here(r))
    BY <1>1 DEF AnswerInv, AnswersAreTheirFields
<1>3. \/ Store(r, kept \cup ({input} \ Blank))
      \/ Store(r, {input})
    BY DEF Save
<1> HIDE DEF kept
<1> QED
    BY <1>1, <1>2, <1>3, StoreKeepsInv

LEMMA ChooseKeepsInv == ASSUME AnswerInv, NEW r \in Request, Choose(r) PROVE AnswerInv'
<1>1. Keys(r) /\ OnField(r) /\ Here(r) \in Field
    BY KeysForm DEF Choose
<1>2. PICK t \in Options[Here(r)] : Store(r, {t})
    BY DEF Choose
<1>3. {t} \in SUBSET OwnTexts(Here(r))
    BY DEF OwnTexts
<1> QED
    BY <1>1, <1>2, <1>3, StoreKeepsInv

LEMMA ToggleKeepsInv == ASSUME AnswerInv, NEW r \in Request, Toggle(r) PROVE AnswerInv'
<1>1. /\ Keys(r) /\ ~editing /\ owner = r /\ owner # None /\ stage[owner] = "open"
      /\ Here(r) \in Field /\ Here(r) \in Multiple
    BY KeysForm DEF Toggle
<1>2. PICK t \in Options[Here(r)] :
          values' = [values EXCEPT ![Here(r)] =
                        IF t \in Given(Here(r)) THEN Given(Here(r)) \ {t}
                        ELSE Given(Here(r)) \cup {t}]
    BY DEF Toggle
<1>3. UNCHANGED <<requests, page, editing, input, drafts, latest>>
    BY DEF Toggle
<1> DEFINE v == IF t \in Given(Here(r)) THEN Given(Here(r)) \ {t} ELSE Given(Here(r)) \cup {t}
<1>4. values \in [Field -> {None} \cup Answer]
    BY DEF AnswerInv, TypeOK
<1>5. v \in SUBSET OwnTexts(Here(r)) /\ v \in Answer
    <2>1. Given(Here(r)) \subseteq OwnTexts(Here(r))
        BY <1>1 DEF AnswerInv, AnswersAreTheirFields
    <2>2. t \in OwnTexts(Here(r))
        BY DEF OwnTexts
    <2>3. OwnTexts(Here(r)) \subseteq Text
        BY <1>1, OwnTextsAreTexts
    <2> QED
        BY <2>1, <2>2, <2>3 DEF Answer
<1>6. v \ Options[Here(r)] = Given(Here(r)) \ Options[Here(r)]
    OBVIOUS
<1> HIDE DEF v
<1>7. values' = [values EXCEPT ![Here(r)] = v]
    BY <1>2 DEF v
<1>8. Given(Here(r))' = v
    <2>1. values'[Here(r)] = v
        BY <1>1, <1>4, <1>7
    <2>2. v # None
        BY <1>5, FormAssumption
    <2> QED
        BY <1>3, <2>1, <2>2 DEF Given, Here
<1>9. \A f \in Field : f # Here(r) => values'[f] = values[f] /\ Given(f)' = Given(f)
    BY <1>1, <1>4, <1>7 DEF Given
<1>10. TypeOK'
    BY <1>1, <1>3, <1>4, <1>5, <1>7 DEF AnswerInv, TypeOK, requests
<1>11. OneInputOwner' /\ AbortedFormsClose'
    BY <1>3 DEF AnswerInv, OneInputOwner, AbortedFormsClose, requests
<1>12. Here(r)' = Here(r)
    BY <1>3 DEF Here
<1>13. AnswersAreTheirFields'
    BY <1>3, <1>5, <1>8, <1>9, <1>12 DEF AnswerInv, AnswersAreTheirFields
<1>14. FormIsTheOwners' /\ DialogsAreValid'
    BY <1>1, <1>3 DEF AnswerInv, FormIsTheOwners, DialogsAreValid, requests, OnField, Here
<1>15. \A f \in Field : Previous(f)' = Previous(f)
    BY <1>1, <1>6, <1>8, <1>9, <1>12 DEF Previous
<1>16. DraftsAreTyped'
    BY <1>3, <1>15 DEF AnswerInv, DraftsAreTyped, EditingOf, requests, Here
<1> QED
    BY <1>10, <1>11, <1>13, <1>14, <1>16 DEF AnswerInv

LEMMA ContinueKeepsInv == ASSUME AnswerInv, NEW r \in Request, Continue(r) PROVE AnswerInv'
<1>1. Keys(r) /\ OnField(r) /\ Here(r) \in Field
    BY KeysForm DEF Continue
<1>2. Given(Here(r)) \in SUBSET OwnTexts(Here(r)) /\ Store(r, Given(Here(r)))
    BY <1>1 DEF Continue, AnswerInv, AnswersAreTheirFields
<1> QED
    BY <1>1, <1>2, StoreKeepsInv

LEMMA OtherKeepsInv == ASSUME AnswerInv, NEW r \in Request, Other(r) PROVE AnswerInv'
<1> DEFINE h == Here(r)
           rest == Given(h) \ Options[h]
<1>1. /\ Keys(r) /\ OnField(r) /\ ~editing /\ owner = r /\ owner # None
      /\ stage[owner] = "open" /\ h \in Field
    BY KeysForm DEF Other
<1>2. /\ editing' = TRUE
      /\ input' = IF drafts[h] # None THEN drafts[h] ELSE TextIn(rest)
      /\ UNCHANGED <<requests, page, values, drafts, latest>>
    BY DEF Other
<1>3. TextIn(rest) \in OwnTexts(h)
    <2>1. rest \subseteq OwnTexts(h)
        BY <1>1 DEF AnswerInv, AnswersAreTheirFields
    <2>2. TextIn(rest) \in OwnTexts(h) \cup {Empty}
        BY <2>1, TextInBelongs
    <2> QED
        BY <1>1, <2>2, OwnTextsAreTexts
<1>4. input' \in OwnTexts(h) /\ input' \in Text
    BY <1>1, <1>2, <1>3, OwnTextsAreTexts DEF AnswerInv, AnswersAreTheirFields
<1>5. TypeOK'
    BY <1>2, <1>4 DEF AnswerInv, TypeOK, requests
<1>6. OneInputOwner' /\ AbortedFormsClose'
    BY <1>2 DEF AnswerInv, OneInputOwner, AbortedFormsClose, requests
<1>7. AnswersAreTheirFields'
    BY <1>2 DEF AnswerInv, AnswersAreTheirFields, Given
<1>8. FormIsTheOwners' /\ DialogsAreValid'
    BY <1>1, <1>2, <1>4 DEF AnswerInv, FormIsTheOwners, DialogsAreValid, requests, OnField, Here
<1>9. DraftsAreTyped'
    <2> SUFFICES ASSUME NEW f \in Field, latest'[f] # None
                 PROVE  \/ latest'[f] = Previous(f)'
                        \/ EditingOf(f)' /\ input' = latest'[f]
                        \/ ~EditingOf(f)' /\ drafts'[f] = latest'[f]
        BY Zenon DEF DraftsAreTyped
    <2>1. EditingOf(f)' <=> f = h
        BY <1>1, <1>2 DEF EditingOf, Here, requests
    <2>2. ~EditingOf(f)
        BY <1>1 DEF EditingOf
    <2>3. Previous(f)' = Previous(f)
        BY <1>2 DEF Previous, Given
    <2>4. latest[f] = Previous(f) \/ drafts[f] = latest[f]
        BY <1>2, <2>2 DEF AnswerInv, DraftsAreTyped
    <2> HIDE DEF h, rest
    <2> QED
        BY <1>2, <2>1, <2>3, <2>4
<1> QED
    BY <1>5, <1>6, <1>7, <1>8, <1>9 DEF AnswerInv

\* Going from the review to a page keeps the invariant.
LEMMA ReviewedPageKeepsInv ==
    ASSUME AnswerInv, NEW r \in Request, Keys(r), page = Review(r),
           NEW p \in 1..Len(FieldsOf[r]), EnterPage(r, p, values, drafts),
           UNCHANGED <<requests, values, drafts, latest>>
    PROVE  AnswerInv'
<1>1. p \in 1..Review(r)
    BY FormAssumption DEF Review
<1>2. EnterPage(r, p, values', drafts')
    OBVIOUS
<1>3. AnswersAreTheirFields'
    BY DEF AnswerInv, AnswersAreTheirFields, Given
<1>4. \A f \in Field : ~EditingOf(f)
    BY KeysForm DEF EditingOf, OnField
<1>5. \A f \in Field : latest'[f] # None =>
          latest'[f] = Previous(f)' \/ drafts'[f] = latest'[f]
    BY <1>4 DEF AnswerInv, DraftsAreTyped, Previous, Given
<1> QED
    BY <1>1, <1>2, <1>3, <1>5, PageKeepsInv DEF AnswerInv, TypeOK

LEMMA RevisitKeepsInv == ASSUME AnswerInv, NEW r \in Request, Revisit(r) PROVE AnswerInv'
BY ReviewedPageKeepsInv DEF Revisit

LEMMA DeclineKeepsInv == ASSUME AnswerInv, NEW r \in Request, Decline(r) PROVE AnswerInv'
BY KeysForm, FinishKeepsInv DEF Decline

LEMMA SubmitKeepsInv == ASSUME AnswerInv, NEW r \in Request, Submit(r) PROVE AnswerInv'
<1> DEFINE problems == {i \in 1..Len(FieldsOf[r]) : Problem(r, i)}
<1>1. Keys(r) /\ page = Review(r) /\ owner = r
    BY KeysForm DEF Submit
<1>2. CASE problems = {}
    BY <1>1, <1>2, FinishKeepsInv DEF Submit
<1>3. CASE problems # {}
    <2>1. PICK i \in problems : EnterPage(r, i, values, drafts)
        BY <1>3 DEF Submit
    <2>2. UNCHANGED <<requests, values, drafts, latest>>
        BY <1>3 DEF Submit
    <2> QED
        BY <1>1, <2>1, <2>2, ReviewedPageKeepsInv
<1> QED
    BY <1>2, <1>3

-----------------------------------------------------------------------------
(***************************************************************************)
(* Dialogs.                                                                *)
(***************************************************************************)

\* What holds of a request in a dialog.
LEMMA DialogForm ==
    ASSUME AnswerInv, NEW r \in Request, Dialog(r)
    PROVE  /\ owner = r /\ owner # None /\ stage[owner] = "dialog"
           /\ ~editing
           /\ page \in Nat \ {0} /\ Review(r) \in Nat
           /\ OnField(r) => Here(r) \in Field /\ page + 1 <= Review(r)
           /\ \A f \in Field : drafts[f] = None /\ latest[f] = None
<1>1. owner = r /\ owner # None /\ stage[owner] = "dialog"
    BY KeysMeanOwner, FormAssumption DEF AnswerInv, Dialog
<1>2. ~editing /\ page \in Nat \ {0}
    BY <1>1 DEF AnswerInv, FormIsTheOwners, TypeOK
<1>3. Review(r) \in Nat
    BY FormAssumption DEF Review
<1>4. OnField(r) => Here(r) \in Field /\ page + 1 <= Review(r)
    BY <1>2, <1>3, PageHasField DEF OnField, Here
<1>5. \A f \in Field : drafts[f] = None /\ latest[f] = None
    BY <1>1 DEF AnswerInv, DialogsAreValid
<1> QED
    BY <1>1, <1>2, <1>3, <1>4, <1>5

\* The next dialog comes when the answer to this one, if it has one, is valid.
LEMMA NextDialogKeepsInv ==
    ASSUME AnswerInv, NEW r \in Request, Dialog(r), OnField(r),
           NEW v, v \in {None} \/ v \in SUBSET OwnTexts(Here(r)), Valid(Here(r), v),
           values' = [values EXCEPT ![Here(r)] = v],
           page' = page + 1,
           UNCHANGED <<requests, editing, input, drafts, latest>>
    PROVE  AnswerInv'
<1>1. /\ owner = r /\ owner # None /\ stage[owner] = "dialog" /\ ~editing
      /\ Here(r) \in Field /\ page \in Nat \ {0} /\ Review(r) \in Nat /\ page + 1 <= Review(r)
      /\ \A f \in Field : drafts[f] = None /\ latest[f] = None
    BY DialogForm
<1>2. v \in {None} \cup Answer
    BY <1>1, OwnTextsAreTexts DEF Answer
<1>3. values \in [Field -> {None} \cup Answer]
    BY DEF AnswerInv, TypeOK
<1>4. TypeOK'
    BY <1>1, <1>2, <1>3 DEF AnswerInv, TypeOK, requests
<1>5. OneInputOwner' /\ AbortedFormsClose'
    BY DEF AnswerInv, OneInputOwner, AbortedFormsClose, requests
<1>6. values'[Here(r)] = v /\ \A f \in Field : f # Here(r) => values'[f] = values[f]
    BY <1>1, <1>3
<1>7. AnswersAreTheirFields'
    <2> SUFFICES ASSUME NEW f \in Field
                 PROVE  Given(f)' \subseteq OwnTexts(f)
        BY <1>1, Zenon DEF AnswersAreTheirFields, OwnTexts
    <2>1. CASE f = Here(r)
        BY <1>6, <2>1 DEF Given
    <2>2. CASE f # Here(r)
        BY <1>6, <2>2 DEF Given, AnswerInv, AnswersAreTheirFields
    <2> QED
        BY <2>1, <2>2
<1>8. FormIsTheOwners'
    BY <1>1 DEF FormIsTheOwners, requests, Review
<1>9. DialogsAreValid'
    <2>1. ASSUME NEW i \in 1..Len(FieldsOf[r])
          PROVE  IF i < page + 1 THEN Valid(FieldsOf[r][i], values'[FieldsOf[r][i]])
                 ELSE values'[FieldsOf[r][i]] = None
        <3>1. FieldsOf[r] \in Seq(Field) /\ FieldsOf[r][i] \in Field
            BY FormAssumption
        <3>2. page \in 1..Len(FieldsOf[r])
            BY <1>1, <3>1 DEF Review
        <3>3. CASE i = page
            BY <1>6, <3>3 DEF Here
        <3>4. CASE i # page
            <4>1. FieldsOf[r][i] # Here(r)
                BY <3>2, <3>4, FormAssumption DEF Here
            <4>2. IF i < page THEN Valid(FieldsOf[r][i], values[FieldsOf[r][i]])
                  ELSE values[FieldsOf[r][i]] = None
                BY <1>1 DEF AnswerInv, DialogsAreValid
            <4>3. i < page + 1 <=> i < page
                BY <3>2, <3>4
            <4> QED
                BY <1>6, <3>1, <4>1, <4>2, <4>3
        <3> QED
            BY <3>3, <3>4
    <2>2. owner' = r /\ page' = page + 1 /\ UNCHANGED <<drafts, latest>>
        BY <1>1 DEF requests
    <2>3. \A i \in 1..Len(FieldsOf[r]) :
              IF i < page' THEN Valid(FieldsOf[r][i], values[FieldsOf[r][i]])'
              ELSE values'[FieldsOf[r][i]] = None
        BY <2>1, <2>2 DEF Valid
    <2> QED
        BY <1>1, <2>2, <2>3 DEF DialogsAreValid
<1>10. DraftsAreTyped'
    BY <1>1 DEF DraftsAreTyped
<1> QED
    BY <1>4, <1>5, <1>7, <1>8, <1>9, <1>10 DEF AnswerInv

LEMMA AnswerDialogKeepsInv ==
    ASSUME AnswerInv, NEW r \in Request, AnswerDialog(r) PROVE AnswerInv'
<1>1. Dialog(r) /\ OnField(r) /\ Here(r) \in Field
    BY DialogForm DEF AnswerDialog
<1>2. PICK v \in Brought(Here(r)) :
          Valid(Here(r), v) /\ values' = [values EXCEPT ![Here(r)] = v]
    BY DEF AnswerDialog
<1>3. v \in SUBSET OwnTexts(Here(r))
    BY DEF Brought, OwnTexts
<1>4. page' = page + 1 /\ UNCHANGED <<requests, editing, input, drafts, latest>>
    BY DEF AnswerDialog
<1> QED
    BY <1>1, <1>2, <1>3, <1>4, NextDialogKeepsInv

LEMMA SkipDialogKeepsInv ==
    ASSUME AnswerInv, NEW r \in Request, SkipDialog(r) PROVE AnswerInv'
<1>1. /\ Dialog(r) /\ OnField(r) /\ Here(r) \in Field /\ Here(r) \notin Required
      /\ owner = r /\ owner # None /\ stage[owner] = "dialog" /\ page \in Nat \ {0}
    BY DialogForm DEF SkipDialog
<1>2. page' = page + 1 /\ UNCHANGED <<requests, editing, input, values, drafts, latest>>
    BY DEF SkipDialog
<1>3. page \in 1..Len(FieldsOf[r])
    BY <1>1, PageHasField DEF OnField
<1>4. values[Here(r)] = None
    BY <1>1, <1>3 DEF AnswerInv, DialogsAreValid, Here
<1>5. values' = [values EXCEPT ![Here(r)] = None]
    BY <1>1, <1>2, <1>4 DEF AnswerInv, TypeOK
<1>6. Valid(Here(r), None)
    BY <1>1 DEF Valid
<1> QED
    BY <1>1, <1>2, <1>5, <1>6, NextDialogKeepsInv

-----------------------------------------------------------------------------
(***************************************************************************)
(* The theorems.                                                           *)
(***************************************************************************)

\* AnswerInv is inductive: it holds of every state of every behaviour.
THEOREM AnswerInvariance == Spec => []AnswerInv
<1>1. Init => AnswerInv
    <2> SUFFICES ASSUME Init PROVE AnswerInv
        OBVIOUS
    <2>1. IsClear /\ owner = None
        BY DEF Init, IsClear
    <2>2. TypeOK
        <3>1. Empty \in Text
            BY FormAssumption
        <3>2. values \in [Field -> {None} \cup Answer] /\ drafts \in [Field -> Text \cup {None}]
              /\ latest \in [Field -> Text \cup {None}]
            BY DEF Init
        <3>3. stage \in [Request -> Stage] /\ page \in Nat \ {0}
            BY DEF Init, Stage
        <3> QED
            BY <3>1, <3>2, <3>3 DEF Init, TypeOK
    <2>3. OneInputOwner /\ AbortedFormsClose
        BY FormAssumption DEF Init, OneInputOwner, AbortedFormsClose, OnScreen
    <2>4. AnswersAreTheirFields /\ DraftsAreTyped
        BY <2>1 DEF AnswersAreTheirFields, DraftsAreTyped, IsClear, Given
    <2>5. FormIsTheOwners /\ DialogsAreValid
        BY <2>1 DEF FormIsTheOwners, DialogsAreValid, IsClear
    <2> QED
        BY <2>2, <2>3, <2>4, <2>5 DEF AnswerInv
<1>2. AnswerInv /\ [Next]_vars => AnswerInv'
    <2> SUFFICES ASSUME AnswerInv, [Next]_vars PROVE AnswerInv'
        OBVIOUS
    <2>1. CASE UNCHANGED vars
        <3>1. UNCHANGED <<mode, owner, stage, aborted, cancelling, form>>
              /\ UNCHANGED <<page, editing, input, values, drafts, latest>>
            BY <2>1 DEF vars, form
        <3>2. TypeOK' /\ OneInputOwner' /\ AbortedFormsClose'
            BY <3>1 DEF AnswerInv, TypeOK, OneInputOwner, AbortedFormsClose
        <3> QED
            BY <3>1, <3>2, FormUntouched DEF AnswerInv
    <2>2. ASSUME NEW r \in Request,
                 Ask(r) \/ Take(r) \/ Construct(r) \/ CancelItself(r) \/ Abort(r)
          PROVE  AnswerInv'
        BY <2>2, AskKeepsInv, TakeKeepsInv, ConstructKeepsInv, CancelItselfKeepsInv, AbortKeepsInv
    <2>3. ASSUME NEW r \in Request, Key(r)
          PROVE  AnswerInv'
        BY <2>3, EscapeKeepsInv, TurnKeepsInv, OmitKeepsInv, TypeKeepsInv, SaveKeepsInv,
           ChooseKeepsInv, ToggleKeepsInv, ContinueKeepsInv, OtherKeepsInv, RevisitKeepsInv,
           DeclineKeepsInv, SubmitKeepsInv DEF Key
    <2>4. ASSUME NEW r \in Request, DialogStep(r)
          PROVE  AnswerInv'
        BY <2>4, AnswerDialogKeepsInv, SkipDialogKeepsInv, DialogForm, FinishKeepsInv
           DEF DialogStep, DismissDialog, DecideDialog
    <2> QED
        BY <2>1, <2>2, <2>3, <2>4 DEF Next
<1> QED
    BY <1>1, <1>2, PTL DEF Spec

\* The state of requests and form has the form it should have.
THEOREM AnswerTypeCorrect == Spec => []TypeOK
<1>1. AnswerInv => TypeOK
    BY DEF AnswerInv
<1> QED
    BY <1>1, AnswerInvariance, PTL

\* The terminal has one owner, which nobody aborted.
THEOREM TerminalHasOneOwner == Spec => []OneInputOwner
<1>1. AnswerInv => OneInputOwner
    BY DEF AnswerInv
<1> QED
    BY <1>1, AnswerInvariance, PTL

\* A request that is aborted leaves no form that stays.
THEOREM AbortedRequestsEnd == Spec => []AbortedFormsClose
<1>1. AnswerInv => AbortedFormsClose
    BY DEF AnswerInv
<1> QED
    BY <1>1, AnswerInvariance, PTL

\* No text typed or chosen for one field becomes an answer to another.
THEOREM AnswersStayOnTheirPage == Spec => []AnswersAreTheirFields
<1>1. AnswerInv => AnswersAreTheirFields
    BY DEF AnswerInv
<1> QED
    BY <1>1, AnswerInvariance, PTL

\* A request becomes accepted only from its review, or the last of its dialogs.
LEMMA AcceptedFrom ==
    ASSUME AnswerInv, [Next]_vars, NEW r \in Request, Accepts(r)
    PROVE  \/ Submit(r) /\ {i \in 1..Len(FieldsOf[r]) : Problem(r, i)} = {}
           \/ DecideDialog(r)
<1>1. stage \in [Request -> Stage] /\ stage[r] # "accept" /\ stage'[r] = "accept"
    BY DEF AnswerInv, TypeOK, Accepts
<1>2. ASSUME NEW q \in Request, NEW result, Goto(q, result)
      PROVE  q = r /\ result = "accept"
    BY <1>1, <1>2 DEF Goto
<1>3. stage' # stage
    BY <1>1
<1>4. PICK q \in Request :
          \/ Ask(q) \/ Take(q) \/ Construct(q) \/ CancelItself(q) \/ Abort(q)
          \/ Key(q) \/ DialogStep(q)
    BY <1>3 DEF Next, vars
<1>5. ~Ask(q)
    BY <1>2 DEF Ask
<1>6. ~Take(q)
    <2>1. Take(q) => Goto(q, "opening") \/ Goto(q, "dialog")
        BY DEF Take
    <2> QED
        BY <1>2, <2>1
<1>7. ~Construct(q) /\ ~CancelItself(q)
    BY <1>2 DEF Construct, CancelItself
<1>8. ~Abort(q)
    BY <1>2, <1>3 DEF Abort
<1>9. ~UNCHANGED requests
    BY <1>3 DEF requests
<1>10. ~Escape(q) /\ ~Decline(q) /\ ~DismissDialog(q)
    <2>1. ~Finish(q, "cancel") /\ ~Finish(q, "decline")
        BY <1>2 DEF Finish
    <2> QED
        BY <1>9, <2>1 DEF Escape, Decline, DismissDialog, requests
<1>11. ~Turn(q) /\ ~Omit(q) /\ ~Type(q) /\ ~Toggle(q) /\ ~Other(q) /\ ~Revisit(q)
    BY <1>3 DEF Turn, Omit, Type, Toggle, Other, Revisit, requests
<1>12. ~Save(q) /\ ~Choose(q) /\ ~Continue(q)
    <2>1. ASSUME NEW v PROVE ~Store(q, v)
        BY <1>9 DEF Store
    <2> QED
        BY <2>1 DEF Save, Choose, Continue
<1>13. ~AnswerDialog(q) /\ ~SkipDialog(q)
    BY <1>3 DEF AnswerDialog, SkipDialog, requests
<1>14. CASE Submit(q)
    <2>1. {i \in 1..Len(FieldsOf[q]) : Problem(q, i)} = {}
        BY <1>9, <1>14 DEF Submit, requests
    <2>2. Finish(q, "accept")
        BY <1>14, <2>1 DEF Submit
    <2>3. q = r
        BY <1>2, <2>2 DEF Finish
    <2> QED
        BY <1>14, <2>1, <2>3
<1>15. CASE DecideDialog(q)
    <2>1. PICK result : Finish(q, result)
        BY <1>15 DEF DecideDialog
    <2>2. q = r
        BY <1>2, <2>1 DEF Finish
    <2> QED
        BY <1>15, <2>2
<1> QED
    BY <1>4, <1>5, <1>6, <1>7, <1>8, <1>10, <1>11, <1>12, <1>13, <1>14, <1>15
       DEF Key, DialogStep

\* Every answer that is submitted is valid, and every required one is given.
THEOREM SubmissionsAreValid == Spec => SubmittedAnswersAreValid
<1>1. ASSUME AnswerInv, [Next]_vars, NEW r \in Request, Accepts(r), NEW f \in Fields(r)
      PROVE  Valid(f, values[f])
    <2>1. PICK i \in 1..Len(FieldsOf[r]) : f = FieldsOf[r][i]
        BY DEF Fields
    <2>2. CASE Submit(r) /\ {j \in 1..Len(FieldsOf[r]) : Problem(r, j)} = {}
        <3>1. ~Problem(r, i)
            BY <2>1, <2>2
        <3> QED
            BY <2>1, <3>1 DEF Problem
    <2>3. CASE DecideDialog(r)
        <3>1. Dialog(r) /\ page = Review(r) /\ owner = r /\ owner # None
            BY <1>1, <2>3, DialogForm DEF DecideDialog
        <3>2. i < page
            <4>1. Len(FieldsOf[r]) \in Nat
                BY FormAssumption
            <4> QED
                BY <3>1, <4>1 DEF Review
        <3> QED
            BY <1>1, <2>1, <3>1, <3>2 DEF AnswerInv, DialogsAreValid, Dialog
    <2> QED
        BY <1>1, <2>2, <2>3, AcceptedFrom
<1>2. AnswerInv /\ [Next]_vars =>
          [\A r \in Request : Accepts(r) => \A f \in Fields(r) : Valid(f, values[f])]_vars
    BY <1>1
<1> QED
    BY <1>2, AnswerInvariance, PTL DEF Spec, SubmittedAnswersAreValid

\* No text that was typed last for a field is missing from what is submitted.
THEOREM SubmissionsHoldTheText == Spec => TypedTextIsSubmitted
<1>1. ASSUME AnswerInv, [Next]_vars, NEW r \in Request, Accepts(r), NEW f \in Fields(r)
      PROVE  latest[f] \in {None, Previous(f)}
    <2>1. PICK i \in 1..Len(FieldsOf[r]) : f = FieldsOf[r][i]
        BY DEF Fields
    <2>2. f \in Field
        <3>1. FieldsOf[r] \in Seq(Field)
            BY FormAssumption
        <3> QED
            BY <2>1, <3>1
    <2>3. CASE Submit(r) /\ {j \in 1..Len(FieldsOf[r]) : Problem(r, j)} = {}
        <3>1. drafts[f] = None
            BY <2>1, <2>3 DEF Problem
        <3>2. Keys(r) /\ page = Review(r)
            BY <2>3 DEF Submit
        <3>3. owner = r /\ ~OnField(r)
            <4>1. Len(FieldsOf[r]) \in Nat
                BY FormAssumption
            <4> QED
                BY <1>1, <3>2, <4>1, KeysMeanOwner DEF AnswerInv, OnField, Review
        <3>4. ~editing
            BY <1>1, <3>3 DEF AnswerInv, FormIsTheOwners
        <3> QED
            BY <1>1, <2>2, <3>1, <3>4 DEF AnswerInv, DraftsAreTyped, EditingOf
    <2>4. CASE DecideDialog(r)
        <3>1. Dialog(r) /\ owner = r /\ owner # None
            BY <1>1, <2>4, DialogForm DEF DecideDialog
        <3> QED
            BY <1>1, <2>2, <3>1 DEF AnswerInv, DialogsAreValid, Dialog
    <2> QED
        BY <1>1, <2>3, <2>4, AcceptedFrom
<1>2. AnswerInv /\ [Next]_vars =>
          [\A r \in Request : Accepts(r) =>
              \A f \in Fields(r) : latest[f] \in {None, Previous(f)}]_vars
    BY <1>1
<1> QED
    BY <1>2, AnswerInvariance, PTL DEF Spec, TypedTextIsSubmitted

=============================================================================
