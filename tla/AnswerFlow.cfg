SPECIFICATION Spec
CONSTANTS
    ask = ask
    elicit = elicit
    consent = consent
    many = many
    one = one
    note = note
    name = name
    w = w
    flag = flag
    o1 = o1
    o2 = o2
    x = x
    y = y
    z = z
    yes = yes
    no = no
    bad = bad
    Empty = Empty
    None = None
    Request = {ask, elicit, consent}
    Field = {many, one, note, name, flag}
    Text = {o1, o2, x, y, z, w, yes, no, bad, Empty}
    Blank = {Empty}
    Declinable = {elicit, consent}
    Multiple = {many}
    Custom = {many, one}
    Required = {many, one, flag}
    FieldsOf <- MCFieldsOf
    Options <- MCOptions
    Texts <- MCTexts
    Initial <- MCInitial
    Accepted <- MCAccepted
CHECK_DEADLOCK FALSE
INVARIANTS
    TypeOK
    OneInputOwner
    AbortedFormsClose
    AnswersAreTheirFields
PROPERTIES
    SubmittedAnswersAreValid
    TypedTextIsSubmitted
