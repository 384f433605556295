------------------------------ MODULE AuthEntries ------------------------------
(***************************************************************************)
(* What the credential store promises (src/src/auth-store.ts): the entries *)
(* of the MCP servers, to which every call applies its change at once, to  *)
(* what all the calls before it left, at most one time.  Where reading may *)
(* fail, the change may be applied to no entries at all instead.           *)
(***************************************************************************)
CONSTANTS
    Call,       \* calls that change an entry
    McpServer,  \* names of MCP servers
    Field,      \* the parts of an entry
    Value,      \* what a part may be
    None,       \* a part that is missing
    Keep,       \* what a call says of a part that it leaves alone
    ServerOf,   \* the server whose entry a call changes
    ChangeOf,   \* what a call does to each part
    Fenced,     \* the calls of OAuth providers, which may be dropped
    Lossy       \* whether a call may find no entries where there are some

VARIABLES
    entries,    \* the entries; one with every part missing is absent
    committed   \* the calls that took effect

Entry == [Field -> Value \cup {None}]

Changed(c, data) ==
    [data EXCEPT ![ServerOf[c]] =
        [p \in Field |-> IF ChangeOf[c][p] = Keep THEN @[p] ELSE ChangeOf[c][p]]]

Empty == [m \in McpServer |-> [p \in Field |-> None]]

Commit(c) ==
    /\ c \notin committed
    /\ committed' = committed \cup {c}
    /\ \E data \in {entries} \cup IF Lossy THEN {Empty} ELSE {} :
          \/ entries' = Changed(c, data)
          \/ c \in Fenced /\ entries' = data

Init == entries \in [McpServer -> Entry] /\ committed = {}

Next == \E c \in Call : Commit(c)

Spec == Init /\ [][Next]_<<entries, committed>>
=============================================================================
