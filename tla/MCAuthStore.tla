------------------------------ MODULE MCAuthStore ------------------------------
(* Two processes and one server: in process a, a provider, which a newer one may *)
(* supersede, saves tokens, the user removes the entry, and the entry is read;   *)
(* in process b, a client registration is stored, or discovery state cleared.    *)
EXTENDS AuthStore

CONSTANTS a, b, save, remove, client, clear, read, f1, f2, s, v

MCProcOf == [c \in Call |-> IF c \in {save, remove, read} THEN a ELSE b]
MCServerOf == [c \in Writer |-> s]
MCChangeOf == [c \in Writer |-> [p \in Field |->
    IF c = remove \/ (c = clear /\ p = "discoveryState") THEN None
    ELSE IF (c = save /\ p = "tokens") \/ (c = client /\ p = "clientInfo") THEN v
    ELSE Keep]]
MCFenceOf == [c \in Writer |-> IF c = save THEN f1 ELSE None]
MCHomeOf == [f \in Fence |-> a]
=============================================================================
