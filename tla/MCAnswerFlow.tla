------------------------------ MODULE MCAnswerFlow ------------------------------
(* A request of the agent with two questions, of several choices and of one, and  *)
(* two of servers: for a text with a default that does not do, a name and a yes   *)
(* or no, and for consent to opening an address, which has no fields.             *)
EXTENDS AnswerFlow

CONSTANTS ask, elicit, consent, many, one, note, name, flag, o1, o2, x, y, z, w, yes, no, bad

MCFieldsOf == [r \in Request |-> 
    IF r = ask THEN <<many, one>> ELSE IF r = elicit THEN <<note, name, flag>> ELSE <<>>]
MCOptions == [f \in Field |->
    IF f = many THEN {o1, o2} ELSE IF f = one THEN {o1} ELSE IF f = flag THEN {yes, no} ELSE {}]
MCTexts == [f \in Field |->
    IF f = many THEN {x, o1} ELSE IF f = one THEN {y, o1} ELSE IF f = note THEN {z, bad} ELSE IF f = name THEN {w} ELSE {}]
MCInitial == [f \in Field |-> IF f = note THEN {bad} ELSE None]
MCAccepted == [f \in Field |->
    IF f \in {many, one} THEN QuestionAccepts
    ELSE IF f = note THEN {{z}} ELSE IF f = name THEN {{w}, {Empty}} ELSE {{yes}, {no}}]
=============================================================================
