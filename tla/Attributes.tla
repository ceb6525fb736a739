------------------------------ MODULE Attributes ------------------------------
(***************************************************************************)
(* What a client expects of the extended attributes of a file, that two    *)
(* requests, for the size and for the value, are needed to read.           *)
(***************************************************************************)
EXTENDS Integers, Sequences

CONSTANTS Names, Byte

VARIABLES
    attribute,  \* the value of each attribute there is
    reply       \* to the last request: operation, names, error, size, value

Reply(op, names, error, size, value) ==
    [op |-> op, names |-> names, error |-> error, size |-> size, value |-> value]
Error(op, n, error) == Reply(op, {n}, error, 0, <<>>)

Init == attribute = << >> /\ reply = Reply("start", {}, "none", 0, <<>>)

\* The reply says which value was set.
Set == \E n \in Names :
    /\ reply'.value \in Seq(Byte) /\ reply' = Reply("set", {n}, "none", 0, reply'.value)
    /\ attribute' = [m \in DOMAIN attribute \cup {n} |->
                        IF m = n THEN reply'.value ELSE attribute[m]]

Get == \E n \in Names :
    /\ reply' = IF n \in DOMAIN attribute THEN Reply("get", {n}, "none", 0, attribute[n])
                                          ELSE Error("get", n, "ENODATA")
    /\ UNCHANGED attribute

GetSize == \E n \in Names :
    /\ reply' = IF n \in DOMAIN attribute
                  THEN Reply("size", {n}, "none", Len(attribute[n]), <<>>)
                  ELSE Error("size", n, "ENODATA")
    /\ UNCHANGED attribute

List ==
    /\ \/ reply' = Reply("list", DOMAIN attribute, "none", 0, <<>>)
       \/ reply' = Reply("list", {}, "ERANGE", 0, <<>>)
    /\ UNCHANGED attribute

Remove == \E n \in Names :
    /\ reply' = Reply("remove", {n}, IF n \in DOMAIN attribute THEN "none" ELSE "ENODATA", 0, <<>>)
    /\ attribute' = [m \in DOMAIN attribute \ {n} |-> attribute[m]]

Next == Set \/ Get \/ GetSize \/ List \/ Remove

Spec == Init /\ [][Next]_<<attribute, reply>>
=============================================================================
