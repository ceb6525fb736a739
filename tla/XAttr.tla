--------------------------------- MODULE XAttr ---------------------------------
(***************************************************************************)
(* The extended attributes of one i-node: the handlers FuseSetXAttr,       *)
(* FuseGetXAttr, FuseListXAttr and FuseRemoveXAttr of ramfs/FileSystem.cpp *)
(* over INode::m_xattr.  Clients ask for the size of a value and then for  *)
(* the value, and others may set or remove it in between.  In the          *)
(* peer-to-peer program no other process is told of attributes.            *)
(***************************************************************************)
EXTENDS Integers, Sequences, FiniteSets

CONSTANTS
    Names,      \* names of attributes
    Byte,       \* what values are made of
    Clients,    \* processes that read attributes
    MaxLength   \* bound: bytes of a value

ASSUME XAttrAssumption == MaxLength \in Nat /\ IsFiniteSet(Names)

VARIABLES
    m_xattr,   \* INode::m_xattr
    asked,     \* clients: the name and size each has asked for, or nothing
    reply,     \* to the last request
    orderly,   \* history: have clients kept to what is said at Keeps?
    fault      \* a request has been answered twice

vars == <<m_xattr, asked, reply, orderly, fault>>

-----------------------------------------------------------------------------
Map == INSTANCE Attributes WITH attribute <- m_xattr
Error(op, n, error) == Map!Error(op, n, error)

Nothing  == [name |-> "none", size |-> 0]
Present  == DOMAIN m_xattr
Flags    == {"none", "XATTR_CREATE", "XATTR_REPLACE"}
Values   == UNION {[1 .. n -> Byte] : n \in 0 .. MaxLength}

\* What clients do is free.  It is orderly as long as they set attributes without
\* flags, none to a shorter value and none of which another client has asked for
\* the size; ask for values by their size; and do not ask for the size of the list.
Keeps(rule) == orderly' = (orderly /\ rule)

\* Bug: the value is written after what is there.
Overlaid_Bug(old, value) == old \o value

\* realloc if the value is longer, memcpy: the space never gets less.
Overlaid(old, value) == value \o SubSeq(old, Len(value) + 1, Len(old))

Old(n) == IF n \in Present THEN m_xattr[n] ELSE <<>>

-----------------------------------------------------------------------------
\* INode::SetXAttr: XATTR_CREATE is refused if there is no such attribute, and
\* XATTR_REPLACE if there is one.
FuseSetXAttr(n, value, flags) ==
    /\ IF n \notin Present /\ flags = "XATTR_CREATE"
         THEN reply' = Error("set", n, "EEXIST") /\ UNCHANGED m_xattr
         ELSE IF n \in Present /\ flags = "XATTR_REPLACE"
         THEN reply' = Error("set", n, "ENODATA") /\ UNCHANGED m_xattr
         ELSE /\ m_xattr' = [m \in Present \cup {n} |->
                                IF m = n THEN Overlaid(Old(n), value) ELSE m_xattr[m]]
              /\ reply' = Map!Reply("set", {n}, "none", 0, value)
    /\ Keeps(/\ flags = "none"
             /\ Len(value) >= Len(Old(n))
             /\ \A c \in Clients : asked[c] = Nothing \/ asked[c].name # n)
    /\ UNCHANGED <<asked, fault>>

\* Size 0 asks for the size; of a longer value only a part is sent, and for more
\* than there is, the answer is ERANGE.
FuseGetXAttr(c, n, size) ==
    /\ IF n \notin Present
         THEN reply' = Error(IF size = 0 THEN "size" ELSE "get", n, "ENODATA")
         ELSE IF size = 0
         THEN reply' = Map!Reply("size", {n}, "none", Len(m_xattr[n]), <<>>)
         ELSE IF size > Len(m_xattr[n])
         THEN reply' = Error("get", n, "ERANGE")
         ELSE reply' = Map!Reply("get", {n}, "none", 0, SubSeq(m_xattr[n], 1, size))
    /\ asked' = [asked EXCEPT ![c] =
           IF size = 0 /\ n \in Present THEN [name |-> n, size |-> Len(m_xattr[n])] ELSE Nothing]
    /\ Keeps(size > 0 => asked[c] = [name |-> n, size |-> size])
    /\ UNCHANGED <<m_xattr, fault>>

\* Room is for so many names.  A request with size 0 is answered, and then again.
FuseListXAttr(room) ==
    /\ fault' = (room = 0)
    /\ Keeps(room > 0)
    /\ reply' = IF room < Cardinality(Present) THEN Map!Reply("list", {}, "ERANGE", 0, <<>>)
                ELSE Map!Reply("list", Present, "none", 0, <<>>)
    /\ UNCHANGED <<m_xattr, asked>>

\* Bug: the attribute stays, without a value.
RemoveXAttr_Bug(n) ==
    /\ reply' = Map!Reply("remove", {n}, IF n \in Present THEN "none" ELSE "ENODATA", 0, <<>>)
    /\ m_xattr' = [m \in Present |-> IF m = n THEN <<>> ELSE m_xattr[m]]

\* INode::RemoveXAttr.
RemoveXAttr(n) ==
    /\ reply' = Map!Reply("remove", {n}, IF n \in Present THEN "none" ELSE "ENODATA", 0, <<>>)
    /\ m_xattr' = [m \in Present \ {n} |-> m_xattr[m]]

FuseRemoveXAttr(n) == RemoveXAttr(n) /\ UNCHANGED <<asked, orderly, fault>>

-----------------------------------------------------------------------------
Init ==
    /\ m_xattr = << >>
    /\ asked = [c \in Clients |-> Nothing]
    /\ reply = Map!Reply("start", {}, "none", 0, <<>>)
    /\ orderly = TRUE /\ fault = FALSE

Next ==
    \/ /\ ~ fault
       /\ \/ \E n \in Names, value \in Values, flags \in Flags : FuseSetXAttr(n, value, flags)
          \/ \E c \in Clients, n \in Names, size \in 0 .. MaxLength : FuseGetXAttr(c, n, size)
          \/ \E room \in 0 .. Cardinality(Names) : FuseListXAttr(room)
          \/ \E n \in Names : FuseRemoveXAttr(n)
    \/ fault /\ UNCHANGED vars

Spec == Init /\ [][Next]_vars

-----------------------------------------------------------------------------
(* Properties.                                                             *)

\* Types; no value is longer than one that was set.
TypeOK ==
    /\ Present \subseteq Names /\ \A n \in Present : m_xattr[n] \in Values
    /\ asked \in [Clients -> {Nothing} \cup [name : Names, size : 0 .. MaxLength]]
    /\ reply.error \in {"none", "EEXIST", "ENODATA", "ERANGE"}
    /\ orderly \in BOOLEAN /\ fault \in BOOLEAN

\* Through sets, removals and two-step reads of several clients an attribute keeps
\* the value last set, a read returns all of it, and no request is answered twice.
ImplementsAttributes ==
    Map!Init /\ [][orderly' => ~ fault' /\ (Map!Next \/ UNCHANGED <<m_xattr, reply>>)]_vars
=============================================================================
