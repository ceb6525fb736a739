-------------------------------- MODULE ReadDir --------------------------------
(***************************************************************************)
(* Reading a directory: FuseOpenDir, FuseReadDir and FuseReleaseDir of     *)
(* ramfs/FileSystem.cpp, for one open directory, while others create,      *)
(* remove and rename its entries.  A listing takes several requests.  What *)
(* is kept between them is an iterator into the map Directory::m_children, *)
(* whose address is the offset the kernel sends back; every entry of a     *)
(* response carries the same one.                                          *)
(*                                                                         *)
(* Names are numbers, in the order of the map.  Another open directory has *)
(* another iterator, and i-node numbers are not read here.                 *)
(***************************************************************************)
EXTENDS Integers, FiniteSets, FiniteSetsExt

CONSTANTS
    Names,    \* names of entries
    Size,     \* bytes of the entry of each name in a response
    BufSize,  \* FileSystem::kReadDirBufSize
    Limit,    \* FileSystem::kReadDirEntriesPerResponse
    DotsSize  \* bytes of "." and ".."

ASSUME ReadDirAssumption ==
    /\ Names \subseteq Nat /\ Names # {} /\ IsFiniteSet(Names)
    /\ Size \in [Names -> Nat \ {0}]
    /\ BufSize \in Nat /\ Limit \in Nat /\ Limit > 2
    /\ DotsSize \in 0 .. BufSize

VARIABLES
    children,       \* Directory::m_children
    off,            \* kernel: no open directory, or the offset it sends next
    childIterator,  \* where the iterator of the listing points
    response,       \* history: the names the reader has taken of the last response
    sent,           \* history: and of all responses of this listing
    steady,         \* history: names in the directory since the listing began
    orderly,        \* history: have things been as is said at Keeps?
    fault           \* an iterator has been used that is not valid

listing == <<off, childIterator, response, sent, steady>>
vars    == <<children, listing, orderly, fault>>

-----------------------------------------------------------------------------
End    == Max(Names) + 1   \* children.end()
Erased == End + 1          \* no entry: what was there has been erased

\* What users do is free.  It is orderly as long as any two entries fit into a
\* response, the reader takes responses whole, and no entry is erased to which
\* the iterator points.
Keeps(rule)  == orderly' = (orderly /\ rule)
Fits(n)      == Size[n] <= BufSize - DotsSize /\ 2 * Size[n] <= BufSize
PointedTo(n) == off # "closed" /\ childIterator = n

From(n)  == {m \in children : m >= n}
UpTo(S, m) == {l \in S : l <= m}
Bytes == [S \in SUBSET Names |-> MapThenSumSet(LAMBDA m : Size[m], S)]

\* Bug: room is kept for the dots in every response.
Room_Bug(first) == BufSize - DotsSize

\* What "." and "..", which come first, leave of a response.
Room(first)     == IF first THEN BufSize - DotsSize ELSE BufSize
MostNames(first) == IF first THEN Limit - 2 ELSE Limit

\* The entries the loop adds, from n on: in order, up to the first that does not
\* fit or is one too many.
Added(n, first) ==
    LET tooMuch == {m \in From(n) :
            \/ Bytes[UpTo(From(n), m)] > Room(first)
            \/ Cardinality(UpTo(From(n), m)) > MostNames(first)}
    IN  {m \in From(n) : \A l \in tooMuch : m < l}

\* Bug: the entry that did not fit is skipped.
Back_SkipBug(n) == IF \E l \in children : l > n THEN Min({l \in children : l > n}) ELSE End

\* Bug: the next response repeats this one.
Back_TwiceBug(n) == Min(children)

\* Bug: positions are indexes, not iterators.
Back_IndexBug(n) == n - 1

\* --(*childIterator); there is nothing before begin().
Back(n) == IF \E l \in children : l < n THEN Max({l \in children : l < n}) ELSE Erased

Begin == IF children = {} THEN End ELSE Min(children)

-----------------------------------------------------------------------------
(* The directory, as other handlers change it.                             *)

\* Directory::UpdateChild of the handlers that make an entry.
UpdateChild(n) ==
    /\ n \notin children
    /\ children' = children \cup {n}
    /\ Keeps(Fits(n))
    /\ UNCHANGED <<listing, fault>>

Gone(n) ==
    /\ childIterator' = IF PointedTo(n) THEN Erased ELSE childIterator
    /\ steady' = steady \ {n}
    /\ UNCHANGED <<off, response, sent, fault>>

\* Directory::DeleteChild of FuseUnlink and FuseRmdir.
DeleteChild(n) ==
    /\ n \in children
    /\ children' = children \ {n}
    /\ Keeps(~ PointedTo(n))
    /\ Gone(n)

\* In one directory: UpdateChild of the new name, DeleteChild of the old one.
FuseRename(n, m) ==
    /\ n \in children /\ m # n
    /\ children' = (children \cup {m}) \ {n}
    /\ Keeps(~ PointedTo(n) /\ Fits(m))
    /\ Gone(n)

-----------------------------------------------------------------------------
(* The reader.                                                             *)

Starts == /\ off' = "start"
          /\ response' = {} /\ sent' = {} /\ steady' = children
          /\ UNCHANGED <<children, childIterator, orderly, fault>>

FuseOpenDir == off = "closed" /\ Starts

\* rewinddir: the kernel sends offset 0 again.
Rewind == off \notin {"closed", "start"} /\ Starts

\* A response, of which the reader takes the first n entries besides the dots.
FuseReadDir(n) ==
    LET first == off = "start"
        begin == IF first THEN Begin ELSE childIterator
        added == Added(begin, first)
        left  == From(begin) \ added
        taken == {m \in added : Cardinality(UpTo(added, m)) <= n}
    IN  /\ off # "closed" /\ UNCHANGED children
        /\ n <= Cardinality(added) /\ (n = 0 => first \/ added = {})
        /\ IF begin = Erased
             THEN fault' = TRUE /\ UNCHANGED <<listing, orderly>>
             ELSE /\ childIterator' =
                        IF left = {} THEN End
                        ELSE IF Cardinality(added) = MostNames(first) THEN Min(left)
                        ELSE Back(Min(left))
                  /\ off' = IF first \/ added # {} THEN "iterator" ELSE "ended"
                  /\ response' = taken
                  /\ sent' = sent \cup taken
                  /\ Keeps(taken = added)
                  /\ UNCHANGED <<steady, fault>>

\* The iterator is left to leak.
FuseReleaseDir ==
    /\ off # "closed"
    /\ off' = "closed" /\ childIterator' = End
    /\ response' = {} /\ sent' = {} /\ steady' = {}
    /\ UNCHANGED <<children, orderly, fault>>

-----------------------------------------------------------------------------
Init ==
    /\ children = {}
    /\ off = "closed" /\ childIterator = End
    /\ response = {} /\ sent = {} /\ steady = {}
    /\ orderly = TRUE /\ fault = FALSE

Reads == \E n \in 0 .. Cardinality(children) : FuseReadDir(n)

Next ==
    \/ /\ ~ fault
       /\ \/ Reads \/ FuseOpenDir \/ Rewind \/ FuseReleaseDir
          \/ \E n \in Names : \/ UpdateChild(n) \/ DeleteChild(n)
                              \/ \E m \in Names : FuseRename(n, m)
    \/ fault /\ UNCHANGED vars

Spec == Init /\ [][Next]_vars

\* A reader goes on reading; others do as they like.
FairSpec == Spec /\ WF_vars(~ fault /\ Reads)

-----------------------------------------------------------------------------
(* Properties.                                                             *)

TypeOK ==
    /\ children \subseteq Names
    /\ off \in {"closed", "start", "iterator", "ended"}
    /\ childIterator \in children \cup {End, Erased}
    /\ response \subseteq sent /\ sent \subseteq Names /\ steady \subseteq children
    /\ orderly \in BOOLEAN /\ fault \in BOOLEAN

\* A listing names every entry that is there from its beginning to its end,
\* whatever else comes and goes meanwhile, and never follows an invalid iterator.
Complete == orderly => ~ fault /\ (off = "ended" => steady \subseteq sent)

\* The comment in FuseReadDir: "We must exercise care not to re-send children".
NothingAgain == [][orderly' /\ Reads => response' \cap sent = {}]_vars

\* Of what it has sent FuseReadDir sends again at most the last entry of the
\* response before, to which it has backed up.
OnlyLastAgain ==
    [][orderly' /\ Reads => \A n \in response' \cap sent :
          n \in response /\ \A l \in response : l <= n]_vars

\* A reader that goes on reading comes to the end, though the iterator is moved back
\* and entries are made before and behind it.
ListingEnds == off = "iterator" ~> off # "iterator" \/ ~ orderly
=============================================================================
