---------------------------- MODULE EvidenceFeed ----------------------------
(***************************************************************************)
(* An incremental consumer of an evidence store: it asks for changes since *)
(* its cursor, takes the rows, and moves the cursor to the latest known_at *)
(* it was given (runtime_contracts/store/file.py, changes; the consumer is *)
(* the caller the seam describes, base.py:15).                             *)
(***************************************************************************)
EXTENDS EvidenceStore, FiniteSetsExt

CONSTANT Reader     \* the process whose store the consumer asks

ASSUME ReaderAssumption == Reader \in Openers

VARIABLES
    cursor,     \* the since of the next call; 0 before the first row
    fed,        \* the instants of the rows the consumer has been given
    shared      \* whether another process ever opened the path

feedVars == <<storeVars, cursor, fed, shared>>

FeedInit == StoreInit /\ cursor = 0 /\ fed = {} /\ shared = FALSE

Poll ==
    LET instants == {r.known_at : r \in ToSet(Changes(memory[Reader], cursor))} IN
    /\ Reader \in open
    /\ instants # {}
    /\ cursor' = Max(instants)
    /\ fed' = fed \cup instants
    /\ UNCHANGED <<storeVars, shared>>

FeedNext ==
    \/ /\ StoreNext
       /\ shared' = (shared \/ open' \ {Reader} # {})
       /\ UNCHANGED <<cursor, fed>>
    \/ Poll

FeedSpec == FeedInit /\ [][FeedNext]_feedVars

-----------------------------------------------------------------------------
(***************************************************************************)
(* While one process owns the path, the feed can only lose a row to a tie: *)
(* of every instant the cursor has passed and the store holds a row of,    *)
(* some row was delivered, whichever restarts, refused writes and deaths   *)
(* in append lie between the polls.                                        *)
(***************************************************************************)
FeedLosesOnlyTies ==
    ~shared =>
        \A r \in ToSet(memory[Reader]) :
            r.known_at <= cursor => r.known_at \in fed
=============================================================================
