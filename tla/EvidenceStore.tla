--------------------------- MODULE EvidenceStore ---------------------------
(***************************************************************************)
(* FileEvidenceStore (runtime_contracts/store/file.py): several openers of *)
(* one newline-delimited log, each with its own in-memory copy.            *)
(*                                                                         *)
(* append indexes the envelope in memory FIRST and then writes the line:   *)
(* the write may be refused (the opener goes on, its memory ahead of the   *)
(* file) and the process may die in it, leaving a part of the line and no  *)
(* newline.  An opener reads the file when it opens, and never again.      *)
(*                                                                         *)
(* An envelope is what EvidenceProjection makes of an artifact, and the     *)
(* known_at it is kept with.                                                *)
(***************************************************************************)
EXTENDS EvidenceProjection, Integers, Sequences, SequencesExt

CONSTANTS
    Openers,        \* processes that open the path
    Artifacts,      \* what a caller may project and append
    Supplied,       \* known_at stamps a caller may bring along
    Remnants,       \* what a death in the write may leave: "none", "part", "all"
    MaxClock,       \* bound: readings of the clock
    MaxRows         \* bound: rows in one memory, lines in the file

ASSUME BoundsAssumption == MaxClock \in Nat \ {0} /\ MaxRows \in Nat
ASSUME SuppliedAssumption == Supplied \subseteq 1..MaxClock
ASSUME RemnantsAssumption == Remnants \subseteq {"none", "part", "all"}

VARIABLES
    clock,      \* what _utc_now reads
    open,       \* the openers whose store object exists
    memory,     \* memory[p]: the in-memory list of opener p
    disk,       \* the file: lines of [pieces, ended]
    acked       \* rows whose append returned

storeVars == <<clock, open, memory, disk, acked>>

Events == {Project(a) : a \in Artifacts}

\* A row: an envelope, and when the store learned of it.
Kept(e, known) ==
    [event_id |-> e.event_id, parent_event_id |-> e.parent_event_id, body |-> e.body,
     known_at |-> known]

Row == {Kept(e, known) : e \in Events, known \in 1..MaxClock}

\* A fragment of a line: no JSON document.
Part == Kept(Envelope(NoId, NoId, NoId), 0)

References == {e.event_id : e \in Events} \cup {e.body : e \in Events}

-----------------------------------------------------------------------------
\* The rows, or lines, at the places in I, in order.
KeptAfter(s, I) ==
    LET kept[n \in 0..Len(s)] ==
            IF n = 0 THEN << >>
            ELSE IF n \in I THEN Append(kept[n - 1], s[n]) ELSE kept[n - 1]
    IN  kept

Keeping(s, I) == KeptAfter(s, I)[Len(s)]

Named(rows, ref) == {i \in DOMAIN rows : rows[i].event_id = ref}
Holding(rows, ref) == {i \in DOMAIN rows : rows[i].body = ref}

\* Mutant: content hashes are looked up before event ids.
Resolve_HashFirst(rows, ref) ==
    LET found == IF Holding(rows, ref) # {} THEN Holding(rows, ref) ELSE Named(rows, ref)
    IN  {rows[i] : i \in {j \in found : \A k \in found : j <= k}}

\* Mutant: a later row takes the index entry of an earlier one.
Resolve_LastWriter(rows, ref) ==
    LET found == IF Named(rows, ref) # {} THEN Named(rows, ref) ELSE Holding(rows, ref)
    IN  {rows[i] : i \in {j \in found : \A k \in found : k <= j}}

(***************************************************************************)
(* resolve over the two indexes that _index keeps with setdefault: the     *)
(* first row with the id, else the first with the hash; no row, or one.    *)
(***************************************************************************)
Resolve(rows, ref) ==
    LET found == IF Named(rows, ref) # {} THEN Named(rows, ref) ELSE Holding(rows, ref)
    IN  {rows[i] : i \in {j \in found : \A k \in found : j <= k}}

\* snapshot(as_of): the rows known at an instant, in the order of the list.
Snapshot(rows, asOf) == Keeping(rows, {i \in DOMAIN rows : rows[i].known_at <= asOf})

\* Mutant: the feed gives no more than the latest row.
Changes_Latest(rows, since) ==
    Keeping(rows, {Len(rows)} \cap {i \in DOMAIN rows : since = 0 \/ rows[i].known_at > since})

\* changes(since): the rows learned strictly after a cursor; 0 is no cursor.
Changes(rows, since) ==
    Keeping(rows, {i \in DOMAIN rows : since = 0 \/ rows[i].known_at > since})

-----------------------------------------------------------------------------
\* A line that json.loads accepts holds one whole document and nothing else.
Loads(line) == Len(line.pieces) = 1 /\ line.pieces[1] # Part

\* The documents of the lines at the places in I.
Documents(lines, I) ==
    LET kept == Keeping(lines, I) IN [i \in DOMAIN kept |-> kept[i].pieces[1]]

\* The rows a reader that skipped the unreadable lines would find.
Readable(lines) == Documents(lines, {i \in DOMAIN lines : Loads(lines[i])})

Torn(lines) == \E i \in DOMAIN lines : ~Loads(lines[i])

\* Mutant: the file is opened for writing, not for appending.
Written_Truncates(lines, pieces, ended) == <<[pieces |-> pieces, ended |-> ended]>>

(***************************************************************************)
(* open(path, "a") and write: the text goes after the last byte, so onto   *)
(* the last line when that one was never ended.                            *)
(***************************************************************************)
Written(lines, pieces, ended) ==
    IF lines # << >> /\ ~lines[Len(lines)].ended
    THEN [lines EXCEPT ![Len(lines)] = [pieces |-> @.pieces \o pieces, ended |-> ended]]
    ELSE Append(lines, [pieces |-> pieces, ended |-> ended])

StoreInit ==
    /\ clock = 1
    /\ open = {}
    /\ memory = [p \in Openers |-> << >>]
    /\ disk = << >>
    /\ acked = {}

Tick ==
    /\ clock < MaxClock
    /\ clock' = clock + 1
    /\ UNCHANGED <<open, memory, disk, acked>>

\* Mutant: the constructor steps over a line it cannot parse.
Open_SkipsTorn(p) ==
    /\ p \notin open
    /\ open' = open \cup {p}
    /\ memory' = [memory EXCEPT ![p] = Readable(disk)]
    /\ UNCHANGED <<clock, disk, acked>>

\* The constructor reads the whole file; one torn line and it raises.
Open(p) ==
    /\ p \notin open
    /\ ~Torn(disk)
    /\ open' = open \cup {p}
    /\ memory' = [memory EXCEPT ![p] = Readable(disk)]
    /\ UNCHANGED <<clock, disk, acked>>

\* The process ends between two calls; its memory goes with it.
Exit(p) ==
    /\ p \in open
    /\ open' = open \ {p}
    /\ memory' = [memory EXCEPT ![p] = << >>]
    /\ UNCHANGED <<clock, disk, acked>>

\* with_known_at(clock()) unless the envelope came with a stamp (0 is none).
Stamped(e, known) == Kept(e, IF known = 0 THEN clock ELSE known)

Room(p) == p \in open /\ Len(memory[p]) < MaxRows /\ Len(disk) < MaxRows

\* append: index, then write; it returns the event_id.
AppendRow(p, e, known) ==
    LET r == Stamped(e, known) IN
    /\ Room(p)
    /\ memory' = [memory EXCEPT ![p] = Append(@, r)]
    /\ disk' = Written(disk, <<r>>, TRUE)
    /\ acked' = acked \cup {r}
    /\ UNCHANGED <<clock, open>>

\* append whose _persist raises before a byte is written (full disk, lost
\* permission): the caller sees the error, the memory keeps the row.
AppendRefused(p, e, known) ==
    /\ Room(p)
    /\ memory' = [memory EXCEPT ![p] = Append(@, Stamped(e, known))]
    /\ UNCHANGED <<clock, open, disk, acked>>

\* The process dies inside append, its line not, partly or wholly written but
\* for the newline.
DieInAppend(p, e, known, remnant) ==
    /\ Room(p)
    /\ remnant \in Remnants
    /\ open' = open \ {p}
    /\ memory' = [memory EXCEPT ![p] = << >>]
    /\ disk' = CASE remnant = "none" -> disk
                 [] remnant = "part" -> Written(disk, <<Part>>, FALSE)
                 [] remnant = "all"  -> Written(disk, <<Stamped(e, known)>>, FALSE)
    /\ UNCHANGED <<clock, acked>>

StoreNext ==
    \/ Tick
    \/ \E p \in Openers : Open(p) \/ Exit(p)
    \/ \E p \in Openers, e \in Events, known \in Supplied \cup {0} :
          \/ AppendRow(p, e, known)
          \/ AppendRefused(p, e, known)
          \/ \E remnant \in Remnants : DieInAppend(p, e, known, remnant)

StoreSpec == StoreInit /\ [][StoreNext]_storeVars

-----------------------------------------------------------------------------
(***************************************************************************)
(* An envelope whose append returned is in the file, unless a line of the  *)
(* file is torn: a refused write and a second opener cost nobody a row,    *)
(* and a death in the write costs at most what touches its own line.       *)
(***************************************************************************)
OnlyATornLineLosesRows == acked \subseteq ToSet(Readable(disk)) \/ Torn(disk)

(***************************************************************************)
(* A store that opens answers with everything that was ever acknowledged:  *)
(* a file that lost a row to a torn line does not open at all, so a reader *)
(* is never served a plane with a silent hole (the json.loads in _load     *)
(* raises).                                                                *)
(***************************************************************************)
OpenSeesEverythingAcknowledged ==
    [][\A p \in Openers : p \notin open /\ p \in open' =>
         acked \subseteq ToSet(memory'[p])]_storeVars

(***************************************************************************)
(* An answer stays.  What a reference resolves to in an open store keeps   *)
(* its content, whatever is appended under the same id or hash, and so it  *)
(* does for whoever opens the file later; the plane as it was known at an  *)
(* instant that is over does not change; and a reference that names an     *)
(* occurrence is answered with that occurrence, not with another of equal  *)
(* content.                                                                *)
(***************************************************************************)
Contents(rows, ref) == {r.body : r \in Resolve(rows, ref)}

KeepsAnswers(before, after) ==
    \A ref \in References :
        /\ Contents(before, ref) \subseteq Contents(after, ref)
        /\ \A r \in ToSet(after) :
              r.event_id = ref => \A found \in Resolve(after, ref) : found.event_id = ref

AnswersStay ==
    [][/\ \A p \in open \cap open' :
             /\ KeepsAnswers(memory[p], memory'[p])
             /\ \A t \in 1..(clock - 1) : Snapshot(memory'[p], t) = Snapshot(memory[p], t)
       /\ ~Torn(disk') => KeepsAnswers(Readable(disk), Readable(disk'))]_storeVars

(***************************************************************************)
(* The ended lines of the file, as a log of rows, implement the contract   *)
(* of the seam.  A line without its newline is nobody's row yet: whatever  *)
(* is appended next makes it unreadable.                                   *)
(***************************************************************************)
Contract ==
    INSTANCE EvidenceContract
        WITH log <- Documents(disk, {i \in DOMAIN disk : disk[i].ended /\ Loads(disk[i])})
LogIsAppendOnly == Contract!Spec

=============================================================================
