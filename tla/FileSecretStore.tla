-------------------------- MODULE FileSecretStore --------------------------
(***************************************************************************)
(* Secrets as files of one directory                                       *)
(* (runtime_contracts/secrets_local/store.py, FileSecretStore).            *)
(*                                                                         *)
(* put opens the file with O_TRUNC and writes it in a second call: between *)
(* the two, and for ever when the write raises or the process dies, the    *)
(* file is there and empty, and _read returns no bytes without an error.   *)
(* One put at a time is under way on one secret.  rotate returns a         *)
(* reference with another label and touches no file.                       *)
(***************************************************************************)
CONSTANTS
    Refs,       \* the secrets
    Values,     \* what may be put
    Missing,    \* no such file, no value
    Empty       \* the content of a truncated file

ASSUME ContentAssumption == Missing \notin Values /\ Empty \notin Values /\ Missing # Empty

VARIABLES
    content,    \* content[r]: what the file of r holds
    putting,    \* putting[r]: the value a put of r has still to write
    torn,       \* secrets whose last put stopped before its write
    latest      \* latest[r]: the value of the last put that returned (history)

storeVars == <<content, putting, torn, latest>>

Readable(r) == content[r] # Missing

StoreInit ==
    /\ content = [r \in Refs |-> Missing]
    /\ putting = [r \in Refs |-> Missing]
    /\ torn = {}
    /\ latest = [r \in Refs |-> Missing]

\* put, up to the open.
PutOpen(r, v) ==
    /\ putting[r] = Missing
    /\ putting' = [putting EXCEPT ![r] = v]
    /\ content' = [content EXCEPT ![r] = Empty]
    /\ UNCHANGED <<torn, latest>>

\* put, from the write on.  A file removed in between is not there for the
\* chmod, which raises.
PutWrite(r) ==
    /\ putting[r] # Missing
    /\ putting' = [putting EXCEPT ![r] = Missing]
    /\ IF Readable(r)
       THEN /\ content' = [content EXCEPT ![r] = putting[r]]
            /\ latest' = [latest EXCEPT ![r] = putting[r]]
            /\ torn' = torn \ {r}
       ELSE UNCHANGED <<content, latest, torn>>

\* The write raises, or the process dies before it.
PutStops(r) ==
    /\ putting[r] # Missing
    /\ putting' = [putting EXCEPT ![r] = Missing]
    /\ torn' = IF Readable(r) THEN torn \cup {r} ELSE torn
    /\ UNCHANGED <<content, latest>>

\* revoke: the file is removed when it is there.
RevokeSecret(r) ==
    /\ Readable(r)
    /\ content' = [content EXCEPT ![r] = Missing]
    /\ latest' = [latest EXCEPT ![r] = Missing]
    /\ torn' = torn \ {r}
    /\ UNCHANGED putting

StoreNext ==
    \E r \in Refs :
        \/ \E v \in Values : PutOpen(r, v)
        \/ PutWrite(r)
        \/ PutStops(r)
        \/ RevokeSecret(r)

-----------------------------------------------------------------------------
StoreTypeOK ==
    /\ content \in [Refs -> Values \cup {Missing, Empty}]
    /\ putting \in [Refs -> Values \cup {Missing}]
    /\ torn \subseteq Refs
    /\ latest \in [Refs -> Values \cup {Missing}]

\* A secret no put is under way on, nor stopped in the middle of.
Settled(r) == putting[r] = Missing /\ r \notin torn
=============================================================================
