----------------------------- MODULE RemoteFile -----------------------------
(***************************************************************************)
(* What reading a remote file promises, whatever is cached where: an       *)
(* answer is a version the server had at some time during the read, or an  *)
(* error, and it is the error of a missing file only if the file is gone.  *)
(* Only while the network is down it may be some version the server had    *)
(* before: a file that is gone is not answered from memory.                *)
(***************************************************************************)
EXTENDS Naturals

CONSTANTS
    Reader,     \* Those who read the file.
    MaxVersion  \* Bound on the versions the server publishes.

VARIABLES
    version,    \* The version the server has.
    state,      \* The file is there, is gone, or nobody can tell: "up", "gone", "down".
    reader      \* The reads: since which version, and with which answer.

vars == <<version, state, reader>>

Unread == [since |-> 0, answer |-> "none", version |-> 0]

Init ==
    /\ version = 0
    /\ state \in {"up", "gone", "down"}
    /\ reader = [r \in Reader |-> Unread]

Publish ==
    /\ version < MaxVersion
    /\ version' = version + 1
    /\ UNCHANGED <<state, reader>>

ChangeState ==
    /\ state' \in {"up", "gone", "down"}
    /\ UNCHANGED <<version, reader>>

Open(r) ==
    /\ reader[r].answer = "none"
    /\ reader' = [reader EXCEPT ![r] = [since |-> version, answer |-> "pending", version |-> 0]]
    /\ UNCHANGED <<version, state>>

Answer(r, kind, v) ==
    /\ reader[r].answer = "pending"
    /\ reader' = [reader EXCEPT ![r] = [since |-> @.since, answer |-> kind, version |-> v]]
    /\ UNCHANGED <<version, state>>

Close(r) ==
    /\ reader[r].answer # "none"
    /\ reader' = [reader EXCEPT ![r] = Unread]
    /\ UNCHANGED <<version, state>>

Next ==
    \/ Publish
    \/ ChangeState
    \/ \E r \in Reader :
        \/ Open(r)
        \/ \E v \in reader[r].since..version : Answer(r, "current", v)
        \/ state = "down" /\ \E v \in 0..version : Answer(r, "cached", v)
        \/ state = "gone" /\ Answer(r, "missing", 0)
        \/ Answer(r, "error", 0)
        \/ Close(r)

Spec == Init /\ [][Next]_vars

=============================================================================
