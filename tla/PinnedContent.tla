--------------------------- MODULE PinnedContent ---------------------------
(***************************************************************************)
(* What the caches of git clones and OCI artifacts have in common, seen    *)
(* from outside: the first content a reference is fetched with is pinned,  *)
(* whatever becomes of the branch or the tag, and every read of every run  *)
(* gives what is pinned, whole.                                            *)
(***************************************************************************)
CONSTANTS
    Reader,     \* The runs of the command.
    Ref,        \* The references the cache has a directory for.
    Version,    \* The contents a reference can have.
    NoVersion   \* The reference has not been fetched.

VARIABLES
    pinned,     \* The content of each directory.
    seen        \* What each run has read, and under which reference.

vars == <<pinned, seen>>

Init ==
    /\ pinned = [r \in Ref |-> NoVersion]
    /\ seen = [x \in Reader |-> {}]

Pin(r) ==
    /\ pinned[r] = NoVersion
    /\ \E v \in Version : pinned' = [pinned EXCEPT ![r] = v]
    /\ UNCHANGED seen

Read(x, r) ==
    /\ pinned[r] # NoVersion
    /\ seen' = [seen EXCEPT ![x] = @ \cup {<<r, pinned[r]>>}]
    /\ UNCHANGED pinned

\* The run is over.
Forget(x) ==
    /\ seen' = [seen EXCEPT ![x] = {}]
    /\ UNCHANGED pinned

Next ==
    \/ \E r \in Ref : Pin(r)
    \/ \E x \in Reader : Forget(x) \/ \E r \in Ref : Read(x, r)

Spec == Init /\ [][Next]_vars

=============================================================================
