----------------------------- MODULE HttpCache -----------------------------
(***************************************************************************)
(* HttpSource.read and downloadWithCache for one URL.  The cache file is   *)
(* shared by all runs of the command on a machine; the server changes,     *)
(* refuses and comes back under them, and may redirect anywhere.  A fetch  *)
(* reads the cache file, asks the server, follows its redirects, and       *)
(* writes the file; what is between two awaits is one step.  Within a run  *)
(* the includes are read one after the other, so each fetch below is one   *)
(* of a run of its own.                                                    *)
(***************************************************************************)
EXTENDS Naturals

CONSTANTS
    Fetch,       \* The fetches in progress.
    MaxVersion,  \* Bound on the versions the server publishes.
    NoEntry,     \* readCache returns null: no cache file, or one that is not JSON.
    Place,       \* The places a request can be sent to: scheme and host.
    Url,         \* That of the URL.
    Https,       \* Those with the scheme https.
    Private,     \* Those of another host than Url's, given by a private address.
    Listed,      \* Those on DOCKERFILEX_REDIRECT_ALLOWLIST.
    MaxRedirects \* DOCKERFILEX_MAX_REDIRECTS.

ASSUME VersionAssumption == MaxVersion \in Nat
ASSUME PlaceAssumption ==
    /\ Url \in Place \ Private
    /\ Https \subseteq Place /\ Private \subseteq Place /\ Listed \subseteq Place
    /\ MaxRedirects \in Nat

VARIABLES
    server,  \* The version the server has, and its mood.
    file,    \* The cache file.
    fetch    \* The fetches.

vars == <<server, file, fetch>>

\* "tagged": it sends an ETag or Last-Modified, and answers 304; "gone": it
\* answers 404; "refusing": another 4xx, a 5xx, or more than maxContentLength;
\* "unreachable": the error is one of the network, or the timeout.
Moods == {"tagged", "untagged", "gone", "refusing", "unreachable"}
Entry == [version : 0..MaxVersion, tagged : BOOLEAN]
Phases == {"start", "ask", "write", "writing", "done"}
Answers == {"none", "current", "cached", "missing", "error"}

ASSUME EntryAssumption == NoEntry \notin Entry

NoFetch ==
    [phase |-> "start", since |-> 0, at |-> Url, hops |-> 0, cached |-> NoEntry, got |-> NoEntry,
     alone |-> TRUE, answer |-> "none", version |-> 0]

Init ==
    /\ server \in [version : {0}, mood : Moods]
    /\ file = NoEntry
    /\ fetch = [f \in Fetch |-> NoFetch]

In(f, phase) == fetch[f].phase = phase
Set(f, state) == fetch' = [fetch EXCEPT ![f] = state]
Finish(f, answer, version) ==
    Set(f, [NoFetch EXCEPT !.phase = "done", !.since = fetch[f].since,
                           !.answer = answer, !.version = version])

-----------------------------------------------------------------------------
(***************************************************************************)
(* The server, and the runs that come and go.                              *)
(***************************************************************************)
Publish ==
    /\ server.version < MaxVersion
    /\ server' = [server EXCEPT !.version = @ + 1]
    /\ UNCHANGED <<file, fetch>>

ChangeMood ==
    /\ \E mood \in Moods \ {server.mood} : server' = [server EXCEPT !.mood = mood]
    /\ UNCHANGED <<file, fetch>>

\* A run is over, or interrupted; interrupted while writing, it leaves what is
\* no JSON.
Leave(f) ==
    /\ ~In(f, "start")
    /\ Set(f, NoFetch)
    /\ UNCHANGED <<server, file>>

-----------------------------------------------------------------------------
(***************************************************************************)
(* fetchOnce                                                               *)
(***************************************************************************)
ReadCache(f) ==
    /\ In(f, "start")
    /\ Set(f, [fetch[f] EXCEPT !.phase = "ask", !.since = server.version, !.cached = file])
    /\ UNCHANGED <<server, file>>

\* The validators sent are those of the cached entry, if it has any.
Conditional(f) == fetch[f].cached # NoEntry /\ fetch[f].cached.tagged

Matches(f) ==
    /\ server.mood = "tagged"
    /\ Conditional(f)
    /\ fetch[f].cached.version = server.version

NotModified(f) ==
    /\ In(f, "ask")
    /\ Matches(f)
    /\ Finish(f, "current", fetch[f].cached.version)
    /\ UNCHANGED <<server, file>>

\* Variant, against TypeOK: what was downloaded is not kept for the cache.
DownloadForgets(f) ==
    /\ In(f, "ask")
    /\ server.mood \in {"tagged", "untagged"}
    /\ ~Matches(f)
    /\ Set(f, [fetch[f] EXCEPT !.phase = "write"])
    /\ UNCHANGED <<server, file>>

Download(f) ==
    /\ In(f, "ask")
    /\ server.mood \in {"tagged", "untagged"}
    /\ ~Matches(f)
    /\ Set(f, [fetch[f] EXCEPT
                  !.phase = "write", !.at = Url, !.hops = 0,
                  !.got = [version |-> server.version, tagged |-> server.mood = "tagged"]])
    /\ UNCHANGED <<server, file>>

\* Variant, against RedirectsAllowed: only the first redirect is looked at.
AcceptableFirst(f, place) ==
    fetch[f].hops = 0 => (place \in Https /\ place \notin Private \ Listed)

\* beforeRedirect compares with the URL, wherever the request has been sent since.
Acceptable(f, place) ==
    /\ Url \in Https => place \in Https
    /\ place \notin Private \ Listed

\* A Location is absolute, or relative: then axios takes it from the last place,
\* and beforeRedirect from the URL.
Locations(f) == {[to |-> p, checked |-> p] : p \in Place}
                    \cup {[to |-> fetch[f].at, checked |-> Url]}

Redirected(f) ==
    /\ In(f, "ask")
    /\ server.mood # "unreachable"
    /\ fetch[f].hops < MaxRedirects
    /\ \E l \in Locations(f) :
        /\ Acceptable(f, l.checked)
        /\ Set(f, [fetch[f] EXCEPT !.at = l.to, !.hops = @ + 1])
    /\ UNCHANGED <<server, file>>

\* It is none of the network's errors: no fallback.
RedirectRefused(f) ==
    /\ In(f, "ask")
    /\ server.mood # "unreachable"
    /\ \/ fetch[f].hops = MaxRedirects
       \/ \E l \in Locations(f) : ~Acceptable(f, l.checked)
    /\ Finish(f, "error", 0)
    /\ UNCHANGED <<server, file>>

\* Variant, against KeepsPromise: a refusal is answered from the cache.
RefusedFallsBack(f) ==
    /\ In(f, "ask")
    /\ server.mood \in {"gone", "refusing"}
    /\ IF fetch[f].cached # NoEntry
       THEN Finish(f, "cached", fetch[f].cached.version)
       ELSE Finish(f, "error", 0)
    /\ UNCHANGED <<server, file>>

\* An answer of the server is authoritative: no fallback.  404 is reported as
\* remote-file-not-found, anything else as remote-fetch-failed.
Refused(f) ==
    /\ In(f, "ask")
    /\ server.mood \in {"gone", "refusing"}
    /\ Finish(f, IF server.mood = "gone" THEN "missing" ELSE "error", 0)
    /\ UNCHANGED <<server, file>>

\* Variant, against FetchEnds: with nothing cached the request is repeated.
NetworkFailsRetried(f) ==
    /\ In(f, "ask")
    /\ server.mood = "unreachable"
    /\ IF fetch[f].cached # NoEntry
       THEN Finish(f, "cached", fetch[f].cached.version)
       ELSE UNCHANGED fetch
    /\ UNCHANGED <<server, file>>

NetworkFails(f) ==
    /\ In(f, "ask")
    /\ server.mood = "unreachable"
    /\ IF fetch[f].cached # NoEntry
       THEN Finish(f, "cached", fetch[f].cached.version)
       ELSE Finish(f, "error", 0)
    /\ UNCHANGED <<server, file>>

\* writeFile truncates the file, then fills it.  Two fetches that do so at the
\* same time can leave the end of a longer text after a shorter one.
Truncate(f) ==
    LET others == {g \in Fetch \ {f} : In(g, "writing")} IN
    /\ In(f, "write")
    /\ file' = NoEntry
    /\ fetch' = [g \in Fetch |->
                    IF g = f
                    THEN [fetch[f] EXCEPT !.phase = "writing", !.alone = others = {}]
                    ELSE [fetch[g] EXCEPT !.alone = @ /\ g \notin others]]
    /\ UNCHANGED server

Fill(f) ==
    /\ In(f, "writing")
    /\ file' \in {fetch[f].got} \cup IF fetch[f].alone THEN {} ELSE {NoEntry}
    /\ Finish(f, "current", fetch[f].got.version)
    /\ UNCHANGED server

\* No space, no permission: the answer is lost with it.
WriteFails(f) ==
    /\ fetch[f].phase \in {"write", "writing"}
    /\ Finish(f, "error", 0)
    /\ UNCHANGED <<server, file>>

Work(f) ==
    \/ ReadCache(f) \/ Redirected(f) \/ RedirectRefused(f)
    \/ NotModified(f) \/ Download(f) \/ Refused(f) \/ NetworkFails(f)
    \/ Truncate(f) \/ Fill(f) \/ WriteFails(f)

Next ==
    \/ Publish \/ ChangeMood
    \/ \E f \in Fetch : Work(f) \/ Leave(f)

\* axios and writeFile end, with an answer or an error.
Spec == Init /\ [][Next]_vars /\ \A f \in Fetch : WF_vars(Work(f))

-----------------------------------------------------------------------------
(***************************************************************************)
(* Properties                                                              *)
(***************************************************************************)
FetchType ==
    [phase : Phases, since : 0..MaxVersion, at : Place, hops : 0..MaxRedirects,
     cached : Entry \cup {NoEntry}, got : Entry \cup {NoEntry},
     alone : BOOLEAN, answer : Answers, version : 0..MaxVersion]

\* The state is made of what the fetches can hold, and a fetch that writes has
\* something to write.
TypeOK ==
    /\ server \in [version : 0..MaxVersion, mood : Moods]
    /\ file \in Entry \cup {NoEntry}
    /\ fetch \in [Fetch -> FetchType]
    /\ \A f \in Fetch : fetch[f].phase \in {"write", "writing"} => fetch[f].got # NoEntry

\* Races on the cache file, torn and outdated entries included, a fetch gives
\* what RemoteFile promises: nothing older than what the server had when the
\* fetch began, unless the server cannot be reached.
Promise == INSTANCE RemoteFile WITH
        Reader  <- Fetch,
        version <- server.version,
        state   <- CASE server.mood = "gone"        -> "gone"
                     [] server.mood = "unreachable" -> "down"
                     [] OTHER                       -> "up",
        reader  <- [f \in Fetch |->
                        [since   |-> fetch[f].since,
                         answer  |-> IF fetch[f].phase \in {"ask", "write", "writing"}
                                     THEN "pending" ELSE fetch[f].answer,
                         version |-> fetch[f].version]]

KeepsPromise == Promise!Spec

\* README, "Error codes": a request to an https URL is never sent on over http,
\* nor to a private address of another host that is not on the list, however many
\* redirects lead there and whether they are absolute or relative.
RedirectsAllowed ==
    \A f \in Fetch :
        /\ Url \in Https => fetch[f].at \in Https
        /\ fetch[f].at \notin Private \ Listed

\* A fetch that has read the cache ends, or its run does, even when the server
\* redirects it in circles.
FetchEnds == \A f \in Fetch : In(f, "ask") ~> fetch[f].phase \in {"done", "start"}

=============================================================================
