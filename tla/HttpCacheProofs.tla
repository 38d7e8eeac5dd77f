-------------------------- MODULE HttpCacheProofs --------------------------
(***************************************************************************)
(* Proofs about HttpCache, for any number of fetches, versions, places and *)
(* redirects.                                                              *)
(*                                                                         *)
(* Sound says of one fetch where its versions come from: what it has of    *)
(* the cache was published, and what it has of the server was published    *)
(* since it began.  Publishing only adds versions, so the steps of the     *)
(* server and of the other fetches leave it sound; they can only disturb   *)
(* the cache file, of which all that is needed is that it holds something  *)
(* published, or nothing.                                                  *)
(***************************************************************************)
EXTENDS HttpCache, TLAPS

Asking == {"ask", "write", "writing"}

\* Where a fetch may send its request.
Allowed(place) ==
    /\ Url \in Https => place \in Https
    /\ place \notin Private \ Listed

\* Of a fetch x, while the server has version v.
Sound(x, v) ==
    /\ x \in FetchType
    /\ x.since <= v
    /\ x.cached # NoEntry => x.cached.version <= v
    /\ x.phase \in {"write", "writing"} =>
            x.got # NoEntry /\ x.since <= x.got.version /\ x.got.version <= v
    /\ x.phase = "start" => x.since = 0 /\ x.answer = "none" /\ x.version = 0
    /\ x.phase = "done" => x.answer # "none"
    /\ Allowed(x.at)

Published(entry, v) == entry # NoEntry => entry.version <= v

FetchInv ==
    /\ server \in [version : 0..MaxVersion, mood : Moods]
    /\ file \in Entry \cup {NoEntry}
    /\ Published(file, server.version)
    /\ fetch \in [Fetch -> FetchType]
    /\ \A f \in Fetch : Sound(fetch[f], server.version)

-----------------------------------------------------------------------------
(***************************************************************************)
(* What the properties follow from.                                        *)
(***************************************************************************)
LEMMA InvTypes == FetchInv => TypeOK
BY DEF FetchInv, TypeOK, Sound

LEMMA InvAllowed == FetchInv => RedirectsAllowed
BY DEF FetchInv, Sound, Allowed, RedirectsAllowed

-----------------------------------------------------------------------------
LEMMA FreshSound ==
    ASSUME NEW v \in 0..MaxVersion
    PROVE  Sound(NoFetch, v)
<1>1. 0 \in 0..MaxVersion /\ 0 \in 0..MaxRedirects
    BY VersionAssumption, PlaceAssumption
<1>2. NoFetch \in FetchType
    BY <1>1, PlaceAssumption DEF NoFetch, FetchType, Phases, Answers
<1>3. Allowed(Url)
    BY PlaceAssumption DEF Allowed
<1> QED
    BY <1>2, <1>3, VersionAssumption DEF Sound, NoFetch

LEMMA InitInv == Init => FetchInv
<1> SUFFICES ASSUME Init PROVE FetchInv
    OBVIOUS
<1>1. server \in [version : 0..MaxVersion, mood : Moods]
    BY VersionAssumption DEF Init
<1>2. \A f \in Fetch : Sound(fetch[f], server.version)
    BY <1>1, FreshSound DEF Init
<1>3. fetch \in [Fetch -> FetchType]
    BY <1>2 DEF Init, Sound
<1> QED
    BY <1>1, <1>2, <1>3 DEF Init, FetchInv, Published

\* The server publishes: what was sound is.
LEMMA SoundLater ==
    ASSUME NEW v \in 0..MaxVersion, NEW w \in 0..MaxVersion, v <= w, NEW x, Sound(x, v)
    PROVE  Sound(x, w)
<1>1. /\ x.since \in 0..MaxVersion
      /\ x.cached # NoEntry => x.cached.version \in 0..MaxVersion
      /\ x.got # NoEntry => x.got.version \in 0..MaxVersion
    BY DEF Sound, FetchType, Entry
<1>2. x.since <= w
    BY <1>1, VersionAssumption DEF Sound
<1>3. x.cached # NoEntry => x.cached.version <= w
    BY <1>1, VersionAssumption DEF Sound
<1>4. x.phase \in {"write", "writing"} =>
            x.got # NoEntry /\ x.since <= x.got.version /\ x.got.version <= w
    BY <1>1, VersionAssumption DEF Sound
<1> QED
    BY <1>2, <1>3, <1>4 DEF Sound

\* A fetch steps, and leaves the server and the file alone.
LEMMA OwnStep ==
    ASSUME FetchInv, NEW f \in Fetch, NEW x, Sound(x, server.version),
           Set(f, x), UNCHANGED server,
           file' \in Entry \cup {NoEntry}, Published(file', server.version)
    PROVE  FetchInv'
<1>1. fetch' = [fetch EXCEPT ![f] = x] /\ x \in FetchType
    BY DEF Set, Sound
<1>2. fetch' \in [Fetch -> FetchType]
    BY <1>1 DEF FetchInv
<1>3. \A g \in Fetch : Sound(fetch'[g], server.version)
    BY <1>1 DEF FetchInv
<1> QED
    BY <1>2, <1>3 DEF FetchInv

-----------------------------------------------------------------------------
LEMMA PublishInv == FetchInv /\ Publish => FetchInv'
<1> SUFFICES ASSUME FetchInv, Publish PROVE FetchInv'
    OBVIOUS
<1> DEFINE v == server.version
           w == server'.version
<1>1. /\ v \in 0..MaxVersion /\ w \in 0..MaxVersion /\ v <= w
      /\ server' \in [version : 0..MaxVersion, mood : Moods]
    BY VersionAssumption DEF FetchInv, Publish
<1>2. \A f \in Fetch : Sound(fetch[f], w)
    BY <1>1, SoundLater DEF FetchInv
<1>3. file # NoEntry => file.version \in 0..MaxVersion
    BY DEF FetchInv, Entry
<1>4. Published(file, w)
    BY <1>1, <1>3, VersionAssumption DEF FetchInv, Published
<1>5. file' = file /\ fetch' = fetch
    BY DEF Publish
<1> QED
    BY <1>1, <1>2, <1>4, <1>5 DEF FetchInv

LEMMA ChangeMoodInv == FetchInv /\ ChangeMood => FetchInv'
<1> SUFFICES ASSUME FetchInv, ChangeMood PROVE FetchInv'
    OBVIOUS
<1>1. /\ server' \in [version : 0..MaxVersion, mood : Moods]
      /\ server'.version = server.version
      /\ file' = file /\ fetch' = fetch
    BY DEF FetchInv, ChangeMood
<1> QED
    BY <1>1 DEF FetchInv

\* What an answer leaves.
Finished(x, answer, version) ==
    [NoFetch EXCEPT !.phase = "done", !.since = x.since, !.answer = answer, !.version = version]

LEMMA FinishedSound ==
    ASSUME NEW v \in 0..MaxVersion, NEW x, Sound(x, v),
           NEW answer \in Answers \ {"none"}, NEW version \in 0..MaxVersion
    PROVE  Sound(Finished(x, answer, version), v)
<1>1. Sound(NoFetch, v) /\ x.since \in 0..MaxVersion /\ x.since <= v
    BY FreshSound DEF Sound, FetchType
<1>2. Finished(x, answer, version) \in FetchType
    BY <1>1 DEF Sound, Finished, FetchType, Phases
<1> QED
    BY <1>1, <1>2 DEF Sound, Finished, NoFetch

LEMMA FinishInv ==
    ASSUME FetchInv, NEW f \in Fetch,
           NEW answer \in Answers \ {"none"}, NEW version \in 0..MaxVersion,
           Finish(f, answer, version), UNCHANGED server,
           file' \in Entry \cup {NoEntry}, Published(file', server.version)
    PROVE  FetchInv'
<1>1. server.version \in 0..MaxVersion
    BY DEF FetchInv
<1>2. Sound(Finished(fetch[f], answer, version), server.version)
    BY <1>1, FinishedSound DEF FetchInv
<1>3. Set(f, Finished(fetch[f], answer, version))
    BY DEF Finish, Finished
<1> QED
    BY <1>2, <1>3, OwnStep

LEMMA LeaveInv == ASSUME NEW f \in Fetch PROVE FetchInv /\ Leave(f) => FetchInv'
<1> SUFFICES ASSUME FetchInv, Leave(f) PROVE FetchInv'
    OBVIOUS
<1>1. Sound(NoFetch, server.version)
    BY FreshSound DEF FetchInv
<1>2. /\ Set(f, NoFetch) /\ UNCHANGED server
      /\ file' \in Entry \cup {NoEntry} /\ Published(file', server.version)
    BY DEF Leave, FetchInv
<1> QED
    BY <1>1, <1>2, OwnStep

LEMMA ReadCacheInv == ASSUME NEW f \in Fetch PROVE FetchInv /\ ReadCache(f) => FetchInv'
<1> SUFFICES ASSUME FetchInv, ReadCache(f) PROVE FetchInv'
    OBVIOUS
<1> DEFINE x == [fetch[f] EXCEPT !.phase = "ask", !.since = server.version, !.cached = file]
<1>1. /\ server.version \in 0..MaxVersion
      /\ file \in Entry \cup {NoEntry} /\ Published(file, server.version)
      /\ fetch[f] \in FetchType /\ Allowed(fetch[f].at)
    BY DEF FetchInv, Sound
<1>2. x \in FetchType
    BY <1>1 DEF FetchType, Phases
<1>3. /\ x.phase = "ask" /\ x.since = server.version /\ x.cached = file
      /\ x.at = fetch[f].at
    BY <1>1 DEF FetchType
<1>4. Set(f, x) /\ UNCHANGED <<server, file>>
    BY DEF ReadCache
<1> HIDE DEF x
<1>5. Sound(x, server.version)
    BY <1>1, <1>2, <1>3, VersionAssumption DEF Sound, Published
<1> QED
    BY <1>1, <1>4, <1>5, OwnStep

LEMMA NotModifiedInv == ASSUME NEW f \in Fetch PROVE FetchInv /\ NotModified(f) => FetchInv'
<1> SUFFICES ASSUME FetchInv, NotModified(f) PROVE FetchInv'
    OBVIOUS
<1>1. fetch[f].cached.version \in 0..MaxVersion
    BY DEF FetchInv, NotModified, Matches
<1> QED
    BY <1>1, FinishInv DEF FetchInv, NotModified, Answers

LEMMA DownloadInv == ASSUME NEW f \in Fetch PROVE FetchInv /\ Download(f) => FetchInv'
<1> SUFFICES ASSUME FetchInv, Download(f) PROVE FetchInv'
    OBVIOUS
<1> DEFINE got == [version |-> server.version, tagged |-> server.mood = "tagged"]
           x == [fetch[f] EXCEPT !.phase = "write", !.at = Url, !.hops = 0, !.got = got]
<1>1. /\ server.version \in 0..MaxVersion
      /\ fetch[f] \in FetchType /\ Sound(fetch[f], server.version)
    BY DEF FetchInv
<1>2. got \in Entry /\ got # NoEntry /\ got.version = server.version
    <2>1. (server.mood = "tagged") \in BOOLEAN
        OBVIOUS
    <2>2. \A b \in BOOLEAN : [version |-> server.version, tagged |-> b] \in Entry
        BY <1>1 DEF Entry
    <2>3. got \in Entry
        BY <2>1, <2>2
    <2> QED
        BY <2>3, EntryAssumption
<1>3. 0 \in 0..MaxRedirects /\ Url \in Place /\ Allowed(Url)
    BY PlaceAssumption DEF Allowed
<1>4. Set(f, x) /\ UNCHANGED <<server, file>>
    BY DEF Download
<1> HIDE DEF got
<1>5. x \in FetchType
    BY <1>1, <1>2, <1>3 DEF FetchType, Phases
<1>6. /\ x.phase = "write" /\ x.at = Url /\ x.got = got
      /\ x.since = fetch[f].since /\ x.cached = fetch[f].cached
    BY <1>1 DEF FetchType
<1>7. x.since <= server.version /\ server.version <= server.version
    BY <1>1, <1>6, VersionAssumption DEF Sound
<1> HIDE DEF x
<1>8. Sound(x, server.version)
    BY <1>1, <1>2, <1>3, <1>5, <1>6, <1>7 DEF Sound
<1> QED
    BY <1>4, <1>8, OwnStep DEF FetchInv

\* A relative Location is checked as if it came from the URL, and taken from the
\* last place: which was allowed.
LEMMA RedirectedInv == ASSUME NEW f \in Fetch PROVE FetchInv /\ Redirected(f) => FetchInv'
<1> SUFFICES ASSUME FetchInv, Redirected(f) PROVE FetchInv'
    OBVIOUS
<1>1. PICK l \in Locations(f) :
            /\ Acceptable(f, l.checked)
            /\ Set(f, [fetch[f] EXCEPT !.at = l.to, !.hops = @ + 1])
    BY DEF Redirected
<1> DEFINE x == [fetch[f] EXCEPT !.at = l.to, !.hops = @ + 1]
<1>2. /\ fetch[f] \in FetchType /\ Sound(fetch[f], server.version)
      /\ In(f, "ask") /\ fetch[f].hops < MaxRedirects
    BY DEF FetchInv, Redirected
<1>3. fetch[f].at \in Place /\ fetch[f].hops \in 0..MaxRedirects
    BY <1>2 DEF FetchType
<1>4. fetch[f].hops + 1 \in 0..MaxRedirects
    BY <1>2, <1>3, PlaceAssumption
<1>5. \/ l.to \in Place /\ l.checked = l.to
      \/ l.to = fetch[f].at
    BY <1>1 DEF Locations
<1>6. l.to \in Place /\ Allowed(l.to)
    BY <1>1, <1>2, <1>3, <1>5 DEF Acceptable, Allowed, Sound
<1>7. x \in FetchType
    BY <1>2, <1>4, <1>6 DEF FetchType
<1>8. /\ x.phase = "ask" /\ x.at = l.to
      /\ x.since = fetch[f].since /\ x.cached = fetch[f].cached
    BY <1>2 DEF FetchType, In
<1>9. Set(f, x) /\ UNCHANGED <<server, file>>
    BY <1>1 DEF Redirected
<1> HIDE DEF x
<1>10. Sound(x, server.version)
    BY <1>2, <1>6, <1>7, <1>8 DEF Sound
<1> QED
    BY <1>9, <1>10, OwnStep DEF FetchInv

LEMMA RedirectRefusedInv ==
    ASSUME NEW f \in Fetch PROVE FetchInv /\ RedirectRefused(f) => FetchInv'
BY FinishInv, VersionAssumption DEF FetchInv, RedirectRefused, Answers

LEMMA RefusedInv == ASSUME NEW f \in Fetch PROVE FetchInv /\ Refused(f) => FetchInv'
<1> SUFFICES ASSUME FetchInv, Refused(f) PROVE FetchInv'
    OBVIOUS
<1>1. \/ Finish(f, "missing", 0)
      \/ Finish(f, "error", 0)
    BY DEF Refused
<1>2. 0 \in 0..MaxVersion
    BY VersionAssumption
<1> QED
    BY <1>1, <1>2, FinishInv DEF FetchInv, Refused, Answers

LEMMA NetworkFailsInv == ASSUME NEW f \in Fetch PROVE FetchInv /\ NetworkFails(f) => FetchInv'
<1> SUFFICES ASSUME FetchInv, NetworkFails(f) PROVE FetchInv'
    OBVIOUS
<1>1. 0 \in 0..MaxVersion
    BY VersionAssumption
<1>2. \/ /\ fetch[f].cached.version \in 0..MaxVersion
         /\ Finish(f, "cached", fetch[f].cached.version)
      \/ Finish(f, "error", 0)
    BY DEF FetchInv, FetchType, Entry, NetworkFails
<1> QED
    BY <1>1, <1>2, FinishInv DEF FetchInv, NetworkFails, Answers

\* The other fetches that write at the same time are told that they are not alone.
LEMMA TruncateInv == ASSUME NEW f \in Fetch PROVE FetchInv /\ Truncate(f) => FetchInv'
<1> SUFFICES ASSUME FetchInv, Truncate(f) PROVE FetchInv'
    OBVIOUS
<1> DEFINE v == server.version
<1>1. file' = NoEntry /\ server' = server
    BY DEF Truncate
<1>2. \A g \in Fetch : fetch[g] \in FetchType /\ Sound(fetch[g], v)
    BY DEF FetchInv
<1>3. ASSUME NEW g \in Fetch, NEW b \in BOOLEAN
      PROVE  Sound([fetch[g] EXCEPT !.alone = b], v)
    <2> DEFINE x == [fetch[g] EXCEPT !.alone = b]
    <2>1. x \in FetchType
        BY <1>2 DEF FetchType
    <2>2. /\ x.phase = fetch[g].phase /\ x.since = fetch[g].since /\ x.at = fetch[g].at
          /\ x.cached = fetch[g].cached /\ x.got = fetch[g].got
          /\ x.answer = fetch[g].answer /\ x.version = fetch[g].version
        BY <1>2 DEF FetchType
    <2> HIDE DEF x
    <2>3. Sound(x, v)
        BY <1>2, <2>1, <2>2 DEF Sound
    <2> QED
        BY <2>3 DEF x
<1>4. ASSUME NEW b \in BOOLEAN
      PROVE  Sound([fetch[f] EXCEPT !.phase = "writing", !.alone = b], v)
    <2> DEFINE x == [fetch[f] EXCEPT !.phase = "writing", !.alone = b]
    <2>1. x \in FetchType
        BY <1>2 DEF FetchType, Phases
    <2>2. /\ x.phase = "writing" /\ x.since = fetch[f].since /\ x.at = fetch[f].at
          /\ x.cached = fetch[f].cached /\ x.got = fetch[f].got
        BY <1>2 DEF FetchType
    <2>3. fetch[f].phase = "write"
        BY DEF Truncate, In
    <2> HIDE DEF x
    <2>4. Sound(x, v)
        BY <1>2, <2>1, <2>2, <2>3 DEF Sound
    <2> QED
        BY <2>4 DEF x
<1> DEFINE others == {g \in Fetch \ {f} : In(g, "writing")}
<1>5. fetch' = [g \in Fetch |->
                    IF g = f
                    THEN [fetch[f] EXCEPT !.phase = "writing", !.alone = others = {}]
                    ELSE [fetch[g] EXCEPT !.alone = @ /\ g \notin others]]
    BY DEF Truncate
<1> HIDE DEF others
<1>6. ASSUME NEW g \in Fetch PROVE Sound(fetch'[g], v)
    <2>1. CASE g = f
        <3>1. fetch'[g] = [fetch[f] EXCEPT !.phase = "writing", !.alone = (others = {})]
            BY <1>5, <2>1
        <3>2. (others = {}) \in BOOLEAN
            OBVIOUS
        <3> QED
            BY <1>4, <3>1, <3>2
    <2>2. CASE g # f
        <3>1. fetch'[g] = [fetch[g] EXCEPT !.alone = (fetch[g].alone /\ g \notin others)]
            BY <1>2, <1>5, <2>2 DEF FetchType
        <3>2. (fetch[g].alone /\ g \notin others) \in BOOLEAN
            OBVIOUS
        <3> QED
            BY <1>3, <3>1, <3>2
    <2> QED
        BY <2>1, <2>2
<1>7. fetch' \in [Fetch -> FetchType]
    BY <1>5, <1>6 DEF Sound
<1> QED
    BY <1>1, <1>6, <1>7 DEF FetchInv, Published

LEMMA FillInv == ASSUME NEW f \in Fetch PROVE FetchInv /\ Fill(f) => FetchInv'
<1> SUFFICES ASSUME FetchInv, Fill(f) PROVE FetchInv'
    OBVIOUS
<1> DEFINE got == fetch[f].got
<1>1. /\ got \in Entry /\ got.version \in 0..MaxVersion /\ Published(got, server.version)
    BY DEF FetchInv, Fill, In, Sound, FetchType, Entry, Published
<1>2. file' \in {got, NoEntry} /\ UNCHANGED server /\ Finish(f, "current", got.version)
    BY DEF Fill
<1>3. file' \in Entry \cup {NoEntry} /\ Published(file', server.version)
    BY <1>1, <1>2 DEF Published
<1> QED
    BY <1>1, <1>2, <1>3, FinishInv DEF Answers

LEMMA WriteFailsInv == ASSUME NEW f \in Fetch PROVE FetchInv /\ WriteFails(f) => FetchInv'
BY FinishInv, VersionAssumption DEF FetchInv, WriteFails, Answers

LEMMA StepInv == FetchInv /\ [Next]_vars => FetchInv'
<1> SUFFICES ASSUME FetchInv, [Next]_vars PROVE FetchInv'
    OBVIOUS
<1>1. CASE UNCHANGED vars
    BY <1>1 DEF FetchInv, vars
<1>2. CASE Publish
    BY <1>2, PublishInv
<1>3. CASE ChangeMood
    BY <1>3, ChangeMoodInv
<1>4. ASSUME NEW f \in Fetch, Work(f) PROVE FetchInv'
    BY <1>4, ReadCacheInv, RedirectedInv, RedirectRefusedInv, NotModifiedInv, DownloadInv,
       RefusedInv, NetworkFailsInv, TruncateInv, FillInv, WriteFailsInv DEF Work
<1>5. ASSUME NEW f \in Fetch, Leave(f) PROVE FetchInv'
    BY <1>5, LeaveInv
<1> QED
    BY <1>1, <1>2, <1>3, <1>4, <1>5 DEF Next

-----------------------------------------------------------------------------
\* Whatever the server does and however the runs race on the cache file, a fetch
\* knows only what was published, and what it downloads was so since it began.
THEOREM FetchInvariant == Spec => []FetchInv
<1> QED
    BY InitInv, StepInv, PTL DEF Spec

\* The state of the fetches and of the cache file is well formed, and a fetch that
\* writes has something to write.
THEOREM TypesCorrect == Spec => []TypeOK
<1> QED
    BY FetchInvariant, InvTypes, PTL

\* beforeRedirect: however many redirects, a request to an https URL stays on
\* https, and never reaches a private address of another host that is not listed.
THEOREM RedirectsStayAllowed == Spec => []RedirectsAllowed
<1> QED
    BY FetchInvariant, InvAllowed, PTL

-----------------------------------------------------------------------------
(***************************************************************************)
(* HttpCache implements RemoteFile.  A fetch opens its read when it reads  *)
(* the cache, and gives its answer when it is done; the redirects, the     *)
(* download and the steps that write the file are none of the promise.     *)
(***************************************************************************)
\* What a reader sees of a fetch.
Seen(x) ==
    [since   |-> x.since,
     answer  |-> IF x.phase \in Asking THEN "pending" ELSE x.answer,
     version |-> x.version]

Readers == [f \in Fetch |-> Seen(fetch[f])]

\* What a reader sees of the server.
StateOf(mood) ==
    CASE mood = "gone"        -> "gone"
      [] mood = "unreachable" -> "down"
      [] OTHER                -> "up"

LEMMA SeenOf ==
    /\ Seen(NoFetch) = Promise!Unread
    /\ \A x, answer, version :
            answer # "none" =>
                Seen(Finished(x, answer, version)) =
                    [since |-> x.since, answer |-> answer, version |-> version]
BY DEF Seen, NoFetch, Finished, Asking, Promise!Unread

LEMMA InitImplements == Init => Promise!Init
<1> SUFFICES ASSUME Init PROVE Promise!Init
    OBVIOUS
<1>1. Readers = [f \in Fetch |-> Promise!Unread]
    BY SeenOf DEF Readers, Init
<1>2. server.version = 0
    BY DEF Init
<1>3. StateOf(server.mood) \in {"up", "gone", "down"}
    BY DEF StateOf
<1> QED
    BY <1>1, <1>2, <1>3 DEF Promise!Init, Readers, Seen, StateOf, Asking

\* A step of a fetch is a step of its reader.
LEMMA ReadersStep ==
    ASSUME NEW f \in Fetch, fetch \in [Fetch -> FetchType], NEW x, Set(f, x)
    PROVE  Readers' = [Readers EXCEPT ![f] = Seen(x)]
BY DEF Set, Readers, Seen

\* The readers of the promise stay as they are.
Stutter == UNCHANGED <<server.version, StateOf(server.mood), Readers>>

LEMMA StutterImplements == Stutter => UNCHANGED Promise!vars
BY DEF Stutter, Promise!vars, Readers, Seen, StateOf, Asking

\* fetchOnce gives its answer.
LEMMA AnswerImplements ==
    ASSUME FetchInv, NEW f \in Fetch, fetch[f].phase \in Asking,
           NEW answer \in Answers \ {"none"}, NEW version,
           Finish(f, answer, version), UNCHANGED server
    PROVE  Promise!Answer(f, answer, version)
<1>1. fetch \in [Fetch -> FetchType]
    BY DEF FetchInv
<1>2. Set(f, Finished(fetch[f], answer, version))
    BY DEF Finish, Finished
<1>3. Readers' = [Readers EXCEPT ![f] = Seen(Finished(fetch[f], answer, version))]
    BY <1>1, <1>2, ReadersStep
<1>4. Seen(Finished(fetch[f], answer, version)) =
            [since |-> fetch[f].since, answer |-> answer, version |-> version]
    BY SeenOf
<1>5. Readers[f] = [since |-> fetch[f].since, answer |-> "pending", version |-> fetch[f].version]
    BY DEF Readers, Seen
<1>6. Readers' = [Readers EXCEPT ![f] = [since |-> Readers[f].since, answer |-> answer,
                                         version |-> version]]
    BY <1>3, <1>4, <1>5
<1>7. Readers[f].answer = "pending"
    BY <1>5
<1> QED
    BY <1>6, <1>7 DEF Promise!Answer, Readers, Seen, StateOf, Asking

\* It begins, and takes note of the server's version.
LEMMA ReadCacheImplements ==
    ASSUME FetchInv, NEW f \in Fetch, ReadCache(f)
    PROVE  Promise!Open(f)
<1> DEFINE x == [fetch[f] EXCEPT !.phase = "ask", !.since = server.version, !.cached = file]
<1>1. /\ fetch \in [Fetch -> FetchType] /\ fetch[f] \in FetchType
      /\ fetch[f].phase = "start" /\ fetch[f].answer = "none" /\ fetch[f].version = 0
    BY DEF FetchInv, Sound, ReadCache, In
<1>2. Set(f, x) /\ UNCHANGED server
    BY DEF ReadCache
<1>3. x.phase = "ask" /\ x.since = server.version /\ x.version = 0
    BY <1>1 DEF FetchType
<1> HIDE DEF x
<1>4. Seen(x) = [since |-> server.version, answer |-> "pending", version |-> 0]
    BY <1>3 DEF Seen, Asking
<1>5. Readers' = [Readers EXCEPT ![f] = Seen(x)]
    BY <1>1, <1>2, ReadersStep
<1>6. Readers[f].answer = "none"
    BY <1>1 DEF Readers, Seen, Asking
<1> QED
    BY <1>2, <1>4, <1>5, <1>6 DEF Promise!Open, Readers, Seen, StateOf, Asking

\* The run is over.
LEMMA LeaveImplements ==
    ASSUME FetchInv, NEW f \in Fetch, Leave(f)
    PROVE  Promise!Close(f)
<1>1. /\ fetch \in [Fetch -> FetchType] /\ fetch[f] \in FetchType
      /\ fetch[f].phase # "start"
      /\ fetch[f].phase = "done" => fetch[f].answer # "none"
    BY DEF FetchInv, Sound, Leave, In
<1>2. Set(f, NoFetch) /\ UNCHANGED server
    BY DEF Leave
<1>3. Readers' = [Readers EXCEPT ![f] = Promise!Unread]
    BY <1>1, <1>2, ReadersStep, SeenOf
<1>4. Readers[f].answer # "none"
    BY <1>1 DEF Readers, Seen, Asking, FetchType, Phases
<1> QED
    BY <1>2, <1>3, <1>4 DEF Promise!Close, Readers, Seen, StateOf, Asking

\* A fetch goes on asking or writing: its reader waits.
LEMMA WaitStutters ==
    ASSUME FetchInv, NEW f \in Fetch, fetch[f].phase \in Asking,
           NEW x, x.phase \in Asking,
           x.since = fetch[f].since, x.version = fetch[f].version,
           Set(f, x), UNCHANGED server
    PROVE  Stutter
<1>1. fetch \in [Fetch -> FetchType]
    BY DEF FetchInv
<1>2. Readers' = [Readers EXCEPT ![f] = Seen(x)]
    BY <1>1, ReadersStep
<1>3. Seen(x) = Readers[f]
    BY DEF Seen, Readers
<1>4. Readers' = Readers
    BY <1>2, <1>3 DEF Readers
<1> QED
    BY <1>4 DEF Stutter

LEMMA DownloadStutters ==
    ASSUME FetchInv, NEW f \in Fetch, Download(f)
    PROVE  Stutter
<1> DEFINE got == [version |-> server.version, tagged |-> server.mood = "tagged"]
           x == [fetch[f] EXCEPT !.phase = "write", !.at = Url, !.hops = 0, !.got = got]
<1>1. fetch[f] \in FetchType /\ fetch[f].phase = "ask"
    BY DEF FetchInv, Download, In
<1>2. Set(f, x) /\ UNCHANGED server
    BY DEF Download
<1> HIDE DEF got
<1>3. x.phase = "write" /\ x.since = fetch[f].since /\ x.version = fetch[f].version
    BY <1>1 DEF FetchType
<1> HIDE DEF x
<1> QED
    BY <1>1, <1>2, <1>3, WaitStutters DEF Asking

LEMMA RedirectedStutters ==
    ASSUME FetchInv, NEW f \in Fetch, Redirected(f)
    PROVE  Stutter
<1>1. PICK l \in Locations(f) : Set(f, [fetch[f] EXCEPT !.at = l.to, !.hops = @ + 1])
    BY DEF Redirected
<1> DEFINE x == [fetch[f] EXCEPT !.at = l.to, !.hops = @ + 1]
<1>2. fetch[f] \in FetchType /\ fetch[f].phase = "ask" /\ UNCHANGED server
    BY DEF FetchInv, Redirected, In
<1>3. x.phase = "ask" /\ x.since = fetch[f].since /\ x.version = fetch[f].version
    BY <1>2 DEF FetchType
<1>4. Set(f, x)
    BY <1>1
<1> HIDE DEF x
<1> QED
    BY <1>2, <1>3, <1>4, WaitStutters DEF Asking

LEMMA TruncateStutters ==
    ASSUME FetchInv, NEW f \in Fetch, Truncate(f)
    PROVE  Stutter
<1> DEFINE others == {g \in Fetch \ {f} : In(g, "writing")}
<1>1. /\ fetch' = [g \in Fetch |->
                    IF g = f
                    THEN [fetch[f] EXCEPT !.phase = "writing", !.alone = others = {}]
                    ELSE [fetch[g] EXCEPT !.alone = @ /\ g \notin others]]
      /\ fetch[f].phase = "write" /\ server' = server
    BY DEF Truncate, In
<1>2. \A g \in Fetch : fetch[g] \in FetchType
    BY DEF FetchInv
<1> HIDE DEF others
<1>3. ASSUME NEW g \in Fetch
      PROVE  /\ fetch'[g].since = fetch[g].since
             /\ fetch'[g].answer = fetch[g].answer
             /\ fetch'[g].version = fetch[g].version
             /\ fetch'[g].phase = IF g = f THEN "writing" ELSE fetch[g].phase
    BY <1>1, <1>2 DEF FetchType
<1>4. ASSUME NEW g \in Fetch
      PROVE  Seen(fetch'[g]) = Seen(fetch[g])
    <2>1. fetch'[g].phase \in Asking <=> fetch[g].phase \in Asking
        <3>1. CASE g = f
            <4>1. fetch[g].phase = "write" /\ fetch'[g].phase = "writing"
                BY <1>1, <1>3, <3>1
            <4> QED
                BY <4>1 DEF Asking
        <3>2. CASE g # f
            <4>1. fetch'[g].phase = fetch[g].phase
                BY <1>3, <3>2
            <4> QED
                BY <4>1
        <3> QED
            BY <3>1, <3>2
    <2> QED
        BY <1>3, <2>1 DEF Seen
<1>5. Readers' = Readers
    BY <1>4 DEF Readers
<1> QED
    BY <1>1, <1>5 DEF Stutter

-----------------------------------------------------------------------------
LEMMA PublishImplements == FetchInv /\ Publish => Promise!Publish
<1> SUFFICES ASSUME FetchInv, Publish PROVE Promise!Publish
    OBVIOUS
<1>1. /\ server.version < MaxVersion /\ server'.version = server.version + 1
      /\ server'.mood = server.mood /\ fetch' = fetch
    BY DEF FetchInv, Publish
<1> QED
    BY <1>1 DEF Promise!Publish

LEMMA ChangeMoodImplements == FetchInv /\ ChangeMood => Promise!ChangeState
<1> SUFFICES ASSUME FetchInv, ChangeMood PROVE Promise!ChangeState
    OBVIOUS
<1>1. server'.version = server.version /\ fetch' = fetch
    BY DEF FetchInv, ChangeMood
<1>2. StateOf(server'.mood) \in {"up", "gone", "down"}
    BY DEF StateOf
<1> QED
    BY <1>1, <1>2 DEF Promise!ChangeState, StateOf

\* One answer for each way a fetch can end.
LEMMA AnswersPromised ==
    ASSUME FetchInv, NEW f \in Fetch
    PROVE  /\ NotModified(f) \/ Fill(f) =>
                \E v \in fetch[f].since..server.version : Promise!Answer(f, "current", v)
           /\ NetworkFails(f) =>
                \/ /\ server.mood = "unreachable"
                   /\ \E v \in 0..server.version : Promise!Answer(f, "cached", v)
                \/ Promise!Answer(f, "error", 0)
           /\ Refused(f) =>
                \/ server.mood = "gone" /\ Promise!Answer(f, "missing", 0)
                \/ Promise!Answer(f, "error", 0)
           /\ RedirectRefused(f) \/ WriteFails(f) => Promise!Answer(f, "error", 0)
<1>1. /\ server.version \in 0..MaxVersion
      /\ fetch[f] \in FetchType /\ Sound(fetch[f], server.version)
    BY DEF FetchInv
<1>2. ASSUME NotModified(f)
      PROVE  \E v \in fetch[f].since..server.version : Promise!Answer(f, "current", v)
    <2> PICK v \in 0..MaxVersion : v = server.version
        BY <1>1
    <2>1. fetch[f].phase = "ask" /\ Finish(f, "current", v) /\ UNCHANGED server
        BY <1>2 DEF NotModified, Matches, In, Finish
    <2>2. Promise!Answer(f, "current", v)
        BY <2>1, AnswerImplements DEF Asking, Answers
    <2>3. v \in fetch[f].since..server.version
        BY <1>1, VersionAssumption DEF Sound, FetchType
    <2> QED
        BY <2>2, <2>3
<1>3. ASSUME Fill(f)
      PROVE  \E v \in fetch[f].since..server.version : Promise!Answer(f, "current", v)
    <2> PICK v : v = fetch[f].got.version
        OBVIOUS
    <2>1. fetch[f].phase = "writing" /\ Finish(f, "current", v) /\ UNCHANGED server
        BY <1>3 DEF Fill, In, Finish
    <2>2. Promise!Answer(f, "current", v)
        BY <2>1, AnswerImplements DEF Asking, Answers
    <2>3. v \in 0..MaxVersion /\ fetch[f].since \in 0..MaxVersion
        BY <1>1, <2>1 DEF Sound, FetchType, Entry
    <2>4. v \in fetch[f].since..server.version
        BY <1>1, <2>1, <2>3, VersionAssumption DEF Sound
    <2> QED
        BY <2>2, <2>4
<1>4. ASSUME NetworkFails(f)
      PROVE  \/ /\ server.mood = "unreachable"
                /\ \E v \in 0..server.version : Promise!Answer(f, "cached", v)
             \/ Promise!Answer(f, "error", 0)
    <2>1. /\ fetch[f].phase = "ask" /\ server.mood = "unreachable" /\ UNCHANGED server
        BY <1>4 DEF NetworkFails, In
    <2>2. CASE fetch[f].cached # NoEntry
        <3> PICK v : v = fetch[f].cached.version
            OBVIOUS
        <3>1. Finish(f, "cached", v)
            BY <1>4, <2>2 DEF NetworkFails, Finish
        <3>2. Promise!Answer(f, "cached", v)
            BY <2>1, <3>1, AnswerImplements DEF Asking, Answers
        <3>3. v \in 0..MaxVersion
            BY <1>1, <2>2 DEF FetchType, Entry
        <3>4. v \in 0..server.version
            BY <1>1, <2>2, <3>3, VersionAssumption DEF Sound
        <3> QED
            BY <2>1, <3>2, <3>4
    <2>3. CASE fetch[f].cached = NoEntry
        BY <1>4, <2>1, <2>3, AnswerImplements DEF NetworkFails, Asking, Answers
    <2> QED
        BY <2>2, <2>3
<1>5. ASSUME Refused(f)
      PROVE  \/ server.mood = "gone" /\ Promise!Answer(f, "missing", 0)
             \/ Promise!Answer(f, "error", 0)
    BY <1>5, AnswerImplements DEF Refused, In, Asking, Answers
<1>6. ASSUME RedirectRefused(f) \/ WriteFails(f) PROVE Promise!Answer(f, "error", 0)
    <2>1. fetch[f].phase \in Asking /\ Finish(f, "error", 0) /\ UNCHANGED server
        BY <1>6 DEF RedirectRefused, WriteFails, In, Asking
    <2> QED
        BY <2>1, AnswerImplements DEF Answers
<1> QED
    BY <1>2, <1>3, <1>4, <1>5, <1>6

LEMMA StepImplements == FetchInv /\ [Next]_vars => [Promise!Next]_(Promise!vars)
<1> SUFFICES ASSUME FetchInv, [Next]_vars
             PROVE  Promise!Next \/ UNCHANGED Promise!vars
    OBVIOUS
<1>1. CASE UNCHANGED vars
    BY <1>1 DEF vars, Promise!vars
<1>2. CASE Publish
    BY <1>2, PublishImplements DEF Promise!Next
<1>3. CASE ChangeMood
    BY <1>3, ChangeMoodImplements DEF Promise!Next
<1>4. ASSUME NEW f \in Fetch, ReadCache(f) PROVE Promise!Next
    BY <1>4, ReadCacheImplements DEF Promise!Next
<1>5. ASSUME NEW f \in Fetch, Leave(f) PROVE Promise!Next
    BY <1>5, LeaveImplements DEF Promise!Next
<1>6. ASSUME NEW f \in Fetch, Redirected(f) \/ Download(f) \/ Truncate(f)
      PROVE  UNCHANGED Promise!vars
    BY <1>6, RedirectedStutters, DownloadStutters, TruncateStutters, StutterImplements
<1>7. ASSUME NEW f \in Fetch, NotModified(f) \/ Fill(f) PROVE Promise!Next
    BY <1>7, AnswersPromised DEF Promise!Next
<1>8. ASSUME NEW f \in Fetch, NetworkFails(f) PROVE Promise!Next
    BY <1>8, AnswersPromised DEF Promise!Next
<1>9. ASSUME NEW f \in Fetch, Refused(f) PROVE Promise!Next
    BY <1>9, AnswersPromised DEF Promise!Next
<1>10. ASSUME NEW f \in Fetch, RedirectRefused(f) \/ WriteFails(f) PROVE Promise!Next
    BY <1>10, AnswersPromised DEF Promise!Next
<1> QED
    BY <1>1, <1>2, <1>3, <1>4, <1>5, <1>6, <1>7, <1>8, <1>9, <1>10 DEF Next, Work

\* downloadWithCache implements what reading a remote file promises: whatever the
\* runs do to the cache file, an answer is a version the server had during the
\* read, and an older one only while the network is down.
THEOREM ImplementsRemoteFile == Spec => KeepsPromise
<1> QED
    BY FetchInvariant, InitImplements, StepImplements, PTL DEF Spec, KeepsPromise, Promise!Spec

=============================================================================
