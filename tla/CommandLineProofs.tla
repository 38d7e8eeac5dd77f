------------------------- MODULE CommandLineProofs -------------------------
(***************************************************************************)
(* Proofs about CommandLine, for any number of runs, any texts given as    *)
(* limits and any clock.                                                   *)
(*                                                                         *)
(* Sound says what a run has done and left undone by each phase; Honest    *)
(* what the temporary files say of the runs: whose text one has, wrote it, *)
(* and still has to remove it, and a torn one was left by a run that is    *)
(* over.                                                                   *)
(***************************************************************************)
EXTENDS CommandLine, TLAPS

Before == {"new", "stdin", "temp"}         \* The temporary file is written,
After  == {"limit", "load", "output", "emit"}   \* and it has been.

Accepted(set) ==
    FlagAccepted(set.flag) /\ (set.flag # Unset \/ EnvAccepted(set.env))

\* How a run that is over has ended.
EndsWell(x) ==
    /\ x.exit = 2 <=> x.stdout \in {"payload", "lost"}
    /\ x.exit = 0 => (IF x.set.toFile THEN x.out = "new" ELSE x.stdout = "text")
    /\ x.outcome # "ok" => x.out = "old"

Sound(x) ==
    /\ x \in RunType
    /\ x.phase # "new" => x.set \in Settings
    /\ x.phase \notin {"new", "ended"} => FlagAccepted(x.set.flag)
    /\ x.phase # "ended" => x.exit = -1 /\ x.stdout = "nothing" /\ x.out = "old"
    /\ x.phase \in Before \cup {"limit", "load"} => x.outcome = "none"
    /\ x.phase = "output" => x.outcome = "ok"
    /\ x.phase = "emit" => x.outcome = "reported"
    /\ x.phase \in {"load", "output", "emit"} => x.limit # Unset
    /\ x.phase = "new" => x.limit = Unset
    /\ x.limit # Unset => Accepted(x.set) /\ x.limit = LimitOf(x.set)
    /\ x.temp = x.began
    /\ x.phase \in {"new", "stdin"} => x.temp = Unset
    /\ x.phase = "temp" => x.temp # Unset
    /\ x.phase \in Before => ~x.cleanup
    /\ x.phase \in After /\ x.temp # Unset => x.cleanup
    /\ x.cleanup => x.temp # Unset
    /\ x.phase = "ended" => EndsWell(x)

Honest ==
    \A t \in Time :
        /\ \A p \in Process : temps[t] = p =>
                cmd[p].temp = t /\ cmd[p].cleanup /\ (In(p, "ended") => cmd[p].exit = 137)
        /\ temps[t] = Torn => \E p \in Process : cmd[p].temp = t /\ In(p, "ended")

\* OwnText, and that the other run has begun.
Own(p) ==
    cmd[p].outcome = "ok" =>
        \/ cmd[p].text = p
        \/ cmd[p].began # Unset /\ \E q \in Process \ {p} : cmd[q].began = cmd[p].began

CommandInv ==
    /\ clock \in Time
    /\ temps \in [Time -> Process \cup {Unset, Torn}]
    /\ cmd \in [Process -> RunType]
    /\ \A p \in Process : Sound(cmd[p])
    /\ Honest
    /\ \A p \in Process : Own(p)

-----------------------------------------------------------------------------
(***************************************************************************)
(* What the properties follow from.                                        *)
(***************************************************************************)
\* A limit that is accepted is one.
LEMMA LimitPositive ==
    ASSUME NEW set \in Settings, Accepted(set)
    PROVE  LimitOf(set) \in Nat \ {0}
<1>1. set.flag \in Raw \cup {Unset} /\ set.env \in Raw \cup {Unset}
    BY SettingsAssumption
<1>2. CASE set.flag # Unset
    BY <1>1, <1>2, SettingsAssumption DEF LimitOf, Accepted, FlagAccepted
<1>3. CASE set.flag = Unset /\ set.env \notin EnvUnset
    <2>1. set.env \in Raw /\ LimitOf(set) = ParsedAs[set.env]
        BY <1>1, <1>3 DEF LimitOf, EnvUnset
    <2> QED
        BY <1>3, <2>1, SettingsAssumption DEF Accepted, EnvAccepted
<1>4. CASE set.flag = Unset /\ set.env \in EnvUnset
    BY <1>4 DEF LimitOf, Default
<1> QED
    BY <1>2, <1>3, <1>4

LEMMA InvTypes == CommandInv => TypeOK
<1> SUFFICES ASSUME CommandInv, NEW p \in Process, In(p, "load")
             PROVE  cmd[p].limit \in Nat \ {0}
    BY DEF CommandInv, TypeOK
<1>1. Sound(cmd[p])
    BY DEF CommandInv
<1>2. cmd[p].set \in Settings /\ Accepted(cmd[p].set) /\ cmd[p].limit = LimitOf(cmd[p].set)
    BY <1>1 DEF Sound, In
<1> QED
    BY <1>2, LimitPositive

LEMMA InvExit == CommandInv => ExitMeansOutput
BY DEF CommandInv, Sound, EndsWell, ExitMeansOutput, In

LEMMA InvTemp == CommandInv => TempRemoved
<1> SUFFICES ASSUME CommandInv, NEW p \in Process,
                    In(p, "ended"), cmd[p].temp # Unset, temps[cmd[p].temp] = p
             PROVE  cmd[p].exit = 137
    BY DEF TempRemoved
<1>1. cmd[p].temp \in Time
    BY DEF CommandInv, RunType
<1> QED
    BY <1>1 DEF CommandInv, Honest

LEMMA InvOwnText == CommandInv => OwnText
BY DEF CommandInv, Own, OwnText

-----------------------------------------------------------------------------
LEMMA NewSound == Sound(NewRun)
<1>1. NewRun \in RunType
    BY DEF NewRun, RunType, Phases
<1> QED
    BY <1>1 DEF Sound, NewRun, Before, After

LEMMA InitInv == Init => CommandInv
<1> SUFFICES ASSUME Init PROVE CommandInv
    OBVIOUS
<1>1. clock \in Time /\ temps \in [Time -> Process \cup {Unset, Torn}]
    BY SettingsAssumption DEF Init, Time
<1>2. cmd \in [Process -> RunType] /\ \A p \in Process : Sound(cmd[p])
    BY NewSound DEF Init, Sound
<1>3. Honest
    BY SettingsAssumption DEF Init, Honest
<1>4. \A p \in Process : Own(p)
    BY DEF Init, Own, NewRun
<1> QED
    BY <1>1, <1>2, <1>3, <1>4 DEF CommandInv

\* What a run does to itself and to the temporary files.
LEMMA RunStep ==
    ASSUME CommandInv, NEW p \in Process, NEW x, Set(p, x), clock' = clock,
           ~In(p, "ended"), Sound(x),
           temps' \in [Time -> Process \cup {Unset, Torn}],
           \A t \in Time : temps'[t] \in {temps[t], Unset, Torn, p},
           \A t \in Time : temps'[t] = p =>
                x.temp = t /\ x.cleanup /\ (x.phase = "ended" => x.exit = 137),
           \A t \in Time : temps'[t] = Torn /\ temps[t] # Torn => x.temp = t /\ x.phase = "ended",
           cmd[p].began # Unset => x.began = cmd[p].began,
           x.outcome = "ok" =>
                \/ x.text = p
                \/ x.began # Unset /\ \E q \in Process \ {p} : cmd[q].began = x.began
    PROVE  CommandInv'
<1>1. cmd' = [cmd EXCEPT ![p] = x] /\ cmd \in [Process -> RunType] /\ x \in RunType
    BY DEF Set, Sound, CommandInv
<1>2. cmd'[p] = x /\ \A q \in Process \ {p} : cmd'[q] = cmd[q]
    BY <1>1
<1>3. cmd' \in [Process -> RunType] /\ \A q \in Process : Sound(cmd'[q])
    BY <1>1 DEF CommandInv
<1>4. Honest'
    <2> SUFFICES ASSUME NEW t \in Time
                 PROVE  /\ \A q \in Process : temps'[t] = q =>
                            /\ cmd'[q].temp = t /\ cmd'[q].cleanup
                            /\ cmd'[q].phase = "ended" => cmd'[q].exit = 137
                        /\ temps'[t] = Torn =>
                            \E q \in Process : cmd'[q].temp = t /\ cmd'[q].phase = "ended"
        BY DEF Honest, In
    <2>1. ASSUME NEW q \in Process, temps'[t] = q
          PROVE  /\ cmd'[q].temp = t /\ cmd'[q].cleanup
                 /\ cmd'[q].phase = "ended" => cmd'[q].exit = 137
        <3>1. CASE q = p
            BY <1>2, <2>1, <3>1
        <3>2. CASE q # p
            <4>1. temps[t] = q
                BY <2>1, <3>2, SettingsAssumption
            <4> QED
                BY <1>2, <3>2, <4>1 DEF CommandInv, Honest, In
        <3> QED
            BY <3>1, <3>2
    <2>2. ASSUME temps'[t] = Torn
          PROVE  \E q \in Process : cmd'[q].temp = t /\ cmd'[q].phase = "ended"
        <3>1. CASE temps[t] = Torn
            <4>1. PICK q \in Process : cmd[q].temp = t /\ cmd[q].phase = "ended"
                BY <3>1 DEF CommandInv, Honest, In
            <4> QED
                BY <1>2, <4>1 DEF In
        <3>2. CASE temps[t] # Torn
            BY <1>2, <2>2, <3>2
        <3> QED
            BY <3>1, <3>2
    <2> QED
        BY <2>1, <2>2
<1>5. \A q \in Process : Own(q)'
    <2> SUFFICES ASSUME NEW q \in Process, cmd'[q].outcome = "ok", cmd'[q].text # q
                 PROVE  /\ cmd'[q].began # Unset
                        /\ \E r \in Process \ {q} : cmd'[r].began = cmd'[q].began
        BY DEF Own
    <2>1. CASE q = p
        BY <1>2, <2>1
    <2>2. CASE q # p
        <3>1. cmd[q].began # Unset
            BY <1>2, <2>2 DEF CommandInv, Own
        <3>2. PICK r \in Process \ {q} : cmd[r].began = cmd[q].began
            BY <1>2, <2>2 DEF CommandInv, Own
        <3>3. cmd'[r].began = cmd[r].began
            BY <1>2, <3>1, <3>2
        <3> QED
            BY <1>2, <2>2, <3>1, <3>2, <3>3
    <2> QED
        BY <2>1, <2>2
<1> QED
    BY <1>3, <1>4, <1>5 DEF CommandInv

\* Changes of one part of what a run has.
LEMMA TypeOfPhase ==
    ASSUME NEW x \in RunType, NEW phase \in Phases
    PROVE  [x EXCEPT !.phase = phase] \in RunType
BY DEF RunType

LEMMA TypeOfCode ==
    ASSUME NEW x \in RunType, NEW exit \in {0, 1, 2, 137}
    PROVE  [x EXCEPT !.exit = exit] \in RunType
BY DEF RunType

LEMMA TypeOfLimit ==
    ASSUME NEW x \in RunType, NEW limit \in Int
    PROVE  [x EXCEPT !.limit = limit] \in RunType
BY DEF RunType

LEMMA TypeOfCleanup ==
    ASSUME NEW x \in RunType, NEW cleanup \in BOOLEAN
    PROVE  [x EXCEPT !.cleanup = cleanup] \in RunType
BY DEF RunType

LEMMA TypeOfExit ==
    ASSUME NEW x \in RunType, NEW exit \in {0, 1, 2, 137}
    PROVE  [x EXCEPT !.phase = "ended", !.exit = exit] \in RunType
<1>1. [x EXCEPT !.phase = "ended"] \in RunType
    BY TypeOfPhase DEF Phases
<1>2. [[x EXCEPT !.phase = "ended"] EXCEPT !.exit = exit] \in RunType
    BY <1>1, TypeOfCode
<1> QED
    BY <1>2

LEMMA TypeOfOutcome ==
    ASSUME NEW x \in RunType, NEW outcome \in {"ok", "reported", "failed"}
    PROVE  [x EXCEPT !.outcome = outcome] \in RunType
BY DEF RunType

LEMMA TypeOfText ==
    ASSUME NEW x \in RunType, NEW text \in Process \cup {Torn}
    PROVE  [x EXCEPT !.text = text] \in RunType
BY DEF RunType

LEMMA TypeOfOut ==
    ASSUME NEW x \in RunType, NEW out \in {"old", Torn}
    PROVE  [x EXCEPT !.out = out] \in RunType
BY DEF RunType

LEMMA TypeOfOutput ==
    ASSUME NEW x \in RunType, NEW stdout \in {"nothing", Torn}, NEW out \in {"old", Torn}
    PROVE  [x EXCEPT !.stdout = stdout, !.out = out] \in RunType
<1>1. [x EXCEPT !.stdout = stdout] \in RunType
    BY DEF RunType
<1>2. [[x EXCEPT !.stdout = stdout] EXCEPT !.out = out] \in RunType
    BY <1>1, TypeOfOut
<1> QED
    BY <1>2

\* A run that is over has removed its file, if it was to.
LEMMA ExitStep ==
    ASSUME CommandInv, NEW p \in Process, NEW x, NEW code, Exit(p, x, code), ~In(p, "ended"),
           x.temp = cmd[p].temp, x.began = cmd[p].began, x.cleanup = cmd[p].cleanup,
           Sound([x EXCEPT !.phase = "ended", !.exit = code]), x \in RunType,
           x.outcome = "ok" =>
                \/ x.text = p
                \/ x.began # Unset /\ \E q \in Process \ {p} : cmd[q].began = x.began
    PROVE  CommandInv'
<1> DEFINE y == [x EXCEPT !.phase = "ended", !.exit = code]
<1>1. Set(p, y) /\ clock' = clock
    BY DEF Exit
<1>2. y.temp = x.temp /\ y.began = x.began /\ y.outcome = x.outcome /\ y.text = x.text
    BY DEF RunType
<1>3. temps' = IF x.cleanup THEN [temps EXCEPT ![x.temp] = Unset] ELSE temps
    BY DEF Exit
<1>4. temps \in [Time -> Process \cup {Unset, Torn}]
    BY DEF CommandInv
<1>5. \A t \in Time : temps'[t] \in {temps[t], Unset}
    BY <1>3, <1>4
<1>6. \A t \in Time : temps'[t] # p
    <2> SUFFICES ASSUME NEW t \in Time, temps'[t] = p PROVE FALSE
        OBVIOUS
    <2>1. temps[t] = p
        BY <1>5, SettingsAssumption
    <2>2. cmd[p].temp = t /\ cmd[p].cleanup
        BY <2>1 DEF CommandInv, Honest
    <2> QED
        BY <1>3, <1>4, <2>2, SettingsAssumption
<1>7. temps' \in [Time -> Process \cup {Unset, Torn}]
    BY <1>3, <1>4
<1>8. \A t \in Time : temps'[t] = Torn => temps[t] = Torn
    BY <1>5, SettingsAssumption
<1>9. Sound(y)
    OBVIOUS
<1> HIDE DEF y
<1> QED
    BY <1>1, <1>2, <1>5, <1>6, <1>7, <1>8, <1>9, RunStep

\* The steps that leave the temporary files alone.
LEMMA OwnStep ==
    ASSUME CommandInv, NEW p \in Process, NEW x, Set(p, x), UNCHANGED <<clock, temps>>,
           ~In(p, "ended"), Sound(x),
           cmd[p].began # Unset => x.began = cmd[p].began,
           cmd[p].cleanup => x.cleanup /\ x.temp = cmd[p].temp,
           x.phase = "ended" => x.exit = 137,
           x.outcome = "ok" =>
                \/ x.text = p
                \/ x.began # Unset /\ \E q \in Process \ {p} : cmd[q].began = x.began
    PROVE  CommandInv'
<1>1. \A t \in Time : temps'[t] = p => x.temp = t /\ x.cleanup
    BY DEF CommandInv, Honest
<1>2. temps' \in [Time -> Process \cup {Unset, Torn}]
    BY DEF CommandInv
<1> QED
    BY <1>1, <1>2, RunStep

-----------------------------------------------------------------------------
LEMMA ParseInv ==
    ASSUME CommandInv, NEW p \in Process, Parse(p)
    PROVE  CommandInv'
<1>1. Sound(cmd[p]) /\ cmd[p] \in RunType /\ cmd[p].phase = "new"
    BY DEF CommandInv, Parse, In
<1> PICK s \in Settings :
        LET run == [cmd[p] EXCEPT !.set = s] IN
        IF FlagAccepted(s.flag)
        THEN /\ Set(p, [run EXCEPT !.phase = IF s.input = "file" THEN "limit" ELSE "stdin"])
             /\ UNCHANGED <<clock, temps>>
        ELSE Exit(p, run, 1)
    BY DEF Parse
<1> DEFINE run == [cmd[p] EXCEPT !.set = s]
           x == [run EXCEPT !.phase = IF s.input = "file" THEN "limit" ELSE "stdin"]
           y == [run EXCEPT !.phase = "ended", !.exit = 1]
<1>2. run \in RunType /\ run.outcome = "none"
    BY <1>1 DEF RunType, Sound, Before
<1>3. CASE FlagAccepted(s.flag)
    <2>1. Set(p, x) /\ UNCHANGED <<clock, temps>>
        BY <1>3
    <2>2. /\ x.phase \in {"limit", "stdin"} /\ x.set = s
          /\ x.temp = cmd[p].temp /\ x.began = cmd[p].began /\ x.cleanup = cmd[p].cleanup
          /\ x.limit = cmd[p].limit /\ x.outcome = cmd[p].outcome /\ x.exit = cmd[p].exit
          /\ x.stdout = cmd[p].stdout /\ x.out = cmd[p].out
        BY <1>1 DEF RunType
    <2>3. x \in RunType
        <3> DEFINE phase == IF s.input = "file" THEN "limit" ELSE "stdin"
        <3>1. phase \in Phases
            BY DEF Phases
        <3> HIDE DEF phase
        <3>2. [run EXCEPT !.phase = phase] \in RunType
            BY <1>2, <3>1 DEF RunType
        <3> QED
            BY <3>2 DEF phase
    <2> HIDE DEF x
    <2>4. Sound(x)
        BY <1>1, <1>3, <2>2, <2>3 DEF Sound, Before, After
    <2> QED
        BY <1>1, <2>1, <2>2, <2>4, OwnStep DEF Sound, Before, In
<1>4. CASE ~FlagAccepted(s.flag)
    <2>1. y \in RunType
        BY <1>2 DEF RunType, Phases
    <2>2. EndsWell(y)
        BY <1>1, <1>4 DEF Sound, EndsWell, RunType, Accepted, Before
    <2>3. Sound(y)
        BY <1>1, <2>1, <2>2 DEF Sound, RunType, Before, After
    <2>4. run.temp = cmd[p].temp /\ run.began = cmd[p].began /\ run.cleanup = cmd[p].cleanup
        BY <1>1 DEF RunType
    <2> HIDE DEF run
    <2> QED
        BY <1>1, <1>2, <1>4, <2>3, <2>4, ExitStep DEF In, run
<1> QED
    BY <1>3, <1>4

LEMMA SetLimitInv ==
    ASSUME CommandInv, NEW p \in Process, SetLimit(p)
    PROVE  CommandInv'
<1> DEFINE x == [cmd[p] EXCEPT !.phase = "load", !.limit = LimitOf(cmd[p].set)]
           y == [cmd[p] EXCEPT !.phase = "ended", !.exit = 1]
<1>1. Sound(cmd[p]) /\ cmd[p] \in RunType /\ cmd[p].phase = "limit"
    BY DEF CommandInv, SetLimit, In
<1>2. cmd[p].set \in Settings /\ FlagAccepted(cmd[p].set.flag) /\ cmd[p].outcome = "none"
    BY <1>1 DEF Sound
<1>3. CASE Accepted(cmd[p].set)
    <2>1. LimitOf(cmd[p].set) \in Nat \ {0}
        BY <1>2, <1>3, LimitPositive
    <2>2. LimitOf(cmd[p].set) \in Int /\ LimitOf(cmd[p].set) # Unset
        BY <2>1, SettingsAssumption
    <2>3. x \in RunType
        <3>1. [cmd[p] EXCEPT !.phase = "load"] \in RunType
            BY <1>1, TypeOfPhase DEF Phases
        <3>2. [[cmd[p] EXCEPT !.phase = "load"] EXCEPT !.limit = LimitOf(cmd[p].set)] \in RunType
            BY <2>2, <3>1, TypeOfLimit
        <3> QED
            BY <3>2
    <2>4. Sound(x) /\ x.outcome = "none"
        BY <1>1, <1>3, <2>2, <2>3 DEF Sound, RunType, Before, After
    <2>5. Set(p, x) /\ UNCHANGED <<clock, temps>>
        BY <1>3 DEF SetLimit, Accepted
    <2>6. x.began = cmd[p].began /\ x.cleanup = cmd[p].cleanup /\ x.temp = cmd[p].temp
          /\ x.phase = "load"
        BY <1>1 DEF RunType
    <2> HIDE DEF x
    <2> QED
        BY <1>1, <2>4, <2>5, <2>6, OwnStep DEF In
<1>4. CASE ~Accepted(cmd[p].set)
    <2>1. y \in RunType
        BY <1>1, TypeOfExit
    <2>2. EndsWell(y)
        BY <1>1, <1>4 DEF Sound, EndsWell, RunType, Before
    <2>3. Sound(y)
        BY <1>1, <2>1, <2>2 DEF Sound, RunType, Before, After
    <2>4. Exit(p, cmd[p], 1)
        BY <1>2, <1>4 DEF SetLimit, Accepted
    <2> QED
        BY <1>1, <1>2, <2>3, <2>4, ExitStep DEF In
<1> QED
    BY <1>3, <1>4

LEMMA ReadStdinInv ==
    ASSUME CommandInv, NEW p \in Process, ReadStdin(p)
    PROVE  CommandInv'
<1> DEFINE x == [cmd[p] EXCEPT !.phase = "temp", !.began = clock, !.temp = clock]
<1>1. Sound(cmd[p]) /\ cmd[p] \in RunType /\ cmd[p].phase = "stdin" /\ clock \in Time
    BY DEF CommandInv, ReadStdin, In
<1>2. clock # Unset
    BY <1>1, SettingsAssumption DEF Time
<1>3. x \in RunType
    BY <1>1 DEF RunType, Phases
<1>4. Sound(x) /\ x.outcome = "none"
    BY <1>1, <1>2, <1>3 DEF Sound, RunType, Before, After
<1>5. cmd[p].began = Unset /\ ~cmd[p].cleanup /\ x.phase = "temp"
    BY <1>1 DEF Sound, RunType, Before
<1>6. Set(p, x) /\ UNCHANGED <<clock, temps>>
    BY DEF ReadStdin
<1> HIDE DEF x
<1> QED
    BY <1>1, <1>4, <1>5, <1>6, OwnStep DEF In

LEMMA WriteTempInv ==
    ASSUME CommandInv, NEW p \in Process, WriteTemp(p) \/ WriteTempFails(p)
    PROVE  CommandInv'
<1>1. Sound(cmd[p]) /\ cmd[p] \in RunType /\ cmd[p].phase = "temp"
    BY DEF CommandInv, WriteTemp, WriteTempFails, In
<1>2. cmd[p].temp \in Time /\ cmd[p].outcome = "none" /\ ~cmd[p].cleanup
    BY <1>1 DEF Sound, RunType, Before
<1>3. temps \in [Time -> Process \cup {Unset, Torn}]
    BY DEF CommandInv
<1>4. \A t \in Time : temps[t] # p
    BY <1>2 DEF CommandInv, Honest
<1>5. CASE WriteTemp(p)
    <2> DEFINE x == [cmd[p] EXCEPT !.phase = "limit", !.cleanup = TRUE]
    <2>1. x \in RunType
        <3>1. [cmd[p] EXCEPT !.phase = "limit"] \in RunType
            BY <1>1, TypeOfPhase DEF Phases
        <3>2. [[cmd[p] EXCEPT !.phase = "limit"] EXCEPT !.cleanup = TRUE] \in RunType
            BY <3>1, TypeOfCleanup
        <3> QED
            BY <3>2
    <2>2. Sound(x) /\ x.outcome = "none"
        BY <1>1, <2>1 DEF Sound, RunType, Before, After
    <2>3. x.began = cmd[p].began /\ x.cleanup /\ x.temp = cmd[p].temp /\ x.phase = "limit"
        BY <1>1 DEF RunType
    <2>4. Set(p, x) /\ clock' = clock /\ temps' = [temps EXCEPT ![cmd[p].temp] = p]
        BY <1>5 DEF WriteTemp
    <2>5. /\ temps' \in [Time -> Process \cup {Unset, Torn}]
          /\ \A t \in Time : temps'[t] \in {temps[t], p}
          /\ \A t \in Time : temps'[t] = p => t = x.temp
        BY <1>2, <1>3, <1>4, <2>3, <2>4
    <2>6. \A t \in Time : temps'[t] = Torn => temps[t] = Torn
        BY <2>5, SettingsAssumption
    <2> HIDE DEF x
    <2> QED
        BY <1>1, <2>2, <2>3, <2>4, <2>5, <2>6, RunStep DEF In
<1>6. CASE WriteTempFails(p)
    <2> DEFINE x == [cmd[p] EXCEPT !.phase = "ended", !.exit = 1]
    <2>1. x \in RunType
        BY <1>1, TypeOfExit
    <2>2. EndsWell(x)
        BY <1>1 DEF Sound, EndsWell, RunType, Before
    <2>3. Sound(x) /\ x.outcome = "none"
        BY <1>1, <2>1, <2>2 DEF Sound, RunType, Before, After
    <2>4. x.began = cmd[p].began /\ x.temp = cmd[p].temp /\ x.phase = "ended"
        BY <1>1 DEF RunType
    <2>5. Set(p, x) /\ clock' = clock
        BY <1>6 DEF WriteTempFails
    <2>6. /\ temps' \in [Time -> Process \cup {Unset, Torn}]
          /\ \A t \in Time : temps'[t] \in {temps[t], Torn}
          /\ \A t \in Time : temps'[t] = Torn /\ temps[t] # Torn => t = x.temp
        BY <1>2, <1>3, <1>6, <2>4 DEF WriteTempFails
    <2>7. \A t \in Time : temps'[t] # p
        BY <1>4, <2>6, SettingsAssumption
    <2> HIDE DEF x
    <2> QED
        BY <1>1, <2>3, <2>4, <2>5, <2>6, <2>7, RunStep DEF In
<1> QED
    BY <1>5, <1>6

-----------------------------------------------------------------------------
\* The text the expansion starts from is the run's own, unless another run got
\* its text in the same millisecond.
LEMMA TextIsOwn ==
    ASSUME CommandInv, NEW p \in Process, In(p, "load"), Text(p) # Unset
    PROVE  /\ Text(p) \in Process \cup {Torn}
           /\ \/ Text(p) = p
              \/ cmd[p].began # Unset /\ \E q \in Process \ {p} : cmd[q].began = cmd[p].began
<1>1. Sound(cmd[p]) /\ cmd[p] \in RunType /\ cmd[p].temp = cmd[p].began
    BY DEF CommandInv, Sound
<1>2. CASE cmd[p].temp = Unset
    BY <1>2 DEF Text
<1>3. CASE cmd[p].temp # Unset
    <2> DEFINE t == cmd[p].temp
    <2>1. t \in Time /\ Text(p) = temps[t]
        BY <1>1, <1>3 DEF RunType, Text
    <2>2. temps[t] \in Process \cup {Torn}
        BY <2>1 DEF CommandInv
    <2>3. ASSUME temps[t] # p
          PROVE  \E q \in Process \ {p} : cmd[q].temp = t
        <3>1. CASE temps[t] = Torn
            <4>1. PICK q \in Process : cmd[q].temp = t /\ In(q, "ended")
                BY <2>1, <3>1 DEF CommandInv, Honest
            <4> QED
                BY <4>1 DEF In
        <3>2. CASE temps[t] \in Process
            BY <2>1, <2>3, <3>2 DEF CommandInv, Honest
        <3> QED
            BY <2>2, <3>1, <3>2
    <2>4. \A q \in Process : cmd[q].temp = cmd[q].began
        BY DEF CommandInv, Sound
    <2> QED
        BY <1>1, <1>3, <2>1, <2>2, <2>3, <2>4
<1> QED
    BY <1>2, <1>3

LEMMA LoadInv ==
    ASSUME CommandInv, NEW p \in Process, LoadSucceeds(p) \/ LoadReports(p) \/ LoadFails(p)
    PROVE  CommandInv'
<1>1. Sound(cmd[p]) /\ cmd[p] \in RunType /\ cmd[p].phase = "load"
    BY DEF CommandInv, LoadSucceeds, LoadReports, LoadFails, In
<1>2. CASE LoadSucceeds(p)
    <2> DEFINE text == Text(p)
               x == [cmd[p] EXCEPT !.phase = "output", !.text = text, !.outcome = "ok"]
    <2>1. /\ text \in Process \cup {Torn}
          /\ \/ text = p
             \/ cmd[p].began # Unset /\ \E q \in Process \ {p} : cmd[q].began = cmd[p].began
        BY <1>1, <1>2, TextIsOwn DEF LoadSucceeds
    <2>2. Set(p, x) /\ UNCHANGED <<clock, temps>>
        BY <1>2 DEF LoadSucceeds
    <2> HIDE DEF text
    <2>3. x \in RunType
        <3> DEFINE y == [cmd[p] EXCEPT !.phase = "output"]
                   z == [y EXCEPT !.text = text]
        <3>1. y \in RunType
            BY <1>1, TypeOfPhase DEF Phases
        <3>2. z \in RunType
            BY <2>1, <3>1, TypeOfText
        <3>3. x = [z EXCEPT !.outcome = "ok"]
            OBVIOUS
        <3> HIDE DEF z, x
        <3> QED
            BY <3>2, <3>3, TypeOfOutcome
    <2>4. Sound(x)
        BY <1>1, <2>3 DEF Sound, RunType, Before, After
    <2>5. /\ x.began = cmd[p].began /\ x.cleanup = cmd[p].cleanup /\ x.temp = cmd[p].temp
          /\ x.phase = "output" /\ x.text = text
        BY <1>1 DEF RunType
    <2> HIDE DEF x
    <2> QED
        BY <1>1, <2>1, <2>2, <2>4, <2>5, OwnStep DEF In
<1>3. CASE LoadReports(p)
    <2> DEFINE x == [cmd[p] EXCEPT !.phase = "emit", !.outcome = "reported"]
    <2>1. Set(p, x) /\ UNCHANGED <<clock, temps>>
        BY <1>3 DEF LoadReports
    <2>2. x \in RunType
        <3>1. [cmd[p] EXCEPT !.phase = "emit"] \in RunType
            BY <1>1, TypeOfPhase DEF Phases
        <3>2. [[cmd[p] EXCEPT !.phase = "emit"] EXCEPT !.outcome = "reported"] \in RunType
            BY <3>1, TypeOfOutcome
        <3> QED
            BY <3>2
    <2>3. Sound(x)
        BY <1>1, <2>2 DEF Sound, RunType, Before, After
    <2>4. /\ x.began = cmd[p].began /\ x.cleanup = cmd[p].cleanup /\ x.temp = cmd[p].temp
          /\ x.phase = "emit" /\ x.outcome = "reported"
        BY <1>1 DEF RunType
    <2> HIDE DEF x
    <2> QED
        BY <1>1, <2>1, <2>3, <2>4, OwnStep DEF In
<1>4. CASE LoadFails(p)
    <2> DEFINE x == [cmd[p] EXCEPT !.outcome = "failed"]
               y == [x EXCEPT !.phase = "ended", !.exit = 1]
    <2>1. Exit(p, x, 1)
        BY <1>4 DEF LoadFails
    <2>2. x \in RunType /\ y \in RunType
        <3>1. x \in RunType
            BY <1>1, TypeOfOutcome
        <3> HIDE DEF x
        <3> QED
            BY <3>1, TypeOfExit
    <2>3. EndsWell(y)
        BY <1>1 DEF Sound, EndsWell, RunType
    <2>4. Sound(y)
        BY <1>1, <2>2, <2>3 DEF Sound, RunType, Before, After
    <2>5. /\ x.began = cmd[p].began /\ x.cleanup = cmd[p].cleanup /\ x.temp = cmd[p].temp
          /\ x.outcome = "failed"
        BY <1>1 DEF RunType
    <2> HIDE DEF x
    <2> QED
        BY <1>1, <2>1, <2>2, <2>4, <2>5, ExitStep DEF In
<1> QED
    BY <1>2, <1>3, <1>4

\* Whatever becomes of the outcome, it is put where it was asked to, or the exit
\* code says that it was not.
LEMMA OutputInv ==
    ASSUME CommandInv, NEW p \in Process, Flush(p) \/ Output(p) \/ OutputFails(p)
    PROVE  CommandInv'
<1>1. Sound(cmd[p]) /\ cmd[p] \in RunType /\ cmd[p].phase \in {"emit", "output"}
    BY DEF CommandInv, Flush, Output, OutputFails, In
<1>2. ASSUME NEW x, NEW code \in {0, 1, 2}, Exit(p, x, code), x \in RunType,
             x.began = cmd[p].began, x.cleanup = cmd[p].cleanup, x.temp = cmd[p].temp,
             x.text = cmd[p].text, x.outcome = cmd[p].outcome, x.set = cmd[p].set,
             x.limit = cmd[p].limit,
             code = 2 <=> x.stdout \in {"payload", "lost"},
             code = 0 => (IF x.set.toFile THEN x.out = "new" ELSE x.stdout = "text"),
             x.outcome # "ok" => x.out = "old"
      PROVE  CommandInv'
    <2> DEFINE y == [x EXCEPT !.phase = "ended", !.exit = code]
    <2>1. y \in RunType
        BY <1>2, TypeOfExit
    <2>2. /\ y.began = x.began /\ y.cleanup = x.cleanup /\ y.temp = x.temp /\ y.set = x.set
          /\ y.limit = x.limit /\ y.outcome = x.outcome /\ y.out = x.out /\ y.stdout = x.stdout
          /\ y.phase = "ended" /\ y.exit = code
        BY <1>2 DEF RunType
    <2> HIDE DEF y
    <2>3. EndsWell(y)
        BY <1>1, <1>2, <2>2 DEF Sound, EndsWell
    <2>4. Sound(y)
        BY <1>1, <1>2, <2>1, <2>2, <2>3 DEF Sound, Before, After
    <2>5. \/ cmd[p].outcome # "ok" \/ cmd[p].text = p
          \/ cmd[p].began # Unset /\ \E q \in Process \ {p} : cmd[q].began = cmd[p].began
        BY DEF CommandInv, Own
    <2> QED
        BY <1>1, <1>2, <2>4, <2>5, ExitStep DEF In, y
<1>3. CASE Flush(p)
    <2> PICK left \in {"payload", "lost"} : Exit(p, [cmd[p] EXCEPT !.stdout = left], 2)
        BY <1>3 DEF Flush
    <2> DEFINE x == [cmd[p] EXCEPT !.stdout = left]
    <2>1. Exit(p, x, 2)
        OBVIOUS
    <2>2. x \in RunType
        BY <1>1 DEF RunType
    <2>3. /\ x.began = cmd[p].began /\ x.cleanup = cmd[p].cleanup /\ x.temp = cmd[p].temp
          /\ x.text = cmd[p].text /\ x.outcome = cmd[p].outcome /\ x.set = cmd[p].set
          /\ x.limit = cmd[p].limit /\ x.stdout = left /\ x.out = cmd[p].out
        BY <1>1 DEF RunType
    <2>4. x.out = "old"
        BY <1>1, <2>3 DEF Sound
    <2> HIDE DEF x
    <2> QED
        BY <1>2, <2>1, <2>2, <2>3, <2>4
<1>4. CASE Output(p)
    <2>1. cmd[p].outcome = "ok" /\ cmd[p].stdout = "nothing"
        BY <1>1, <1>4 DEF Sound, Output, In
    <2>2. CASE cmd[p].set.toFile
        <3> DEFINE x == [cmd[p] EXCEPT !.out = "new"]
        <3>1. Exit(p, x, 0)
            BY <1>4, <2>2 DEF Output
        <3>2. x \in RunType
            BY <1>1 DEF RunType
        <3>3. /\ x.began = cmd[p].began /\ x.cleanup = cmd[p].cleanup /\ x.temp = cmd[p].temp
              /\ x.text = cmd[p].text /\ x.outcome = cmd[p].outcome /\ x.set = cmd[p].set
              /\ x.limit = cmd[p].limit /\ x.stdout = "nothing" /\ x.out = "new"
            BY <1>1, <2>1 DEF RunType
        <3> HIDE DEF x
        <3> QED
            BY <1>2, <2>1, <2>2, <3>1, <3>2, <3>3
    <2>3. CASE ~cmd[p].set.toFile
        <3> DEFINE x == [cmd[p] EXCEPT !.stdout = "text"]
        <3>1. Exit(p, x, 0)
            BY <1>4, <2>3 DEF Output
        <3>2. x \in RunType
            BY <1>1 DEF RunType
        <3>3. /\ x.began = cmd[p].began /\ x.cleanup = cmd[p].cleanup /\ x.temp = cmd[p].temp
              /\ x.text = cmd[p].text /\ x.outcome = cmd[p].outcome /\ x.set = cmd[p].set
              /\ x.limit = cmd[p].limit /\ x.stdout = "text"
            BY <1>1 DEF RunType
        <3> HIDE DEF x
        <3> QED
            BY <1>2, <2>1, <2>3, <3>1, <3>2, <3>3
    <2> QED
        BY <2>2, <2>3
<1>5. CASE OutputFails(p)
    <2>1. cmd[p].outcome = "ok" /\ cmd[p].stdout = "nothing"
        BY <1>1, <1>5 DEF Sound, OutputFails, In
    <2> PICK left \in {"old", Torn} : Exit(p, [cmd[p] EXCEPT !.out = left], 1)
        BY <1>5 DEF OutputFails
    <2> DEFINE x == [cmd[p] EXCEPT !.out = left]
    <2>2. x \in RunType
        BY <1>1 DEF RunType
    <2>3. /\ x.began = cmd[p].began /\ x.cleanup = cmd[p].cleanup /\ x.temp = cmd[p].temp
          /\ x.text = cmd[p].text /\ x.outcome = cmd[p].outcome /\ x.set = cmd[p].set
          /\ x.limit = cmd[p].limit /\ x.stdout = "nothing"
        BY <1>1, <2>1 DEF RunType
    <2>4. Exit(p, x, 1)
        OBVIOUS
    <2> HIDE DEF x
    <2> QED
        BY <1>2, <2>1, <2>2, <2>3, <2>4
<1> QED
    BY <1>3, <1>4, <1>5

LEMMA KillInv ==
    ASSUME CommandInv, NEW p \in Process, Kill(p)
    PROVE  CommandInv'
<1> DEFINE stdout == IF In(p, "emit") \/ (In(p, "output") /\ ~cmd[p].set.toFile)
                     THEN Torn ELSE cmd[p].stdout
           out == IF In(p, "output") /\ cmd[p].set.toFile THEN Torn ELSE cmd[p].out
           x == [cmd[p] EXCEPT !.phase = "ended", !.exit = 137, !.stdout = stdout, !.out = out]
<1>1. Sound(cmd[p]) /\ cmd[p] \in RunType /\ cmd[p].phase \notin {"new", "ended"}
    BY DEF CommandInv, Kill
<1>2. stdout \in {"nothing", Torn} /\ out \in {"old", Torn}
    BY <1>1 DEF Sound
<1>3. cmd[p].outcome # "ok" => out = "old"
    BY <1>1 DEF Sound, In
<1>4. Set(p, x) /\ UNCHANGED <<clock, temps>>
    BY DEF Kill
<1> HIDE DEF stdout, out
<1>5. x \in RunType
    <2> DEFINE y == [cmd[p] EXCEPT !.phase = "ended", !.exit = 137]
    <2>1. y \in RunType
        BY <1>1, TypeOfExit
    <2>2. x = [y EXCEPT !.stdout = stdout, !.out = out]
        OBVIOUS
    <2> HIDE DEF y, x
    <2> QED
        BY <1>2, <2>1, <2>2, TypeOfOutput
<1>6. /\ x.began = cmd[p].began /\ x.cleanup = cmd[p].cleanup /\ x.temp = cmd[p].temp
      /\ x.text = cmd[p].text /\ x.outcome = cmd[p].outcome /\ x.set = cmd[p].set
      /\ x.limit = cmd[p].limit /\ x.stdout = stdout /\ x.out = out
      /\ x.phase = "ended" /\ x.exit = 137
    BY <1>1 DEF RunType
<1> HIDE DEF x
<1>7. EndsWell(x)
    BY <1>2, <1>3, <1>6 DEF EndsWell, Torn
<1>8. Sound(x)
    BY <1>1, <1>5, <1>6, <1>7 DEF Sound, Before, After
<1>9. \/ cmd[p].outcome # "ok" \/ cmd[p].text = p
      \/ cmd[p].began # Unset /\ \E q \in Process \ {p} : cmd[q].began = cmd[p].began
    BY DEF CommandInv, Own
<1> QED
    BY <1>1, <1>4, <1>6, <1>8, <1>9, OwnStep DEF In

-----------------------------------------------------------------------------
LEMMA NextInv == CommandInv /\ [Next]_vars => CommandInv'
<1> SUFFICES ASSUME CommandInv, [Next]_vars PROVE CommandInv'
    OBVIOUS
<1>1. CASE Tick
    <2>1. clock' \in Time /\ UNCHANGED <<temps, cmd>>
        BY <1>1, SettingsAssumption DEF Tick, CommandInv, Time
    <2> QED
        BY <2>1 DEF CommandInv, Honest, Own, In
<1>2. CASE \E p \in Process : Parse(p) \/ Work(p) \/ Kill(p)
    <2> SUFFICES ASSUME NEW p \in Process, Parse(p) \/ Work(p) \/ Kill(p) PROVE CommandInv'
        BY <1>2
    <2>1. CASE Parse(p)
        BY <2>1, ParseInv
    <2>2. CASE SetLimit(p)
        BY <2>2, SetLimitInv
    <2>3. CASE ReadStdin(p)
        BY <2>3, ReadStdinInv
    <2>4. CASE WriteTemp(p) \/ WriteTempFails(p)
        BY <2>4, WriteTempInv
    <2>5. CASE LoadSucceeds(p) \/ LoadReports(p) \/ LoadFails(p)
        BY <2>5, LoadInv
    <2>6. CASE Flush(p) \/ Output(p) \/ OutputFails(p)
        BY <2>6, OutputInv
    <2>7. CASE Kill(p)
        BY <2>7, KillInv
    <2> QED
        BY <2>1, <2>2, <2>3, <2>4, <2>5, <2>6, <2>7 DEF Work
<1>3. CASE UNCHANGED vars
    BY <1>3 DEF vars, CommandInv, Honest, Own, In
<1> QED
    BY <1>1, <1>2, <1>3 DEF Next

\* Between two steps, each run has done what its phase says, and the temporary
\* files are those of the runs that say so.
THEOREM CommandInvariant == Spec => []CommandInv
<1>1. Init => CommandInv
    BY InitInv
<1>2. CommandInv /\ [Next]_vars => CommandInv'
    BY NextInv
<1> QED
    BY <1>1, <1>2, PTL DEF Spec

\* The expansion is always started with a limit of at least one.
THEOREM TypesCorrect == Spec => []TypeOK
BY CommandInvariant, InvTypes, PTL

\* Exit code 2 comes with a whole payload, unless it could not be written, and with
\* nothing else, 0 with the output where it was asked for, and no early failure touches the output file.
THEOREM ExitsMeanOutput == Spec => []ExitMeansOutput
BY CommandInvariant, InvExit, PTL

\* Only a run that is killed leaves its temporary file.
THEOREM TempsRemoved == Spec => []TempRemoved
BY CommandInvariant, InvTemp, PTL

\* A run expands its own text, unless another began in the same millisecond.
THEOREM TextsOwn == Spec => []OwnText
BY CommandInvariant, InvOwnText, PTL

=============================================================================
