---------------------------- MODULE CommandLine ----------------------------
(***************************************************************************)
(* The command dockerfile-x around the expansion: the depth limit from a   *)
(* flag or the environment, the Dockerfile from a file or from standard    *)
(* input by way of a temporary file, and what becomes of the outcome.      *)
(* Several runs share the directory of temporary files.  IncludeLoader     *)
(* says what the expansion does with the text; here it may end in any way. *)
(***************************************************************************)
EXTENDS Integers, FiniteSets

CONSTANTS
    Process,    \* The runs of the command.
    Raw,        \* The texts given as a limit.
    ParsedAs,   \* What Number.parseInt makes of them, or NaN.
    Canonical,  \* Those that are the number they are parsed as, blanks aside.
    NaN,        \* Not a number.
    Blank,      \* The empty text.
    Unset,      \* No text, no limit, no time, no file.
    Settings,   \* The options and the environment a run may be started with.
    MaxTime     \* Bound on the clock, in milliseconds.

Inputs == {"file", "stdin", "empty stdin"}
Torn == "torn"

ASSUME SettingsAssumption ==
    /\ ParsedAs \in [Raw -> Int \cup {NaN}] /\ Canonical \subseteq Raw
    /\ Unset \notin Raw \cup Int \cup Process \cup {Torn} /\ Torn \notin Process
    /\ Settings \subseteq [flag : Raw \cup {Unset}, env : Raw \cup {Unset},
                           input : Inputs, toFile : BOOLEAN]
    /\ MaxTime \in Nat

VARIABLES
    clock,  \* Date.now().
    temps,  \* The temporary files, by the time in their names: whose text they hold.
    cmd     \* The runs.

vars == <<clock, temps, cmd>>

Time == 0..MaxTime
Default == 32
Phases == {"new", "stdin", "temp", "limit", "load", "output", "emit", "ended"}

\* "cleanup": the exit handler is registered.  "outcome": of the expansion;
\* "reported" stands for any of the six errors with a code of their own.
\* "stdout" and "out" are what the reader of the one and the output file have;
\* what a failed write to the one leaves is "lost".
NewRun ==
    [phase |-> "new", set |-> Unset, began |-> Unset, temp |-> Unset, cleanup |-> FALSE,
     limit |-> Unset, text |-> Unset, outcome |-> "none", stdout |-> "nothing",
     out |-> "old", exit |-> -1]

Init ==
    /\ clock = 0
    /\ temps = [t \in Time |-> Unset]
    /\ cmd = [p \in Process |-> NewRun]

In(p, phase) == cmd[p].phase = phase
Set(p, run) == cmd' = [cmd EXCEPT ![p] = run]

\* The process ends, and its exit handler with it.
Exit(p, run, code) ==
    /\ Set(p, [run EXCEPT !.phase = "ended", !.exit = code])
    /\ temps' = IF run.cleanup THEN [temps EXCEPT ![run.temp] = Unset] ELSE temps
    /\ UNCHANGED clock

Tick ==
    /\ clock < MaxTime
    /\ clock' = clock + 1
    /\ UNCHANGED <<temps, cmd>>

-----------------------------------------------------------------------------
(***************************************************************************)
(* Options and limits                                                      *)
(***************************************************************************)
\* The option, where it is given.
FlagAccepted(raw) ==
    raw # Unset => ~(ParsedAs[raw] = NaN \/ ParsedAs[raw] < 1)

\* The variable, which counts as unset when it is empty.
EnvUnset == {Unset, Blank}

\* Variant, against TypeOK: the environment is not checked for zero.
EnvAcceptedLax(raw) ==
    \/ raw \in EnvUnset
    \/ ParsedAs[raw] # NaN /\ raw \in Canonical

EnvAccepted(raw) ==
    \/ raw \in EnvUnset
    \/ ParsedAs[raw] # NaN /\ ParsedAs[raw] >= 1 /\ raw \in Canonical

LimitOf(set) ==
    IF set.flag # Unset THEN ParsedAs[set.flag]
    ELSE IF set.env \notin EnvUnset THEN ParsedAs[set.env] ELSE Default

\* An argument commander refuses ends as an unhandled rejection.
Parse(p) ==
    /\ In(p, "new")
    /\ \E s \in Settings :
        LET run == [cmd[p] EXCEPT !.set = s] IN
        IF FlagAccepted(s.flag)
        THEN /\ Set(p, [run EXCEPT !.phase = IF s.input = "file" THEN "limit" ELSE "stdin"])
             /\ UNCHANGED <<clock, temps>>
        ELSE Exit(p, run, 1)

\* After the temporary file is written: the flag hides a bad environment.
SetLimit(p) ==
    /\ In(p, "limit")
    /\ IF cmd[p].set.flag # Unset \/ EnvAccepted(cmd[p].set.env)
       THEN /\ Set(p, [cmd[p] EXCEPT !.phase = "load", !.limit = LimitOf(cmd[p].set)])
            /\ UNCHANGED <<clock, temps>>
       ELSE Exit(p, cmd[p], 1)

-----------------------------------------------------------------------------
(***************************************************************************)
(* Standard input and its temporary file                                   *)
(***************************************************************************)
\* Variant, against OwnText: the file has the same name whenever it is written.
ReadStdinOneName(p) ==
    /\ In(p, "stdin")
    /\ Set(p, [cmd[p] EXCEPT !.phase = "temp", !.began = clock, !.temp = 0])
    /\ UNCHANGED <<clock, temps>>

ReadStdin(p) ==
    /\ In(p, "stdin")
    /\ Set(p, [cmd[p] EXCEPT !.phase = "temp", !.began = clock, !.temp = clock])
    /\ UNCHANGED <<clock, temps>>

\* Variant, against TempRemoved: nobody removes the file.
WriteTempOnly(p) ==
    /\ In(p, "temp")
    /\ temps' = [temps EXCEPT ![cmd[p].temp] = p]
    /\ Set(p, [cmd[p] EXCEPT !.phase = "limit"])
    /\ UNCHANGED clock

WriteTemp(p) ==
    /\ In(p, "temp")
    /\ temps' = [temps EXCEPT ![cmd[p].temp] = p]
    /\ Set(p, [cmd[p] EXCEPT !.phase = "limit", !.cleanup = TRUE])
    /\ UNCHANGED clock

\* What has been written of it stays.
WriteTempFails(p) ==
    /\ In(p, "temp")
    /\ temps' \in {temps, [temps EXCEPT ![cmd[p].temp] = Torn]}
    /\ Set(p, [cmd[p] EXCEPT !.phase = "ended", !.exit = 1])
    /\ UNCHANGED clock

-----------------------------------------------------------------------------
(***************************************************************************)
(* The expansion and what becomes of it                                    *)
(***************************************************************************)
\* The text the expansion starts from; another run may have removed the file.
Text(p) == IF cmd[p].temp = Unset THEN p ELSE temps[cmd[p].temp]

LoadSucceeds(p) ==
    /\ In(p, "load")
    /\ Text(p) # Unset
    /\ Set(p, [cmd[p] EXCEPT !.phase = "output", !.text = Text(p), !.outcome = "ok"])
    /\ UNCHANGED <<clock, temps>>

\* Variant, against ExitMeansOutput: process.exit() right after the write.
LoadReportsAndExits(p) ==
    /\ In(p, "load")
    /\ Exit(p, [cmd[p] EXCEPT !.outcome = "reported"], 2)

\* emitJsonErrorAndExit: the payload is on its way, the action returns.  A file
\* that is not there is such an error.
LoadReports(p) ==
    /\ In(p, "load")
    /\ Set(p, [cmd[p] EXCEPT !.phase = "emit", !.outcome = "reported"])
    /\ UNCHANGED <<clock, temps>>

\* An unhandled rejection.
LoadFails(p) ==
    /\ In(p, "load")
    /\ Text(p) # Unset
    /\ Exit(p, [cmd[p] EXCEPT !.outcome = "failed"], 1)

\* The callback does not ask whether the write has failed.
Flush(p) ==
    /\ In(p, "emit")
    /\ \E left \in {"payload", "lost"} : Exit(p, [cmd[p] EXCEPT !.stdout = left], 2)

\* The process stays until standard output is flushed, or the file written.
Output(p) ==
    /\ In(p, "output")
    /\ Exit(p, IF cmd[p].set.toFile THEN [cmd[p] EXCEPT !.out = "new"]
                                    ELSE [cmd[p] EXCEPT !.stdout = "text"], 0)

OutputFails(p) ==
    /\ In(p, "output")
    /\ cmd[p].set.toFile
    /\ \E left \in {"old", Torn} : Exit(p, [cmd[p] EXCEPT !.out = left], 1)

\* A signal: no exit handler runs, and what was on its way may be cut off.
Kill(p) ==
    /\ cmd[p].phase \notin {"new", "ended"}
    /\ Set(p, [cmd[p] EXCEPT !.phase = "ended", !.exit = 137,
                             !.stdout = IF In(p, "emit") \/ (In(p, "output") /\ ~cmd[p].set.toFile)
                                        THEN Torn ELSE @,
                             !.out = IF In(p, "output") /\ cmd[p].set.toFile THEN Torn ELSE @])
    /\ UNCHANGED <<clock, temps>>

Work(p) ==
    \/ SetLimit(p) \/ ReadStdin(p) \/ WriteTemp(p) \/ WriteTempFails(p)
    \/ LoadSucceeds(p) \/ LoadReports(p) \/ LoadFails(p)
    \/ Flush(p) \/ Output(p) \/ OutputFails(p)

Next == Tick \/ \E p \in Process : Parse(p) \/ Work(p) \/ Kill(p)

Spec == Init /\ [][Next]_vars

-----------------------------------------------------------------------------
(***************************************************************************)
(* Properties                                                              *)
(***************************************************************************)
RunType ==
    [phase : Phases, set : Settings \cup {Unset}, began : Time \cup {Unset},
     temp : Time \cup {Unset}, cleanup : BOOLEAN, limit : Int \cup {Unset},
     text : Process \cup {Unset, Torn}, outcome : {"none", "ok", "reported", "failed"},
     stdout : {"nothing", "text", "payload", "lost", Torn}, out : {"old", "new", Torn},
     exit : {-1, 0, 1, 2, 137}]

\* The state is made of what the runs can hold; the expansion is started with a
\* limit of at least one, which is what IncludeLoader assumes.
TypeOK ==
    /\ clock \in Time
    /\ temps \in [Time -> Process \cup {Unset, Torn}]
    /\ cmd \in [Process -> RunType]
    /\ \A p \in Process :
        In(p, "load") => cmd[p].limit \in Nat \ {0}

\* program.js:85, "Exit code 2 is reserved": the frontend that sees it finds a
\* whole payload, unless it could not be written, and no other failure, of the
\* configuration or of the expansion, is reported that way.  A run that claims
\* success has put the expansion where it was asked to, and one that fails before
\* that has not touched the output file.
ExitMeansOutput ==
    \A p \in Process : In(p, "ended") =>
        /\ cmd[p].exit = 2 <=> cmd[p].stdout \in {"payload", "lost"}
        /\ cmd[p].exit = 0 => (IF cmd[p].set.toFile THEN cmd[p].out = "new" ELSE cmd[p].stdout = "text")
        /\ cmd[p].outcome # "ok" => cmd[p].out = "old"

LimitRefused(p) ==
    In(p, "ended") /\ cmd[p].exit = 1 /\ cmd[p].temp = Unset /\ cmd[p].limit = Unset

\* limits.js:3, "matching the CLI flag's behavior": a text given as the limit by
\* the flag alone and the same text, if there is any, given by the environment
\* alone are both refused or are the same limit.
LimitsAgree ==
    \A p, q \in Process :
        /\ cmd[p].set # Unset /\ cmd[p].set.env = Unset
        /\ cmd[q].set # Unset /\ cmd[q].set.flag = Unset
        /\ cmd[p].set.flag = cmd[q].set.env /\ cmd[p].set.flag \notin EnvUnset
        => /\ LimitRefused(p) => cmd[q].limit = Unset
           /\ LimitRefused(q) => cmd[p].limit = Unset
           /\ Unset \in {cmd[p].limit, cmd[q].limit} \/ cmd[p].limit = cmd[q].limit

\* However a run ends, its temporary file is gone, unless it was killed or could
\* not write the file.
TempRemoved ==
    \A p \in Process :
        In(p, "ended") /\ cmd[p].temp # Unset /\ temps[cmd[p].temp] = p => cmd[p].exit = 137

\* A run expands the text it was given, whatever other runs do in the same
\* directory, unless one of them got its text in the same millisecond.
OwnText ==
    \A p \in Process :
        cmd[p].outcome = "ok" =>
            \/ cmd[p].text = p
            \/ \E q \in Process \ {p} : cmd[q].began = cmd[p].began

=============================================================================
