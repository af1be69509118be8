------------------------------- MODULE Program -------------------------------
(***************************************************************************)
(* The command line program (main.cpp, cli/): processes of the weather     *)
(* client, one after the other, that share nothing but the files of the    *)
(* cache.  A process runs a single command and exits with a code, or is a  *)
(* session that reads commands until it is told to quit.                   *)
(*                                                                         *)
(* A step that reads a command is the first step of its call of            *)
(* WeatherClient; the steps that follow are those of the call.             *)
(***************************************************************************)
EXTENDS WeatherClient

VARIABLES
    run,    \* what the process is: "none", a command "once", a "session"
    turn,   \* "read": about to take a command, "execute": in its call,
            \* "over": about to exit
    shown,  \* the document the last command printed, NULL if none
    exit,   \* the exit code, NULL for none yet and for a process killed
    before  \* history: the files when the last command was read

cliVars == <<run, turn, shown, exit, before>>
programVars == <<vars, cliVars>>

ProgramTypeOK ==
    /\ TypeOK
    /\ run \in {"none", "once", "session"}
    /\ turn \in {"read", "execute", "over"}
    /\ shown \in Document \cup {NULL}
    /\ exit \in 0..3 \cup {NULL}
    /\ before \in [Keys -> Cache!File \cup {NULL}]

ProgramInit ==
    /\ Init
    /\ run = "none" /\ turn = "read" /\ shown = NULL /\ exit = NULL
    /\ before = files

-----------------------------------------------------------------------------
\* A process without arguments, or one that cannot create its client, exits at
\* once: ExitCode::InvalidArgs and ExitCode::NetworkError.
ExitAtOnce ==
    /\ run = "none"
    /\ exit' \in {1} \cup (IF MemoryFaults THEN {2} ELSE {})
    /\ shown' = NULL
    /\ UNCHANGED <<vars, run, turn, before>>

\* main creates the client and looks at its first argument.
Main ==
    /\ run = "none"
    /\ run' \in {"once", "session"}
    /\ turn' = "read" /\ shown' = NULL /\ exit' = NULL
    /\ before' = files
    /\ UNCHANGED vars

\* The command is done: runCommandLine returns the code, runInteractive takes
\* the next line whatever has happened.
Done(code) ==
    IF run = "once" THEN turn' = "over" /\ exit' = code
                    ELSE turn' = "read" /\ UNCHANGED exit

\* CommandParser::parse throws: std::invalid_argument is a usage error, the
\* std::out_of_range of std::stod is not.
ParseFails ==
    /\ run # "none" /\ turn = "read"
    /\ Done(1) \/ Done(3)
    /\ shown' = NULL
    /\ before' = files
    /\ UNCHANGED <<vars, run>>

\* Mutant: an exception of the client is reported and forgotten.
SettleQuietly ==
    IF phase' # "idle"
    THEN turn' = "execute" /\ shown' = NULL /\ UNCHANGED exit
    ELSE /\ Done(0)
         /\ shown' = IF outcome' = NULL THEN NULL ELSE outcome'.doc

\* A step of the client's call is taken.  When it returns, the command prints
\* the document, if json_dumps finds the memory; "Cache cleared" has none.
\* When it throws, the code is ExitCode::ServerError, whatever it was.
Settle ==
    IF phase' # "idle"
    THEN turn' = "execute" /\ shown' = NULL /\ UNCHANGED exit
    ELSE IF outcome' # NULL /\ outcome'.doc = NULL
    THEN Done(3) /\ shown' = NULL
    ELSE /\ Done(0)
         /\ shown' \in {IF outcome' = NULL THEN NULL ELSE outcome'.doc}
                         \cup (IF MemoryFaults THEN {NULL} ELSE {})

\* The command is parsed and executed.
Execute ==
    /\ run # "none" /\ turn = "read"
    /\ \/ \E k \in Keys : MakeRequest(k)
       \/ RejectArguments \/ Echo \/ ClearCache
    /\ Settle
    /\ before' = files
    /\ UNCHANGED run

ContinueCommand ==
    /\ turn = "execute"
    /\ Continue
    /\ Settle
    /\ UNCHANGED <<run, before>>

\* main returns, or a session reads "quit" or the end of its input: the client
\* is destroyed with the process.
Exit ==
    /\ \/ turn = "over" /\ UNCHANGED exit
       \/ run = "session" /\ turn = "read" /\ exit' = 0
    /\ Restart
    /\ run' = "none" /\ turn' = "read"
    /\ UNCHANGED <<shown, before>>

\* The process is killed, at any time.
Kill ==
    /\ run # "none"
    /\ Restart
    /\ run' = "none" /\ turn' = "read" /\ shown' = NULL /\ exit' = NULL
    /\ UNCHANGED before

Environment ==
    /\ Network \/ Clock
    /\ UNCHANGED cliVars

ProgramNext ==
    \/ ExitAtOnce \/ Main \/ ParseFails \/ Execute \/ ContinueCommand
    \/ Exit \/ Kill \/ Environment

\* A command given on the command line is read, executed and left; a session
\* may wait for its next line for ever, and nobody need start a process.
Fair ==
    /\ WF_programVars(run = "once" /\ (ParseFails \/ Execute))
    /\ WF_programVars(ContinueCommand)
    /\ WF_programVars(turn = "over" /\ Exit)
    /\ WF_programVars(Environment /\ Http!Tick)

ProgramSpec == ProgramInit /\ [][ProgramNext]_programVars /\ Fair

-----------------------------------------------------------------------------
(***************************************************************************)
(* Properties.                                                             *)
(***************************************************************************)

\* The exit code can be relied on by a script, as long as memory and disk do:
\* a command that exits with 0 has printed a whole document that is now in its
\* file, for the next command to find, or has emptied the directory; one that
\* exits with another code has printed nothing and written to no file.
ExitCodeTells ==
    turn = "over" /\ CacheDir /\ ~MemoryFaults /\ ~DiskFaults =>
        /\ exit = 0 /\ shown # NULL /\ shown.key # NULL =>
              /\ shown.kind = "data" /\ shown.units >= 2 * Chunks
              /\ Cache!Parses(files[shown.key])
              /\ docs[files[shown.key].data.id] = shown
        /\ exit = 0 /\ shown = NULL => \A k \in Keys : files[k] = NULL
        /\ exit # 0 =>
              /\ shown = NULL
              /\ \A k \in Keys : files[k] \in {before[k], NULL}

\* A command given on the command line comes to its exit, and every command of
\* a session to the next prompt, whatever the server does.
EveryCommandEnds ==
    /\ run = "once" ~> run = "none"
    /\ turn = "execute" ~> turn # "execute"
==============================================================================
