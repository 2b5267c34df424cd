-------------------------------- MODULE Build --------------------------------
(***************************************************************************)
(* The two halves of a build by bebopc_runner_generate: one invocation of  *)
(* a plugin (PluginExchange), and what the responses of all of them make   *)
(* of the output directory (GeneratedFiles).  A behaviour is of one half.  *)
(***************************************************************************)
EXTENDS PluginExchange

CONSTANTS NPlugins, Names, UnsafeName, NoName, Points, Texts, NoPoint, Responses

VARIABLES
    half,     \* "exchange"; "patient", one without deadlines; or "files"
    \* GeneratedFiles
    plug, resp, pass, idx, disk, present, err, buildResult, base, ins, damaged,
    missed

filesVars == <<plug, resp, pass, idx, disk, present, err, buildResult, base, ins,
               damaged, missed>>
allVars == <<vars, half, filesVars>>

Files == INSTANCE GeneratedFiles WITH result <- buildResult

\* BEBOPC_PLUGIN_TIMEOUT_MS=0 disables the deadlines; nothing else fails here.
Patient == INSTANCE PluginExchange WITH Timeout <- 0, Faults <- FALSE

ASSUME BuildAssumption == Files!ConstantsOK

BuildInit ==
    /\ Init /\ Files!Init
    /\ half \in {"exchange", "patient", "files"}
    /\ half = "patient" => ~ Free

BuildNext ==
    \/ half = "exchange" /\ Next /\ UNCHANGED <<half, filesVars>>
    \/ half = "patient" /\ Patient!Next /\ UNCHANGED <<half, filesVars>>
    \/ half = "files" /\ Files!Next /\ UNCHANGED <<half, vars>>

\* The compiler keeps running and the clock keeps moving.
HostRuns ==
    /\ \/ half = "exchange" /\ Host
       \/ half = "patient" /\ Patient!Host
    /\ UNCHANGED <<half, filesVars>>
ClockRuns == half = "exchange" /\ Tick /\ UNCHANGED <<half, filesVars>>

\* A plugin that does its work is a running process of the operating system;
\* nothing is assumed of one that does as it likes.
PluginRuns ==
    /\ half \in {"exchange", "patient"} /\ ~ Free /\ Plugin
    /\ UNCHANGED <<half, filesVars>>

BuildSpec ==
    /\ BuildInit /\ [][BuildNext]_allVars
    /\ WF_allVars(HostRuns) /\ WF_allVars(ClockRuns) /\ WF_allVars(PluginRuns)
-----------------------------------------------------------------------------
\* With a deadline every invocation ends, also one of a plugin that hangs.
\* Without one, an exchange with a plugin that does its work does not
\* deadlock: whether it reads first, answers first or does both at once, and
\* however large request and response are next to the pipes, the compiler
\* gets the whole response.
InvocationEnds ==
    /\ <>(half = "files" \/ pc = "done")
    /\ (half = "patient" /\ pc = "top") ~>
          (result \in {"ok_files", "internal"} /\ got = RespLen)

\* Whatever sequence of plugins and entries wrote it, a file that was written
\* without a disk error is its last complete version with every later
\* insertion in place: in order, none lost, no marker consumed.
InsertionsInOrder == Files!InsertionsInOrder

\* The build fails exactly when something was not applied: a failing plugin
\* does not stop the ones after it, and a later success does not hide an
\* earlier failure.
FailuresAreReported == Files!FailuresAreReported
=============================================================================
