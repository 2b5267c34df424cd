------------------------------- MODULE MCBuild -------------------------------
(***************************************************************************)
(* The command line tool for TLC: a behaviour is of Build or of Watch,     *)
(* which share no state, and the other does not move.                      *)
(*                                                                         *)
(* Request and response are larger than the pipes that carry them.  The    *)
(* responses are all sequences of up to MaxEntries entries, among them a   *)
(* file with its marker twice, a file without marker, insertions at a      *)
(* marker that exists and at one that does not, an unsafe name and an      *)
(* empty entry.                                                            *)
(***************************************************************************)
EXTENDS Build, Watch

CONSTANTS file1, file2, marker, plain, insert1, insert2, MaxEntries

MCNames == {file1, file2}
MCPoints == {marker}
MCTexts == {plain, insert1, insert2}

File(n, c) == [name |-> n, point |-> NoPoint, content |-> c]
Insertion(n, c) == [name |-> n, point |-> marker, content |-> c]

MCEntries ==
    {File(file1, <<marker>>), File(file1, <<plain, marker, marker>>),
     File(file2, <<plain>>), File(UnsafeName, <<plain>>), File(NoName, <<plain>>),
     Insertion(file1, <<insert1>>), Insertion(file1, <<insert2>>),
     Insertion(file2, <<insert1>>)}

MCResponses == UNION {[1 .. k -> MCEntries] : k \in 0 .. MaxEntries}

VARIABLE part    \* "build" or "watch"
mcVars == <<allVars, watchVars, part>>

\* The part that does not move starts in one state.
MCInit ==
    /\ BuildInit /\ WatchInit /\ part \in {"build", "watch"}
    /\ part = "build" => checkOnly
    /\ part = "watch" => half = "files" /\ plugin.style = "any"

Building(A) == part = "build" /\ A /\ UNCHANGED <<watchVars, part>>
Watching(A) == part = "watch" /\ A /\ UNCHANGED <<allVars, part>>

\* After the teardown the program is over.
Over == mainPc = "gone" /\ UNCHANGED watchVars

MCNext == Building(BuildNext) \/ Watching(WatchNext \/ Over)

\* The fairness of BuildSpec and of WatchSpec.
MCFairness ==
    /\ WF_mcVars(Building(HostRuns)) /\ WF_mcVars(Building(ClockRuns))
    /\ WF_mcVars(Building(PluginRuns))
    /\ WF_mcVars(Watching(Main)) /\ WF_mcVars(Watching(DebouncePasses))
    /\ WF_mcVars(Watching(CallbackStarts)) /\ WF_mcVars(Watching(CallbackRuns))

MCSpec == MCInit /\ [][MCNext]_mcVars /\ MCFairness
=============================================================================
