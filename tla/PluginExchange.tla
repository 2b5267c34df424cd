--------------------------- MODULE PluginExchange ---------------------------
(***************************************************************************)
(* One invocation of a code generator plugin by the compiler               *)
(* (bebopc/src/cli/bebopc_runner.c, POSIX build): the compiler spawns the  *)
(* plugin with a pipe on its stdin and one on its stdout,                  *)
(* bebopc_process_exchange writes the request and drains the response in   *)
(* one poll loop under a deadline, bebopc_process_wait_timeout reaps the   *)
(* process under a second deadline, and _invoke_plugin judges what it got. *)
(*                                                                         *)
(* Bytes are counted in chunks; a pipe holds PipeCap of them.  The plugin  *)
(* is external: it follows one of the styles below, or does anything a     *)
(* process can do to its two pipes.                                        *)
(*                                                                         *)
(* The clock moves only while the compiler is blocked in poll or between   *)
(* two calls of waitpid: what the compiler computes takes no time.         *)
(***************************************************************************)
EXTENDS Integers

CONSTANTS
    ReqLen,     \* chunks of the encoded request
    RespLen,    \* chunks of the complete response
    PipeCap,    \* chunks a pipe holds
    Timeout,    \* BEBOPC_PLUGIN_TIMEOUT_MS in clock ticks; 0 disables the deadlines
    Styles,     \* the plugin's possible behaviours
    Codes,      \* the exit codes a plugin can end with; 0 is success
    Faults      \* whether poll, read or realloc may fail

ASSUME SizesAssumption ==
    /\ ReqLen \in Nat /\ RespLen \in Nat /\ Timeout \in Nat
    /\ PipeCap \in Nat \ {0}
    /\ Codes \subseteq Nat
    /\ Faults \in BOOLEAN

\* "drain"   reads to end of file, then answers;
\* "stream"  answers chunk by chunk as it reads;
\* "eager"   answers before it reads anything;
\* "any"     reads, writes, closes, exits or hangs as it likes.
AllStyles == {"drain", "stream", "eager", "any"}

ASSUME StylesAssumption == Styles \subseteq AllStyles

VARIABLES
    pc,         \* where the compiler is
    written,    \* chunks of the request written
    got,        \* chunks of the response read
    inPipe,     \* chunks in the plugin's stdin pipe
    outPipe,    \* chunks in the plugin's stdout pipe
    fds,        \* the pipe ends the compiler holds: "stdin" to write, "stdout" to read
    revents,    \* the descriptors the last poll reported
    plugin,     \* the process: style, status, code, its pipe ends "in" and "out", chunks read and written
    now,        \* the monotonic clock
    deadline,   \* the deadline of the current phase
    exitCode,   \* what waiting returned; Killed for a signal
    result      \* what _invoke_plugin returns

host == <<pc, written, got, fds, revents, exitCode, result>>
pipes == <<inPipe, outPipe>>
time == <<now, deadline>>
vars == <<pc, written, got, inPipe, outPipe, fds, revents, plugin,
          now, deadline, exitCode, result>>

\* The code of a process that a signal ended, and of one that has not ended.
Killed == -1
NoCode == -2
ExitCodes == Codes \cup {0, NoCode, Killed}

ErrorCodes == {"io", "invalid_arg", "not_found", "internal", "parse"}

Pcs == {"spawn", "top", "poll", "write", "read", "wait", "judge", "done"}

\* Process status: not yet forked, running, exited but not waited for, reaped.
Statuses == {"none", "running", "zombie", "reaped"}

----------------------------------------------------------------------------
\* bebopc_process_t is calloc'ed with no descriptor and no process.
Init ==
    /\ pc = "spawn" /\ written = 0 /\ got = 0
    /\ inPipe = 0 /\ outPipe = 0
    /\ fds = {} /\ revents = {}
    /\ \E s \in Styles : plugin = [style |-> s, status |-> "none", code |-> NoCode,
                                   ends |-> {}, read |-> 0, wrote |-> 0]
    /\ now = 0 /\ deadline = 0 /\ exitCode = 0 /\ result = "none"

\* _invoke_plugin fails before a process exists: the output path is a file, there is no
\* such plugin, the request cannot be encoded or the fork fails.
Refuse ==
    /\ pc = "spawn"
    /\ pc' = "done"
    /\ result' \in {"invalid_arg", "not_found", "internal", "io"}
    /\ UNCHANGED <<written, got, fds, revents, exitCode, plugin>>
    /\ UNCHANGED pipes /\ UNCHANGED time

\* bebopc_process_spawn, and the head of bebopc_process_exchange: the deadline is set and
\* an empty request closes stdin at once.
Spawn ==
    /\ pc = "spawn"
    /\ pc' = "top"
    /\ fds' = IF ReqLen > 0 THEN {"stdin", "stdout"} ELSE {"stdout"}
    /\ plugin' = [plugin EXCEPT !.status = "running", !.ends = {"in", "out"}]
    /\ deadline' = now + Timeout
    /\ UNCHANGED <<written, got, revents, exitCode, result, now>> /\ UNCHANGED pipes

----------------------------------------------------------------------------
\* The poll loop of bebopc_process_exchange.

Expired == Timeout > 0 /\ now >= deadline

\* What poll reports: POLLOUT, POLLERR or POLLHUP on stdin, POLLIN or POLLHUP on stdout.
Ready ==
    {fd \in {"stdin", "stdout"} :
        \/ fd = "stdin" /\ fd \in fds /\ (inPipe < PipeCap \/ "in" \notin plugin.ends)
        \/ fd = "stdout" /\ (outPipe > 0 \/ "out" \notin plugin.ends)}

KillAndReap_NoWait(p) ==
    [p EXCEPT !.status = IF p.status = "running" THEN "zombie" ELSE @, !.ends = {},
              !.code = IF p.status = "running" THEN Killed ELSE @]

\* kill(pid, SIGKILL) followed by waitpid: a process that has already exited keeps its code.
KillAndReap(p) ==
    [p EXCEPT !.status = "reaped",
              !.ends = IF p.status = "running" THEN {} ELSE @,
              !.code = IF p.status = "running" THEN Killed ELSE @]

\* bebopc_process_exchange returned false: _invoke_plugin kills the plugin, waits for it
\* and cleans up; bebopc_process_free closes the descriptors.
ExchangeFails ==
    /\ plugin' = KillAndReap(plugin)
    /\ result' = "io" /\ pc' = "done"
    /\ fds' = {}
    /\ UNCHANGED <<written, got, revents, exitCode>>
    /\ UNCHANGED pipes /\ UNCHANGED time

Top_Rearms ==
    /\ pc = "top" /\ pc' = "poll" /\ deadline' = now + Timeout
    /\ UNCHANGED <<written, got, fds, revents, exitCode, result, plugin, now>>
    /\ UNCHANGED pipes

\* The top of the loop, up to the call of poll.
Top ==
    /\ pc = "top"
    /\ \/ ~Expired /\ pc' = "poll"
          /\ UNCHANGED <<written, got, fds, revents, exitCode, result, plugin>>
          /\ UNCHANGED pipes /\ UNCHANGED time
       \/ Expired /\ ExchangeFails

\* poll returns with events, or with none at the deadline.
Poll ==
    /\ pc = "poll" /\ Ready # {}
    /\ revents' = Ready /\ pc' = "write"
    /\ UNCHANGED <<written, got, fds, exitCode, result, plugin>>
    /\ UNCHANGED pipes /\ UNCHANGED time

PollTimesOut ==
    /\ pc = "poll" /\ Ready = {} /\ Expired
    /\ ExchangeFails

\* poll, realloc or read fail for good.
PollFails ==
    /\ Faults
    /\ pc = "poll" \/ (pc = "read" /\ "stdout" \in revents)
    /\ ExchangeFails

\* One write to stdin: as many chunks as the pipe takes, or an error because the plugin
\* no longer reads; the descriptor is closed after the last chunk and after an error.
FeedStdin(remaining) ==
    \/ "stdin" \in revents /\ "in" \in plugin.ends
       /\ \E n \in 1 .. remaining :
             /\ inPipe + n <= PipeCap
             /\ written' = written + n /\ inPipe' = inPipe + n
             /\ fds' = IF written + n = ReqLen THEN fds \ {"stdin"} ELSE fds
    \/ "stdin" \in revents /\ "in" \notin plugin.ends
       /\ fds' = fds \ {"stdin"} /\ UNCHANGED <<written, inPipe>>
    \/ "stdin" \notin revents /\ UNCHANGED <<written, inPipe, fds>>

Remaining == ReqLen - written

WriteRequest ==
    /\ pc = "write" /\ pc' = "read" /\ FeedStdin(Remaining)
    /\ UNCHANGED <<got, revents, exitCode, result, plugin, outPipe>>
    /\ UNCHANGED time

\* One read of stdout returning bytes.
ReadSome ==
    /\ outPipe > 0
    /\ \E n \in 1 .. outPipe : got' = got + n /\ outPipe' = outPipe - n
    /\ pc' = "top" /\ UNCHANGED time

\* read returns 0: the exchange is over and bebopc_process_wait_timeout sets its own deadline.
ReadEof ==
    /\ outPipe = 0 /\ "out" \notin plugin.ends
    /\ pc' = "wait" /\ deadline' = now + Timeout
    /\ UNCHANGED <<got, outPipe, now>>

\* Nothing to read (the only reader finds what poll reported: EAGAIN cannot happen).
NotReported ==
    /\ "stdout" \notin revents
    /\ pc' = "top" /\ UNCHANGED <<got, outPipe>> /\ UNCHANGED time

ReadResponse ==
    /\ pc = "read"
    /\ \/ NotReported
       \/ "stdout" \in revents /\ (ReadSome \/ ReadEof)
    /\ UNCHANGED <<written, fds, revents, exitCode, result, plugin, inPipe>>

----------------------------------------------------------------------------
\* bebopc_process_wait_timeout: waitpid with WNOHANG every 10 ms until the deadline, then
\* kill; with no deadline one blocking waitpid.
WaitReaps ==
    /\ pc = "wait" /\ plugin.status = "zombie"
    /\ plugin' = [plugin EXCEPT !.status = "reaped"]
    /\ exitCode' = plugin.code /\ pc' = "judge"
    /\ UNCHANGED <<written, got, fds, revents, result>>
    /\ UNCHANGED pipes /\ UNCHANGED time

WaitKills_Never ==
    /\ FALSE
    /\ UNCHANGED vars

WaitKills ==
    /\ pc = "wait" /\ Expired /\ plugin.status \in {"running", "zombie"}
    /\ plugin' = KillAndReap(plugin)
    /\ exitCode' = KillAndReap(plugin).code /\ pc' = "judge"
    /\ UNCHANGED <<written, got, fds, revents, result>>
    /\ UNCHANGED pipes /\ UNCHANGED time

\* What a response decodes to: a complete one may carry an error of the plugin, and
\* whether a truncated or overlong one still decodes is up to the decoder.
Decoded ==
    IF got = RespLen THEN {"generated", "error"} ELSE {"generated", "error", "undecodable"}

Verdict_AnyExit(decoded) ==
    IF got = 0 THEN "ok_empty"
    ELSE CASE decoded = "undecodable" -> "parse"
           [] decoded = "error" -> "internal"
           [] OTHER -> "ok_files"

Verdict(decoded) ==
    IF got = 0 THEN IF exitCode # 0 THEN "internal" ELSE "ok_empty"
    ELSE CASE decoded = "undecodable" -> "parse"
           [] decoded = "error" -> "internal"
           [] OTHER -> IF exitCode # 0 THEN "internal" ELSE "ok_files"

\* The rest of _invoke_plugin; "ok_files" goes on to _write_generated_files.
Judge ==
    /\ pc = "judge" /\ pc' = "done"
    /\ \E d \in Decoded : result' = Verdict(d)
    /\ fds' = {}
    /\ UNCHANGED <<written, got, revents, exitCode, plugin>>
    /\ UNCHANGED pipes /\ UNCHANGED time

----------------------------------------------------------------------------
\* The plugin process (external).

Free == plugin.style = "any"

\* Everything was read and the compiler has closed its end.
SawEof == inPipe = 0 /\ "stdin" \notin fds

Answered == plugin.wrote = RespLen

PluginReads ==
    /\ plugin.status = "running" /\ "in" \in plugin.ends /\ inPipe > 0
    /\ plugin.style = "eager" => Answered
    /\ inPipe' = inPipe - 1
    /\ plugin' = [plugin EXCEPT !.read = @ + 1]
    /\ UNCHANGED outPipe /\ UNCHANGED host /\ UNCHANGED time

PluginWrites ==
    /\ plugin.status = "running" /\ "out" \in plugin.ends
    /\ outPipe < PipeCap /\ ~Answered
    /\ CASE plugin.style = "drain" -> SawEof
         [] plugin.style = "stream" -> plugin.wrote < plugin.read \/ SawEof
         [] OTHER -> TRUE
    /\ outPipe' = outPipe + 1
    /\ plugin' = [plugin EXCEPT !.wrote = @ + 1]
    /\ UNCHANGED inPipe /\ UNCHANGED host /\ UNCHANGED time

\* A plugin that has done its work exits with 0, a free one whenever and however it likes,
\* possibly leaving a process of its own behind that still holds stdout.
PluginExits ==
    /\ plugin.status = "running"
    /\ Free \/ (SawEof /\ Answered)
    /\ \E c \in IF Free THEN Codes \cup {Killed} ELSE {0},
          held \in IF Free THEN {{}, {"out"}} ELSE {{}} :
          plugin' = [plugin EXCEPT !.status = "zombie", !.code = c, !.ends = @ \cap held]
    /\ UNCHANGED pipes /\ UNCHANGED host /\ UNCHANGED time

\* A free plugin closes one end early, or the process it left behind closes stdout.
PluginCloses ==
    /\ Free /\ plugin.status # "none"
    /\ \E e \in plugin.ends : plugin' = [plugin EXCEPT !.ends = @ \ {e}]
    /\ UNCHANGED pipes /\ UNCHANGED host /\ UNCHANGED time

\* Time passes while the compiler is blocked.
Blocked ==
    \/ pc = "poll" /\ Ready = {}
    \/ pc = "wait" /\ plugin.status = "running"

Tick ==
    /\ Timeout > 0 /\ Blocked /\ ~Expired
    /\ now' = now + 1
    /\ UNCHANGED <<deadline, plugin>> /\ UNCHANGED pipes /\ UNCHANGED host

Done == pc = "done" /\ UNCHANGED vars

Host == Refuse \/ Spawn \/ Top \/ Poll \/ PollTimesOut \/ WriteRequest \/ ReadResponse
        \/ WaitReaps \/ WaitKills \/ Judge

Plugin == PluginReads \/ PluginWrites \/ PluginExits

Next == Host \/ PollFails \/ Plugin \/ PluginCloses \/ Tick \/ Done

Spec == Init /\ [][Next]_vars

----------------------------------------------------------------------------
\* Types of the variables.
TypeOK ==
    /\ pc \in Pcs
    /\ written \in 0 .. ReqLen /\ got \in 0 .. RespLen
    /\ inPipe \in 0 .. PipeCap /\ outPipe \in 0 .. PipeCap
    /\ fds \subseteq {"stdin", "stdout"} /\ revents \subseteq {"stdin", "stdout"}
    /\ plugin \in [style : AllStyles, status : Statuses, code : ExitCodes,
                   ends : SUBSET {"in", "out"}, read : 0 .. ReqLen, wrote : 0 .. RespLen]
    /\ now \in Nat /\ deadline \in Nat
    /\ exitCode \in ExitCodes
    /\ result \in ErrorCodes \cup {"none", "ok_empty", "ok_files"}

\* Files are generated only from all the plugin wrote, after end of file, and from a plugin
\* that exited by itself with code 0: never from a prefix of a response that was still
\* being written, and never from one whose writer was killed (_invoke_plugin).
GeneratedFromWholeOutput ==
    result = "ok_files" =>
        /\ got = plugin.wrote /\ outPipe = 0 /\ "out" \notin plugin.ends
        /\ plugin.code = 0

\* However an invocation ends, the process it spawned has been waited for and both pipe
\* descriptors are closed: no zombie and no descriptor is left behind in a watch session.
NothingLeftBehind ==
    pc = "done" => /\ plugin.status \in {"none", "reaped"}
                   /\ fds = {}

\* The exchange is over within the timeout, however little at a time the plugin gives: the
\* rounds of the loop share one deadline.  Waiting for the process has a timeout of its own,
\* counted from end of file (bebopc_process_exchange, bebopc_process_wait_timeout).
EachPhaseInTime ==
    Timeout > 0 =>
        /\ pc \in {"spawn", "top", "poll", "write", "read"} => now <= Timeout
        /\ now <= 2 * Timeout

\* BEBOPC_PLUGIN_TIMEOUT_MS is the "wall-clock budget for one plugin invocation".  It is not:
\* each phase gets the whole of it.
OneBudget == Timeout > 0 => now <= Timeout
=============================================================================
