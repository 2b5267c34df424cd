-------------------------------- MODULE Watch --------------------------------
(***************************************************************************)
(* Watch mode of bebopc: cmd_watch and its watcher on macOS, the only      *)
(* platform that has one.  FSEvents calls back on a thread of its own;     *)
(* the callback puts events into a ring and signals a semaphore for each;  *)
(* the main loop polls, notes what changed and, once nothing has changed   *)
(* for a while, compiles.                                                  *)
(*                                                                         *)
(* The file system and FSEvents are external: every change is reported in  *)
(* order, in batches, with all the flags that apply to it; the two halves  *)
(* of a rename follow each other; and the kernel may give up and report    *)
(* "scan everything" instead.                                              *)
(***************************************************************************)
EXTENDS Naturals, Sequences, FiniteSets

CONSTANTS
    DiskFiles,        \* paths below the watched root
    Watched,      \* those that pass the filter of sources and excludes
    Root,         \* the path of the watched directory
    RingCap,      \* FSW_EVENT_BUFFER_SIZE
    PollMax,      \* FSW_MAX_EVENTS_PER_POLL
    MaxChanged,   \* WATCH_MAX_CHANGED
    MaxEdits      \* bound on the changes of the file system

ASSUME WatchAssumption ==
    /\ Watched \subseteq DiskFiles /\ Root \notin DiskFiles
    /\ {RingCap, PollMax, MaxChanged} \subseteq Nat \ {0} /\ MaxEdits \in Nat

VARIABLES
    \* the file system and FSEvents
    content,      \* per file, its inode and the edit that gave it its content
    edits,        \* number of changes so far
    reports,      \* changes FSEvents has yet to report
    callback,     \* the batch a running callback got; <<>> when none runs
    \* the watcher
    mutex,        \* "free" or "main"; the callback's section is one step
    ring,         \* events, event_head, event_tail and event_count
    semaphore,
    linked,       \* the watch is in the table of the platform
    \* cmd_watch
    checkOnly, mainPc, needsRebuild, changed,
    quiet,        \* debounce_ms have passed since last_event_time
    toRead,       \* the files the compiler was given
    compiled,     \* per file, the content that was compiled last
    interrupted,
    \* history, for the properties only
    lost,         \* files with a change that the code dropped
    overdrawn     \* polls that took the permit of an event they left

fsVars    == <<content, edits, reports>>
fswVars   == <<mutex, ring, semaphore, linked, overdrawn>>
noteVars  == <<needsRebuild, changed, quiet>>
buildVars == <<toRead, compiled>>
watchVars == <<fsVars, callback, fswVars, checkOnly, mainPc, noteVars, buildVars, interrupted, lost>>

Absent == [inode |-> 0, edit |-> 0]

WatchInit ==
    /\ content = [f \in DiskFiles |-> IF f \in Watched THEN [inode |-> 1, edit |-> 0] ELSE Absent]
    /\ edits = 0 /\ reports = <<>> /\ callback = <<>>
    /\ mutex = "free" /\ ring = <<>> /\ semaphore = 0 /\ linked = TRUE
    /\ checkOnly \in BOOLEAN
    /\ needsRebuild = FALSE /\ changed = {} /\ quiet = FALSE
    \* Without check_only a first build follows the start of the watch.
    /\ mainPc = IF checkOnly THEN "poll" ELSE "compile"
    /\ toRead = IF checkOnly THEN {} ELSE Watched
    /\ compiled = IF checkOnly THEN content ELSE [f \in DiskFiles |-> Absent]
    /\ interrupted = FALSE /\ lost = {} /\ overdrawn = 0
-----------------------------------------------------------------------------
(***************************************************************************)
(* The file system (external).                                             *)
(***************************************************************************)
\* A report of FSEvents: about lists the files it stands for.
Report(flags, path, inode) ==
    [flags |-> flags, path |-> path, inode |-> inode, about |-> {path}]

Edit(new, rs) ==
    /\ edits < MaxEdits /\ edits' = edits + 1
    /\ content' = new
    /\ reports' = reports \o rs
    /\ UNCHANGED <<callback, fswVars, checkOnly, mainPc, noteVars, buildVars, interrupted, lost>>

Write(f) ==
    LET inode == IF content[f] = Absent THEN edits + 2 ELSE content[f].inode
        flags == IF content[f] = Absent THEN {"created", "modified"} ELSE {"modified"}
    IN  Edit([content EXCEPT ![f] = [inode |-> inode, edit |-> edits + 1]],
             <<Report(flags, f, inode)>>)

Delete(f) ==
    /\ content[f] # Absent
    /\ Edit([content EXCEPT ![f] = Absent], <<Report({"removed"}, f, content[f].inode)>>)

Move(f, g) ==
    /\ f # g /\ content[f] # Absent
    /\ Edit([content EXCEPT ![f] = Absent, ![g] = content[f]],
            <<Report({"renamed"}, f, content[f].inode), Report({"renamed"}, g, content[f].inode)>>)

About(s) == UNION {s[n].about : n \in 1 .. Len(s)}

\* UserDropped, KernelDropped, MustScanSubDirs.
KernelDrops ==
    /\ Len(reports) > 1
    /\ reports' = <<[Report({"scan"}, Root, 0) EXCEPT !.about = About(reports)]>>
    /\ UNCHANGED <<content, edits, callback, fswVars, checkOnly, mainPc, noteVars, buildVars,
                   interrupted, lost>>

CallbackStarts ==
    /\ callback = <<>> /\ reports # <<>> /\ mainPc # "gone"
    /\ \E n \in 1 .. Len(reports) :
          /\ callback' = SubSeq(reports, 1, n)
          /\ reports' = SubSeq(reports, n + 1, Len(reports))
    /\ UNCHANGED <<content, edits, fswVars, checkOnly, mainPc, noteVars, buildVars, interrupted, lost>>
-----------------------------------------------------------------------------
(***************************************************************************)
(* The callback.                                                           *)
(***************************************************************************)
Event(r, action) == [action |-> action, path |-> r.path, about |-> r.about]

\* The second half of a rename follows in the same batch.
Paired(batch, n) ==
    /\ n < Len(batch)
    /\ "renamed" \in batch[n].flags \cap batch[n + 1].flags
    /\ batch[n].inode = batch[n + 1].inode

\* The events of one report: a flag that the file's existence contradicts
\* makes none.
EventsAt(r) ==
    LET exists == content[r.path] # Absent
        if(flag, cond, action) == IF flag \in r.flags /\ cond THEN <<Event(r, action)>> ELSE <<>>
    IN  IF "scan" \in r.flags THEN <<Event(r, "modify")>>
        ELSE IF "renamed" \in r.flags THEN <<Event(r, IF exists THEN "add" ELSE "delete")>>
        ELSE if("created", exists, "add") \o if("modified", TRUE, "modify")
               \o if("removed", ~ exists, "delete")

EventsOf(batch) ==
    LET from[n \in 1 .. Len(batch) + 2] ==
          IF n > Len(batch) THEN <<>>
          ELSE IF Paired(batch, n)
               THEN <<[Event(batch[n + 1], "rename") EXCEPT !.about = @ \cup batch[n].about]>>
                      \o from[n + 2]
               ELSE EventsAt(batch[n]) \o from[n + 1]
    IN  from[1]

Least(a, b) == IF a < b THEN a ELSE b

\* _fsw_buffer_push: what does not fit is dropped, and nobody is told.
Pushed(events) == SubSeq(events, 1, Least(RingCap - Len(ring), Len(events)))

Signals_Once(pushed) == IF pushed = <<>> THEN 0 ELSE 1
Signals(pushed) == Len(pushed)

CallbackRuns ==
    /\ callback # <<>> /\ mutex = "free"
    /\ LET events == IF linked THEN EventsOf(callback) ELSE <<>>
           pushed == Pushed(events)
       IN  /\ ring' = ring \o pushed
           /\ semaphore' = semaphore + Signals(pushed)
           /\ lost' = lost \cup About(SubSeq(events, Len(pushed) + 1, Len(events)))
    /\ callback' = <<>>
    /\ UNCHANGED <<fsVars, mutex, linked, overdrawn, checkOnly, mainPc, noteVars, buildVars,
                   interrupted>>
-----------------------------------------------------------------------------
(***************************************************************************)
(* bebop_fsw_poll and the callback of cmd_watch.                           *)
(***************************************************************************)
PollWakes ==
    /\ mainPc = "poll" /\ ~ interrupted /\ semaphore > 0
    /\ semaphore' = semaphore - 1
    /\ mainPc' = "drain"
    /\ UNCHANGED <<fsVars, callback, mutex, ring, linked, overdrawn, checkOnly, noteVars,
                   buildVars, interrupted, lost>>

WaitTimesOut ==
    /\ mainPc = "poll" /\ ~ interrupted /\ semaphore = 0
    /\ mainPc' = "loop"
    /\ UNCHANGED <<fsVars, callback, fswVars, checkOnly, noteVars, buildVars, interrupted, lost>>

\* The root itself counts only when it is deleted or renamed.
ShouldReport(e) == IF e.path = Root THEN e.action \in {"delete", "rename"} ELSE e.path \in Watched

Notes(e) == ShouldReport(e) /\ e.action \in {"add", "modify", "delete"}

\* A full list takes no more.
AddChanged(fs, e) == IF Cardinality(fs) < MaxChanged THEN fs \cup {e.path} ELSE fs

\* A poll pops one event for the permit it waited for and one for each further
\* permit; after the last one it may pop, it still takes a permit.
Popped == Least(semaphore + 1, PollMax)
Taken  == Least(semaphore, Popped)

\* The list of changed files after the events.
ChangedAfter(events) ==
    LET list[n \in 0 .. Len(events)] ==
          IF n = 0 THEN changed
          ELSE IF Notes(events[n]) THEN AddChanged(list[n - 1], events[n]) ELSE list[n - 1]
    IN  list[Len(events)]

Drain ==
    /\ mainPc = "drain" /\ mutex = "free"
    /\ LET events == SubSeq(ring, 1, Popped)
           noted == {n \in 1 .. Len(events) : Notes(events[n])}
       IN  /\ ring' = SubSeq(ring, Popped + 1, Len(ring))
           /\ semaphore' = semaphore - Taken
           /\ overdrawn' = overdrawn + Taken - (Len(events) - 1)
           /\ changed' = ChangedAfter(events)
           /\ needsRebuild' = (needsRebuild \/ noted # {})
           /\ quiet' = (quiet /\ noted = {})
           /\ lost' = lost \cup (UNION {events[n].about : n \in (1 .. Len(events)) \ noted})
                           \cup (IF checkOnly THEN {events[n].path : n \in noted} \ changed'
                                 ELSE {})
    /\ mainPc' = "loop"
    /\ UNCHANGED <<fsVars, callback, mutex, linked, checkOnly, buildVars, interrupted>>

DebouncePasses ==
    /\ ~ quiet /\ mainPc # "gone"
    /\ quiet' = TRUE
    /\ UNCHANGED <<fsVars, callback, fswVars, checkOnly, mainPc, needsRebuild, changed, buildVars,
                   interrupted, lost>>
-----------------------------------------------------------------------------
(***************************************************************************)
(* The rest of the loop.                                                   *)
(***************************************************************************)
NothingToDo_Forgets ==
    /\ mainPc = "loop" /\ ~ (needsRebuild /\ quiet)
    /\ mainPc' = "poll" /\ needsRebuild' = FALSE
    /\ UNCHANGED <<fsVars, callback, fswVars, checkOnly, changed, quiet, buildVars, interrupted,
                   lost>>
NothingToDo ==
    /\ mainPc = "loop" /\ ~ (needsRebuild /\ quiet)
    /\ mainPc' = "poll"
    /\ UNCHANGED <<fsVars, callback, fswVars, checkOnly, noteVars, buildVars, interrupted, lost>>

\* watch_compile: a check is given the files that changed, a build collects
\* the files that exist.
StartCompile ==
    /\ mainPc = "loop" /\ needsRebuild /\ quiet
    /\ mainPc' = "compile" /\ needsRebuild' = FALSE
    /\ LET gone == IF checkOnly THEN {} ELSE {f \in Watched : content[f] = Absent}
       IN  /\ toRead' = (IF checkOnly THEN changed ELSE Watched) \ gone
           /\ compiled' = [f \in DiskFiles |-> IF f \in gone THEN Absent ELSE compiled[f]]
           /\ lost' = lost \ gone
    /\ UNCHANGED <<fsVars, callback, fswVars, checkOnly, changed, quiet, interrupted>>

\* bebop_parse reads all the files first.  One it cannot read ends the
\* compilation with no result, and so with no error that cmd_build, cmd_check
\* or watch_check_files would count: each of them reports success.
Compile ==
    /\ mainPc = "compile"
    /\ mainPc' = "poll" /\ changed' = {} /\ toRead' = {}
    /\ LET missing == {f \in toRead : content[f] = Absent}
           parsed  == IF missing = {} THEN toRead ELSE {}
       IN  /\ compiled' = [f \in DiskFiles |-> IF f \in parsed \cup missing THEN content[f]
                                                                        ELSE compiled[f]]
           /\ lost' = (lost \ parsed) \cup (IF missing = {} THEN {} ELSE toRead \ missing)
     /\ UNCHANGED <<fsVars, callback, fswVars, checkOnly, needsRebuild, quiet, interrupted>>
-----------------------------------------------------------------------------
(***************************************************************************)
(* The end: a signal, then bebop_fsw_destroy.                              *)
(***************************************************************************)
Interrupt ==
    /\ ~ interrupted /\ interrupted' = TRUE
    /\ UNCHANGED <<fsVars, callback, fswVars, checkOnly, mainPc, noteVars, buildVars, lost>>

\* _fsw_platform_remove_watch takes the watch out of the table under the lock
\* and gives it up before it waits.
HeldWhileInvalidating_Held == "main"
HeldWhileInvalidating == "free"

Unlink ==
    /\ mainPc = "poll" /\ interrupted /\ mutex = "free"
    /\ linked' = FALSE /\ mainPc' = "invalidate" /\ mutex' = HeldWhileInvalidating
    /\ UNCHANGED <<fsVars, callback, ring, semaphore, overdrawn, checkOnly, noteVars, buildVars,
                   interrupted, lost>>

\* FSEventStreamInvalidate returns when no callback runs; then all is freed.
Invalidate ==
    /\ mainPc = "invalidate" /\ callback = <<>>
    /\ mainPc' = "gone" /\ mutex' = "free" /\ ring' = <<>> /\ semaphore' = 0 /\ overdrawn' = 0
    /\ UNCHANGED <<fsVars, callback, linked, checkOnly, noteVars, buildVars, interrupted, lost>>
-----------------------------------------------------------------------------
FileSystem ==
    \/ \E f \in DiskFiles : Write(f) \/ Delete(f)
    \/ \E f, g \in DiskFiles : Move(f, g)
    \/ KernelDrops

Main ==
    \/ PollWakes \/ WaitTimesOut \/ Drain \/ NothingToDo \/ StartCompile \/ Compile
    \/ Unlink \/ Invalidate

WatchNext == FileSystem \/ CallbackStarts \/ CallbackRuns \/ DebouncePasses \/ Main \/ Interrupt

\* Threads run and time passes; nobody has to edit or to interrupt.
Fairness ==
    /\ WF_watchVars(Main) /\ WF_watchVars(DebouncePasses)
    /\ WF_watchVars(CallbackStarts) /\ WF_watchVars(CallbackRuns)

WatchSpec == WatchInit /\ [][WatchNext]_watchVars /\ Fairness
-----------------------------------------------------------------------------
\* The values the variables take: above all, the ring and the list of changed
\* files never hold more than their arrays.
WatchTypeOK ==
    /\ mutex \in {"free", "main"} /\ semaphore \in Nat /\ overdrawn \in Nat
    /\ Len(ring) <= RingCap /\ changed \subseteq Watched /\ Cardinality(changed) <= MaxChanged
    /\ mainPc \in {"poll", "drain", "loop", "compile", "invalidate", "gone"}
    /\ toRead \subseteq Watched /\ lost \subseteq DiskFiles

\* The semaphore has a permit for every event in the ring, except one for each
\* poll that stopped at its limit and had taken the next event's permit.  So a
\* poll that wakes always finds an event, and a burst of more than
\* FSW_MAX_EVENTS_PER_POLL events leaves events that no permit announces.
PermitsMatchEvents ==
    semaphore + overdrawn + (IF mainPc = "drain" THEN 1 ELSE 0) = Len(ring)

\* Every change of a watched file is compiled after it was made, unless the
\* watcher is told to stop, an event is stuck behind the semaphore, or the
\* change was one that the code drops: the ring was full, the kernel asked for
\* a scan, both halves of a rename came together, a check had more changed
\* files than its list holds, or a file of the same compilation was missing.
ChangesAreCompiled ==
    \A f \in Watched :
        (compiled[f] # content[f]) ~>
            (compiled[f] = content[f] \/ f \in lost \/ overdrawn > 0 \/ interrupted)

\* After an interrupt the watcher is torn down, also while a callback is in
\* progress, which needs the lock that remove_watch takes.
TeardownEnds == interrupted ~> mainPc = "gone"
=============================================================================
