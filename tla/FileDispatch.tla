---------------------------- MODULE FileDispatch ----------------------------
(***************************************************************************)
(* file_dispatch.py: the asyncio loop that checks the disks and selects    *)
(* one, and watchdog's thread, which moves every new file from the         *)
(* temporary file system to the selected disk while auto_expo may still be *)
(* writing it.                                                             *)
(***************************************************************************)
EXTENDS Naturals, Sequences, FiniteSets

CONSTANTS
    FS,      \* FS_CANDIDATE, numbered in sorted order
    Files,   \* files auto_expo writes
    Days     \* values of datetime.now().day

ASSUME DispatchAssumption ==
    FS # {} /\ FS \subseteq Nat /\ IsFiniteSet(FS) /\ Days \subseteq Nat /\ Days # {}

VARIABLES
    health,     \* each disk: "ok", "full" (below the threshold), "dead" (errors), "hung"
    loop,       \* checkCandidate: "wait", "sleep", or "gone" after its exception
    verdict,    \* what doCheck says of a disk: "keep", "drop", or "pending"
    select,     \* SELECT, the disk new files go to
    source,     \* a file on the temporary file system: "none", "part", "whole"
    writer,     \* auto_expo and the file: "none", "writing", "done"
    events,     \* created files, in the order watchdog tells of them
    mover,      \* watchdog's thread: [file, dest, at]; no file: 0
    copy        \* what of a file is on a disk: "early" is a copy of an unfinished file

checkVars == <<loop, verdict, select>>
fileVars == <<source, writer, events, mover, copy>>
dispatchVars == <<health, checkVars, fileVars>>

Idle == [at |-> "idle", file |-> 0, dest |-> 0]
\* The element of index n, from 0, of the sorted set.
Nth(S, n) == CHOOSE d \in S : Cardinality({e \in S : e < d}) = n
Today(S) == Nth(S, (CHOOSE day \in Days : TRUE) % Cardinality(S))

DispatchInit ==
    /\ health = [d \in FS |-> "ok"]
    /\ loop = "sleep"
    /\ verdict = [d \in FS |-> "pending"]
    /\ select = Today(FS)
    /\ source = [f \in Files |-> "none"]
    /\ writer = [f \in Files |-> "none"]
    /\ events = <<>>
    /\ mover = Idle
    /\ copy = [f \in Files |-> "none"]

-----------------------------------------------------------------------------
(* auto_expo and the file system *)

CreateFile(f) ==
    /\ writer[f] = "none"
    /\ writer' = [writer EXCEPT ![f] = "writing"]
    /\ source' = [source EXCEPT ![f] = "part"]
    /\ events' = Append(events, f)
    /\ UNCHANGED <<health, checkVars, mover, copy>>

\* The rest is written through the open descriptor: into the file if it is still
\* there, else into nothing that has a name.
FinishFile(f) ==
    /\ writer[f] = "writing"
    /\ writer' = [writer EXCEPT ![f] = "done"]
    /\ source' = [source EXCEPT ![f] = IF @ = "part" THEN "whole" ELSE @]
    /\ UNCHANGED <<health, checkVars, events, mover, copy>>

DiskChanges == \E d \in FS :
    /\ health' \in {[health EXCEPT ![d] = h] : h \in {"ok", "full", "dead", "hung"} \ {health[d]}}
    /\ UNCHANGED <<checkVars, fileVars>>

-----------------------------------------------------------------------------
(* checkCandidate *)

\* doCheck runs in a thread per disk: no space or any error drops the disk, and a
\* disk that hangs gives no answer.
Answer(d) ==
    CASE health[d] = "ok" -> "keep" [] health[d] = "hung" -> "pending" [] OTHER -> "drop"

DoCheck(d) ==
    /\ loop = "wait"
    /\ verdict[d] = "pending" /\ Answer(d) # "pending"
    /\ verdict' = [verdict EXCEPT ![d] = Answer(d)]
    /\ UNCHANGED <<health, loop, select, fileVars>>

StartChecks ==
    /\ loop = "sleep"
    /\ loop' = "wait"
    /\ UNCHANGED <<health, verdict, select, fileVars>>

\* All have answered, or the wait has timed out: a pending disk stays a candidate.
\* With no candidate left the division fails, and nothing runs the task again.
Candidates == {d \in FS : verdict[d] # "drop"}

SelectTarget ==
    /\ loop = "wait"
    /\ \A d \in FS : verdict[d] # "pending" \/ health[d] = "hung"
    /\ IF Candidates = {}
       THEN loop' = "gone" /\ UNCHANGED select
       ELSE /\ \E day \in Days : select' = Nth(Candidates, day % Cardinality(Candidates))
            /\ loop' = "sleep"
    /\ verdict' = [d \in FS |-> "pending"]
    /\ UNCHANGED <<health, fileVars>>

-----------------------------------------------------------------------------
(* on_created: one event after the other, on watchdog's thread *)

\* SELECT is read once, at the beginning.
OnCreated ==
    /\ mover = Idle /\ events # <<>>
    /\ mover' = [at |-> "mkdir", file |-> Head(events), dest |-> select]
    /\ events' = Tail(events)
    /\ UNCHANGED <<health, checkVars, source, writer, copy>>

Mkdir ==
    /\ mover.at = "mkdir" /\ health[mover.dest] \in {"ok", "full"}
    /\ mover' = [mover EXCEPT !.at = "copy"]
    /\ UNCHANGED <<health, checkVars, source, writer, events, copy>>

\* shutil.move between file systems copies, then removes the original.
Copy ==
    /\ mover.at = "copy" /\ health[mover.dest] \in {"ok", "full"}
    /\ copy' = [copy EXCEPT ![mover.file] =
                    IF source[mover.file] = "whole" THEN "whole" ELSE "early"]
    /\ mover' = [mover EXCEPT !.at = "unlink"]
    /\ UNCHANGED <<health, checkVars, source, writer, events>>

\* The disk fails or really runs out of space in the middle: an incomplete copy may be left,
\* and the original stays.
UnlinkAnyway(f) == source' = [source EXCEPT ![f] = "none"]
KeepSource(f) == UNCHANGED source

MoveFails ==
    /\ mover.at \in {"mkdir", "copy"} /\ health[mover.dest] \in {"dead", "full"}
    /\ mover.at = "mkdir" => health[mover.dest] = "dead"
    /\ copy' \in {copy, [copy EXCEPT ![mover.file] = "part"]}
    /\ mover.at = "mkdir" => copy' = copy
    /\ KeepSource(mover.file)
    /\ mover' = Idle
    /\ UNCHANGED <<health, checkVars, writer, events>>

Unlink ==
    /\ mover.at = "unlink"
    /\ source' = [source EXCEPT ![mover.file] = "none"]
    /\ mover' = Idle
    /\ UNCHANGED <<health, checkVars, writer, events, copy>>

DispatchNext ==
    \/ \E f \in Files : CreateFile(f) \/ FinishFile(f)
    \/ DiskChanges
    \/ StartChecks \/ (\E d \in FS : DoCheck(d)) \/ SelectTarget
    \/ OnCreated \/ Mkdir \/ Copy \/ MoveFails \/ Unlink

DispatchSpec == DispatchInit /\ [][DispatchNext]_dispatchVars

-----------------------------------------------------------------------------
DispatchTypeOK ==
    /\ health \in [FS -> {"ok", "full", "dead", "hung"}]
    /\ loop \in {"wait", "sleep", "gone"}
    /\ verdict \in [FS -> {"keep", "drop", "pending"}]
    /\ select \in FS
    /\ source \in [Files -> {"none", "part", "whole"}]
    /\ writer \in [Files -> {"none", "writing", "done"}]
    /\ events \in Seq(Files)
    /\ mover \in [at : {"idle", "mkdir", "copy", "unlink"}, file : Files \cup {0},
                  dest : FS \cup {0}]
    /\ copy \in [Files -> {"none", "part", "early", "whole"}]

\* A file that auto_expo has finished is whole, at its place or on a disk, unless it
\* was copied before it was finished: neither a failing disk nor a move that breaks
\* off loses it (on_created).
FinishedFilesKept ==
    \A f \in Files : writer[f] = "done" =>
        source[f] = "whole" \/ copy[f] \in {"whole", "early"}
=============================================================================
