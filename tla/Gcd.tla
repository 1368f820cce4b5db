-------------------------------- MODULE Gcd --------------------------------
(***************************************************************************)
(* The polls of uSockets on Grand Central Dispatch: each poll has a read   *)
(* and a write source, which are created suspended, must be resumed as     *)
(* often as they were suspended, and must not be released suspended.       *)
(***************************************************************************)
EXTENDS Naturals

CONSTANT Polls

Readable == "read"
Writable == "write"
Sources == {Readable, Writable}

VARIABLES
    stage,      \* of a poll: "none", "inited", "started", "stopped"
    polled,     \* its events; before us_poll_start whatever malloc left there
    suspended,  \* how often each of its sources is suspended
    misuse      \* a source was resumed once too often, or released suspended

gcdVars == <<stage, polled, suspended, misuse>>

GcdInit ==
    /\ stage = [p \in Polls |-> "none"]
    /\ polled = [p \in Polls |-> {}]
    /\ suspended = [p \in Polls |-> [s \in Sources |-> 0]]
    /\ misuse = FALSE

\* dispatch_resume and dispatch_suspend, for the sources R and S of a poll.
Resumed(count, R, S) ==
    [s \in Sources |-> IF s \in R /\ count[s] > 0 THEN count[s] - 1
                       ELSE IF s \in S THEN count[s] + 1 ELSE count[s]]
OverResumed(count, R) == \E s \in R : count[s] = 0

\* us_poll_init
Created == [s \in Sources |-> 1]
Init_(p) ==
    /\ stage[p] = "none"
    /\ stage' = [stage EXCEPT ![p] = "inited"]
    /\ suspended' = [suspended EXCEPT ![p] = Created]
    /\ UNCHANGED <<polled, misuse>>

\* us_poll_start
Start(p) ==
    /\ stage[p] = "inited"
    /\ \E E \in SUBSET Sources \ {{}} :
         /\ polled' = [polled EXCEPT ![p] = E]
         /\ suspended' = [suspended EXCEPT ![p] = Resumed(suspended[p], E, {})]
         /\ misuse' = (misuse \/ OverResumed(suspended[p], E))
    /\ stage' = [stage EXCEPT ![p] = "started"]

\* us_poll_change: what it does to the counts of a poll that polls for old.
ChangedIgnoringOld(count, old, new) == Resumed(count, new, old)
Changed(count, old, new) == Resumed(count, new \ old, old \ new)

Change(p) ==
    /\ stage[p] = "started"
    /\ \E E \in SUBSET Sources :
         /\ polled' = [polled EXCEPT ![p] = E]
         /\ suspended' = [suspended EXCEPT ![p] = Changed(suspended[p], polled[p], E)]
         /\ misuse' = (misuse \/ OverResumed(suspended[p], E \ polled[p]))
    /\ UNCHANGED stage

\* us_poll_stop
Stop(p) ==
    /\ stage[p] = "started"
    /\ stage' = [stage EXCEPT ![p] = "stopped"]
    /\ suspended' = [suspended EXCEPT ![p] = Resumed(suspended[p], {}, polled[p])]
    /\ polled' = [polled EXCEPT ![p] = {}]
    /\ UNCHANGED misuse

\* us_poll_free, and the first half of us_poll_resize: all sources are resumed, then
\* released.
Released(p) ==
    LET count == Changed(suspended[p], polled[p], Sources)
    IN misuse' = (misuse \/ OverResumed(suspended[p], Sources \ polled[p])
                         \/ \E s \in Sources : count[s] > 0)

Free(p) ==
    /\ stage[p] = "stopped"
    /\ stage' = [stage EXCEPT ![p] = "none"]
    /\ Released(p)
    /\ suspended' = [suspended EXCEPT ![p] = [s \in Sources |-> 0]]
    /\ polled' = [polled EXCEPT ![p] = {}]

\* us_poll_resize when the poll moves: new sources, started for the events as they were.
ResizeGcd(p) ==
    /\ stage[p] = "started"
    /\ Released(p)
    /\ suspended' = [suspended EXCEPT ![p] = Resumed(Created, polled[p], {})]
    /\ UNCHANGED <<stage, polled>>

GcdNext == \E p \in Polls :
    Init_(p) \/ Start(p) \/ Change(p) \/ Stop(p) \/ Free(p) \/ ResizeGcd(p)

GcdSpec == GcdInit /\ [][GcdNext]_gcdVars

-----------------------------------------------------------------------------
GcdTypeOK ==
    /\ stage \in [Polls -> {"none", "inited", "started", "stopped"}]
    /\ polled \in [Polls -> SUBSET Sources]
    /\ suspended \in [Polls -> [Sources -> 0..2]]
    /\ misuse \in BOOLEAN

\* Through any sequence of changes, resizes and the final stop, a started poll's source
\* runs exactly when the poll polls for it, and none is released while suspended or
\* resumed while running, which dispatch answers by a crash (gcd.c).
SourcesBalanced ==
    /\ ~misuse
    /\ \A p \in Polls : stage[p] = "started" =>
         \A s \in Sources : suspended[p][s] = IF s \in polled[p] THEN 0 ELSE 1
=============================================================================
