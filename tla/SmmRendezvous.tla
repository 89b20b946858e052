--------------------------- MODULE SmmRendezvous ---------------------------
(***************************************************************************)
(* The rendezvous of the processors in a system management interrupt       *)
(* (UefiCpuPkg/PiSmmCpuDxeSmm/MpService.c).                                *)
(*                                                                         *)
(* Each processor that receives an SMI checks in, one of them, the BSP,    *)
(* waits for the others (APs) as long as a time-out allows, runs the SMI   *)
(* handlers while the APs wait or run procedures for them, and all leave   *)
(* together.  They meet at semaphores, Counter and a Run for each of them, *)
(* and through plain flags.                                                *)
(*                                                                         *)
(* Each processor has a list of the steps it is yet to take, todo; the     *)
(* list is empty outside of SMM.  A step is one access to what they share. *)
(***************************************************************************)
EXTENDS Integers, Sequences, FiniteSets, SequencesExt

CONSTANTS
    N,        \* mNumberOfCpus
    Configs,  \* see below
    MaxSmi,   \* bound: SMIs of the platform
    MaxCalls, \* bound: service calls of the SMI handlers in one run
    Timely    \* no AP gives up in the moment in which the BSP comes

CPUs == 0 .. N - 1
None == -1

(***************************************************************************)
(* What a build and a processor may have: the mode of synchronisation,     *)
(* whether MTRRs are to be set in SMM, whether the BSP is elected, and     *)
(* whether the platform can tell if there is an SMI.                       *)
(***************************************************************************)
Config == [relaxed : BOOLEAN, mtrrs : BOOLEAN, elect : BOOLEAN, status : BOOLEAN]

ASSUME SmmAssumption ==
    /\ N \in Nat \ {0} /\ MaxSmi \in Nat /\ MaxCalls \in Nat /\ Timely \in BOOLEAN
    /\ Configs \subseteq Config

VARIABLES
    config,
    todo,       \* the steps of each processor
    pending,    \* whether an SMI is pending at each processor
    smi,        \* the SMI status bit of the platform
    counter,    \* Counter
    inside,     \* InsideSmm
    inSync,     \* AllCpusInSync
    bspIndex,   \* BspIndex
    present,    \* Present of each processor
    run,        \* Run of each processor
    busy,       \* whether Busy of each processor is held, or not initialised
    operation,  \* the processors whose Operation is SmmCpuSwitchBsp
    candidates, \* CandidateBsp; SwitchBsp is whether there is one
    \* history
    smis,       \* how many SMIs there were
    served,     \* whether handlers have run since the last one
    mtrr,       \* the MTRRs of each processor
    jobs        \* the processors that are to run a procedure

flags    == <<inside, inSync, bspIndex, present>>
sems     == <<counter, run, busy>>
requests == <<operation, candidates>>
platform == <<pending, smi, smis, served>>
rest     == <<config, mtrr, jobs>>
vars == <<todo, flags, sems, requests, platform, rest>>

-----------------------------------------------------------------------------
(***************************************************************************)
(* The programs of the processors.                                         *)
(***************************************************************************)
Step(do, x) == << [do |-> do, x |-> x] >>
S(do) == Step(do, 0)
When(c, steps) == IF c THEN steps ELSE << >>
Times(n, steps) == FlattenSeq([i \in 1 .. n |-> steps])

\* for (Index = mMaxNumberOfCpus; Index-- > 0;), but for p
ForOthers(p, do) ==
    FlattenSeq([i \in 1 .. N |-> When(N - i # p, Step(do, N - i))])

ReleaseAllAPs(p) == ForOthers(p, "release")
WaitForAllAPs(n) == Times(n, S("take"))

\* APs gather before the handlers run.
Early == ~config.relaxed \/ config.mtrrs

\* The handlers, and the end of what APs run for them
Handlers(p) == S("hold") \o Step("core", MaxCalls) \o ForOthers(p, "task")

BSPHandler(p) ==
    S("inside") \o S("present") \o S("clear")
    \o IF Early THEN S("arrive") \o S("sync") \o S("lock")
       ELSE Handlers(p) \o S("sync") \o S("lock")

\* Before the handlers, when the counter has been locked with n APs
Gathered(p, n) ==
    WaitForAllAPs(n)
    \o When(config.mtrrs,
            ReleaseAllAPs(p) \o S("save") \o WaitForAllAPs(n)
            \o ReleaseAllAPs(p) \o S("replace") \o WaitForAllAPs(n))

\* Mutant: the SMI status bit is cleared when the handlers have run.
Dismiss_Clear(p, n) ==
    S("clear") \o S("outside") \o ReleaseAllAPs(p) \o WaitForAllAPs(n)
    \o When(config.mtrrs, ReleaseAllAPs(p) \o S("restore") \o WaitForAllAPs(n))
    \o ReleaseAllAPs(p) \o S("update") \o S("absent") \o WaitForAllAPs(n)
    \o When(config.elect, S("unelect")) \o S("open") \o S("unsync") \o S("leave")

\* Mutant: InsideSmm is cleared when the APs have already been released to leave.
Dismiss_Late(p, n) ==
    ReleaseAllAPs(p) \o S("outside") \o WaitForAllAPs(n)
    \o When(config.mtrrs, ReleaseAllAPs(p) \o S("restore") \o WaitForAllAPs(n))
    \o ReleaseAllAPs(p) \o S("update") \o S("absent") \o WaitForAllAPs(n)
    \o When(config.elect, S("unelect")) \o S("open") \o S("unsync") \o S("leave")

\* After the handlers
Dismiss(p, n) ==
    S("outside") \o ReleaseAllAPs(p) \o WaitForAllAPs(n)
    \o When(config.mtrrs, ReleaseAllAPs(p) \o S("restore") \o WaitForAllAPs(n))
    \o ReleaseAllAPs(p) \o S("update") \o S("absent") \o WaitForAllAPs(n)
    \o When(config.elect, S("unelect")) \o S("open") \o S("unsync") \o S("leave")

\* APHandler of an AP that has found BSP b, up to its loop, and from there
Join(b) ==
    When(Early, Step("notify", b))
    \o When(config.mtrrs, S("take") \o S("save") \o Step("notify", b)
                          \o S("take") \o S("replace") \o Step("notify", b))
    \o S("take") \o Step("stay", b)

Part(b) ==
    When(config.mtrrs, Step("notify", b) \o S("take") \o S("restore"))
    \o Step("notify", b) \o S("take") \o S("absent") \o Step("notify", b) \o S("leave")

-----------------------------------------------------------------------------
In(p) == todo[p] # << >>
At(p, do) == In(p) /\ Head(todo[p]).do = do
X(p) == Head(todo[p]).x
Go(p, steps) == todo' = [todo EXCEPT ![p] = steps]
Do(p, steps) == Go(p, steps \o Tail(todo[p]))

Set(f, p, v) == [f EXCEPT ![p] = v]
Locked == -1

(***************************************************************************)
(* SmiRendezvous.                                                          *)
(***************************************************************************)
Smi ==
    /\ smis < MaxSmi /\ smis' = smis + 1
    /\ smi' = TRUE /\ pending' = [p \in CPUs |-> TRUE] /\ served' = FALSE
    /\ UNCHANGED <<todo, flags, sems, requests, rest>>

Enter(p) ==
    /\ ~In(p) /\ pending[p] /\ pending' = Set(pending, p, FALSE)
    /\ Go(p, S("valid"))
    /\ UNCHANGED <<flags, sems, requests, smi, smis, served, rest>>

PlatformValidSmi(p) ==
    /\ At(p, "valid") /\ Go(p, Step("progress", config.status => smi))
    /\ UNCHANGED <<flags, sems, requests, platform, rest>>

BspInProgress(p) ==
    /\ At(p, "progress")
    /\ Go(p, IF inside \/ X(p) THEN Step("arrive in", inside) ELSE << >>)
    /\ UNCHANGED <<flags, sems, requests, platform, rest>>

\* ReleaseSemaphore leaves a locked counter alone.
CheckIn(p) ==
    /\ At(p, "arrive in")
    /\ IF counter = Locked THEN Go(p, S("quit")) /\ UNCHANGED <<counter, busy>>
       ELSE /\ counter' = counter + 1 /\ busy' = Set(busy, p, FALSE)
            /\ Go(p, IF X(p) THEN S("first")
                     ELSE When(config.elect, S("elect")) \o S("role"))
    /\ UNCHANGED <<flags, run, requests, platform, rest>>

\* Mutant: BspIndex is assigned instead of compared and exchanged.
Elect_Assign(p) ==
    /\ At(p, "elect") /\ Do(p, << >>)
    /\ bspIndex' = IF candidates = {} \/ p \in candidates THEN p ELSE bspIndex
    /\ UNCHANGED <<inside, inSync, present, sems, requests, platform, rest>>

\* InterlockedCompareExchange32
Elect(p) ==
    /\ At(p, "elect") /\ Do(p, << >>)
    /\ bspIndex' = IF bspIndex = None /\ (candidates = {} \/ p \in candidates)
                   THEN p ELSE bspIndex
    /\ UNCHANGED <<inside, inSync, present, sems, requests, platform, rest>>

Role(p) ==
    /\ At(p, "role")
    /\ IF bspIndex = p THEN Go(p, BSPHandler(p)) /\ candidates' = {}
       ELSE Go(p, S("first")) /\ UNCHANGED candidates
    /\ UNCHANGED <<flags, sems, operation, platform, rest>>

\* Nobody leaves before the BSP has opened the counter again.
Leave(p) ==
    /\ At(p, "leave") \/ At(p, "quit")
    /\ ~inSync /\ Go(p, << >>)
    /\ UNCHANGED <<flags, sems, requests, platform, rest>>

-----------------------------------------------------------------------------
(***************************************************************************)
(* APHandler.                                                              *)
(***************************************************************************)
\* The BSP is there, found in either round.
FindBsp(p) ==
    /\ At(p, "first") \/ At(p, "second")
    /\ inside /\ Go(p, Join(bspIndex)) /\ present' = Set(present, p, TRUE)
    /\ UNCHANGED <<inside, inSync, bspIndex, sems, requests, platform, rest>>

TimeOutBsp(p) ==
    /\ ~inside
    /\ \/ At(p, "first") /\ Go(p, S("call"))
       \/ At(p, "second") /\ Go(p, S("give up"))
    /\ UNCHANGED <<flags, sems, requests, platform, rest>>

\* SendSmiIpi, if it is known to whom
CallBsp(p) ==
    /\ At(p, "call")
    /\ IF bspIndex = None THEN Go(p, S("give up")) /\ UNCHANGED pending
       ELSE Go(p, S("second")) /\ pending' = Set(pending, bspIndex, TRUE)
    /\ UNCHANGED <<flags, sems, requests, smi, smis, served, rest>>

\* WaitForSemaphore takes one of a locked counter as well.
GiveUp(p) ==
    /\ At(p, "give up") /\ counter # 0 /\ counter' = counter - 1
    /\ Go(p, S("leave"))
    /\ UNCHANGED <<flags, run, busy, requests, platform, rest>>

Notify(p) ==
    /\ At(p, "notify") /\ run' = [run EXCEPT ![X(p)] = @ + 1] /\ Do(p, << >>)
    /\ UNCHANGED <<flags, counter, busy, requests, platform, rest>>

\* Both the BSP and the APs wait at their own Run.
Take(p) ==
    /\ At(p, "take") /\ run[p] > 0 /\ run' = [run EXCEPT ![p] = @ - 1] /\ Do(p, << >>)
    /\ UNCHANGED <<flags, counter, busy, requests, platform, rest>>

Mtrrs(p) ==
    /\ \/ At(p, "save") /\ mtrr' = Set(mtrr, p, "saved")
       \/ At(p, "replace") /\ mtrr' = Set(mtrr, p, "smm")
       \/ At(p, "restore") /\ mtrr' = Set(mtrr, p, "os")
    /\ Do(p, << >>)
    /\ UNCHANGED <<flags, sems, requests, platform, config, jobs>>

Stay(p) ==
    /\ At(p, "stay")
    /\ Go(p, IF inside THEN S("procedure") \o S("free") \o S("take") \o Step("stay", X(p))
             ELSE Part(X(p)))
    /\ UNCHANGED <<flags, sems, requests, platform, rest>>

Procedure(p) ==
    /\ At(p, "procedure") /\ jobs' = jobs \ {p} /\ Do(p, << >>)
    /\ UNCHANGED <<flags, sems, requests, platform, config, mtrr>>

FreeBusy(p) ==
    /\ At(p, "free") /\ busy' = Set(busy, p, FALSE) /\ Do(p, << >>)
    /\ UNCHANGED <<flags, counter, run, requests, platform, rest>>

\* Both the BSP and the APs
Absent(p) ==
    /\ At(p, "absent") /\ present' = Set(present, p, FALSE) /\ Do(p, << >>)
    /\ UNCHANGED <<inside, inSync, bspIndex, sems, requests, platform, rest>>

ApStep(p) ==
    \/ FindBsp(p) \/ TimeOutBsp(p) \/ CallBsp(p) \/ GiveUp(p) \/ Notify(p)
    \/ Take(p) \/ Mtrrs(p) \/ Stay(p) \/ Procedure(p) \/ FreeBusy(p) \/ Absent(p)

-----------------------------------------------------------------------------
(***************************************************************************)
(* BSPHandler.                                                             *)
(***************************************************************************)
\* The moments in which an AP has read InsideSmm for the last time before it gives up,
\* and in which the last BSP has opened the counter but not yet cleared AllCpusInSync
InBetween == \E p \in CPUs : At(p, "give up") \/ At(p, "unsync")

SetInsideSmm(p) ==
    /\ \/ At(p, "inside") /\ (Timely => ~InBetween) /\ inside' = TRUE
       \/ At(p, "outside") /\ inside' = FALSE
    /\ Do(p, << >>)
    /\ UNCHANGED <<inSync, bspIndex, present, sems, requests, platform, rest>>

Present(p) ==
    /\ At(p, "present") /\ present' = Set(present, p, TRUE) /\ Do(p, << >>)
    /\ UNCHANGED <<inside, inSync, bspIndex, sems, requests, platform, rest>>

ClearTopLevelSmiStatus(p) ==
    /\ At(p, "clear") /\ smi' = FALSE /\ Do(p, << >>)
    /\ UNCHANGED <<flags, sems, requests, pending, smis, served, rest>>

\* Mutant: the BSP goes on without the APs that have not come.
WaitForApArrival_NoIpi(p) ==
    /\ At(p, "arrive") \/ At(p, "arrive again")
    /\ Do(p, When(At(p, "arrive") /\ counter < N, S("arrive again")))
    /\ UNCHANGED <<flags, sems, requests, platform, rest>>

\* SmmWaitForApArrival: a round ends when all are in SMM or its time is over, so that
\* it may end at any time.
WaitForApArrival(p) ==
    /\ At(p, "arrive") \/ At(p, "arrive again")
    /\ Do(p, When(At(p, "arrive") /\ counter < N,
                  ForOthers(p, "ipi") \o S("arrive again")))
    /\ UNCHANGED <<flags, sems, requests, platform, rest>>

SendSmiIpi(p) ==
    /\ At(p, "ipi") /\ Do(p, << >>)
    /\ pending' = IF present[X(p)] THEN pending ELSE Set(pending, X(p), TRUE)
    /\ UNCHANGED <<flags, sems, requests, smi, smis, served, rest>>

SetAllCpusInSync(p) ==
    /\ \/ At(p, "sync") /\ inSync' = TRUE
       \/ At(p, "unsync") /\ inSync' = FALSE
    /\ Do(p, << >>)
    /\ UNCHANGED <<inside, bspIndex, present, sems, requests, platform, rest>>

\* The value it had is the number of APs, and one for the BSP.
LockdownSemaphore(p) ==
    LET n == counter - 1
    IN  /\ At(p, "lock") /\ counter' = Locked
        /\ Go(p, IF Early THEN Gathered(p, n) \o Handlers(p) \o Dismiss(p, n)
                 ELSE Step("all present", n) \o Dismiss(p, n))
        /\ UNCHANGED <<flags, run, busy, requests, platform, rest>>

AllPresent(p) ==
    /\ At(p, "all present")
    /\ Cardinality({q \in CPUs : present[q]}) > X(p) /\ Do(p, << >>)
    /\ UNCHANGED <<flags, sems, requests, platform, rest>>

\* And the handlers begin.
HoldBusy(p) ==
    /\ At(p, "hold") /\ ~busy[p] /\ busy' = Set(busy, p, TRUE) /\ served' = TRUE
    /\ Do(p, << >>)
    /\ UNCHANGED <<flags, counter, run, requests, pending, smi, smis, rest>>

Release(p) ==
    /\ At(p, "release") /\ Do(p, << >>)
    /\ run' = IF present[X(p)] THEN [run EXCEPT ![X(p)] = @ + 1] ELSE run
    /\ UNCHANGED <<flags, counter, busy, requests, platform, rest>>

\* An AP that is busy is waited for.
WaitTask(p) ==
    /\ At(p, "task") /\ (present[X(p)] => ~busy[X(p)]) /\ Do(p, << >>)
    /\ UNCHANGED <<flags, sems, requests, platform, rest>>

SmmCpuUpdate(p) ==
    /\ At(p, "update") /\ Do(p, << >>)
    /\ candidates' = candidates \union operation /\ operation' = {}
    /\ UNCHANGED <<flags, sems, platform, rest>>

Unelect(p) ==
    /\ At(p, "unelect") /\ bspIndex' = None /\ Do(p, << >>)
    /\ UNCHANGED <<inside, inSync, present, sems, requests, platform, rest>>

Open(p) ==
    /\ At(p, "open") /\ counter' = 0 /\ Do(p, << >>)
    /\ UNCHANGED <<flags, run, busy, requests, platform, rest>>

-----------------------------------------------------------------------------
(***************************************************************************)
(* The SMI handlers, and the services that they call.                      *)
(***************************************************************************)
Calling(p) == At(p, "core") /\ X(p) > 0
Called(p, steps) == Go(p, steps \o Step("core", X(p) - 1) \o Tail(todo[p]))

\* InternalSmmStartupThisAp, of an AP that is present
SmmStartupThisAp(p, q, blocking) ==
    /\ Calling(p) /\ q # p /\ present[q]
    /\ Called(p, Step(IF blocking THEN "acquire" ELSE "try", q))
    /\ UNCHANGED <<flags, sems, requests, platform, rest>>

AcquireBusy(p) ==
    /\ \/ At(p, "acquire") /\ ~busy[X(p)] /\ Do(p, Step("ask", X(p)) \o Step("task", X(p)))
       \/ At(p, "try") /\ ~busy[X(p)] /\ Do(p, Step("ask", X(p)))
    /\ busy' = Set(busy, X(p), TRUE) /\ jobs' = jobs \union {X(p)}
    /\ UNCHANGED <<flags, counter, run, requests, platform, config, mtrr>>

\* AcquireSpinLockOrFail fails.
IsBusy(p) ==
    /\ At(p, "try") /\ busy[X(p)] /\ Do(p, << >>)
    /\ UNCHANGED <<flags, sems, requests, platform, rest>>

Ask(p) ==
    /\ At(p, "ask") /\ run' = [run EXCEPT ![X(p)] = @ + 1] /\ Do(p, << >>)
    /\ UNCHANGED <<flags, counter, busy, requests, platform, rest>>

SmmSwitchBsp(p, q) ==
    /\ Calling(p) /\ q # p /\ q \notin operation
    /\ operation' = operation \union {q} /\ Called(p, << >>)
    /\ UNCHANGED <<flags, sems, candidates, platform, rest>>

\* The handlers return.
SmmCoreEntry(p) ==
    /\ At(p, "core") /\ Do(p, << >>)
    /\ UNCHANGED <<flags, sems, requests, platform, rest>>

-----------------------------------------------------------------------------
Init ==
    /\ config \in Configs
    /\ todo = [p \in CPUs |-> << >>] /\ pending = [p \in CPUs |-> FALSE] /\ smi = FALSE
    /\ counter = 0 /\ inside = FALSE /\ inSync = FALSE
    /\ bspIndex = (IF config.elect THEN None ELSE 0)
    /\ present = [p \in CPUs |-> FALSE] /\ run = [p \in CPUs |-> 0]
    /\ busy = [p \in CPUs |-> TRUE] /\ operation = {} /\ candidates = {}
    /\ smis = 0 /\ served = TRUE /\ mtrr = [p \in CPUs |-> "os"] /\ jobs = {}

SmiStep(p) ==
    \/ PlatformValidSmi(p) \/ BspInProgress(p) \/ CheckIn(p)
    \/ Elect(p) \/ Role(p) \/ Leave(p)

BspStep(p) ==
    \/ SetInsideSmm(p) \/ Present(p) \/ ClearTopLevelSmiStatus(p) \/ WaitForApArrival(p)
    \/ SendSmiIpi(p) \/ SetAllCpusInSync(p) \/ LockdownSemaphore(p) \/ AllPresent(p)
    \/ HoldBusy(p) \/ Release(p) \/ WaitTask(p) \/ SmmCpuUpdate(p) \/ Unelect(p)
    \/ Open(p) \/ SmmCoreEntry(p) \/ AcquireBusy(p) \/ IsBusy(p) \/ Ask(p)

Call(p) ==
    \E q \in CPUs :
       \/ \E blocking \in BOOLEAN : SmmStartupThisAp(p, q, blocking)
       \/ SmmSwitchBsp(p, q)

Next ==
    \/ Smi
    \/ \E p \in CPUs : Enter(p) \/ SmiStep(p) \/ ApStep(p) \/ BspStep(p) \/ Call(p)

\* A processor goes on with its steps, and one at which an SMI is pending enters.  One
\* that waits for AllCpusInSync to be FALSE sees it if it is again and again: it stays
\* so until a later run begins, and the processor reads it all the time.
Fairness ==
    \A p \in CPUs :
       /\ WF_vars(Enter(p)) /\ WF_vars(SmiStep(p) \/ ApStep(p) \/ BspStep(p))
       /\ SF_vars(Leave(p))

Spec == Init /\ [][Next]_vars /\ Fairness

-----------------------------------------------------------------------------
(***************************************************************************)
(* Properties.                                                             *)
(***************************************************************************)
\* Types; no semaphore counts beyond the processors.
TypeOK ==
    /\ config \in Configs
    /\ \A p \in CPUs : \A i \in DOMAIN todo[p] :
          DOMAIN todo[p][i] = {"do", "x"} /\ todo[p][i].do \in STRING
    /\ pending \in [CPUs -> BOOLEAN] /\ smi \in BOOLEAN /\ counter \in -1 .. N
    /\ inside \in BOOLEAN /\ inSync \in BOOLEAN /\ bspIndex \in CPUs \union {None}
    /\ present \in [CPUs -> BOOLEAN] /\ run \in [CPUs -> 0 .. N - 1]
    /\ busy \in [CPUs -> BOOLEAN] /\ operation \subseteq CPUs /\ candidates \subseteq CPUs
    /\ smis \in 0 .. MaxSmi /\ served \in BOOLEAN
    /\ mtrr \in [CPUs -> {"os", "saved", "smm"}] /\ jobs \subseteq CPUs

\* Handlers run on the elected BSP only, no AP takes itself for the BSP (the assertion
\* at MpService.c:610), and who leaves has nothing left at its semaphore (1161).
Assertions ==
    \A p \in CPUs :
       /\ At(p, "core") => inside /\ bspIndex = p /\ \A q \in CPUs \ {p} : ~At(q, "core")
       /\ At(p, "stay") \/ At(p, "notify") => X(p) # p /\ X(p) = bspIndex
       /\ At(p, "leave") => run[p] = 0

\* Where APs gather before the handlers, no other processor executes normal code while
\* they run: it is in SMM or has an SMI pending that it takes first.
NoNormalCode ==
    \A p \in CPUs : At(p, "core") /\ Early =>
       \A q \in CPUs : In(q) \/ pending[q]

\* Threads share MTRRs: they are replaced when all APs that take part have saved theirs,
\* handlers and procedures run when all are replaced, and they are restored when no
\* handler and no procedure runs.
MtrrBarrier ==
    config.mtrrs => \A p, q \in CPUs : present[q] /\ In(p) =>
       /\ At(p, "replace") => mtrr[q] # "os"
       /\ At(p, "core") \/ At(p, "procedure") => mtrr[q] = "smm"

\* What handlers have asked an AP to run has been run before APs are dismissed.
JobsDone == jobs # {} => inside

\* When all are out of SMM, everything is ready for the next SMI.
Ready ==
    (\A p \in CPUs : ~In(p)) =>
       /\ counter = 0 /\ ~inside /\ ~inSync /\ (config.elect => bspIndex = None)
       /\ \A p \in CPUs : ~present[p] /\ run[p] = 0 /\ mtrr[p] = "os"

\* The safety invariant: types, one BSP and empty semaphores on leaving, MTRRs replaced
\* and restored together, what was asked of APs done before they are dismissed, and a
\* state that is ready for the next SMI.
RendezvousInv == TypeOK /\ Assertions /\ MtrrBarrier /\ JobsDone /\ Ready

\* Whoever comes in, in time or late, gets out again.
Leaves == \A p \in CPUs : In(p) ~> ~In(p)

\* Handlers run after every SMI, one during a run of them included; it may be missed
\* when another BSP was asked for and the candidate quit before it was one.
Served == ~served ~> (served \/ (config.elect /\ candidates # {}))

=============================================================================
