--------------------------- MODULE SmiDispatcher ---------------------------
(***************************************************************************)
(* System management interrupts and the children that serve them           *)
(* (PlatformPkg/SmiDispatcher, with the entry of the SMM core, the         *)
(* Communicate service and PlatformPkg/SmmPlatform's children).            *)
(*                                                                         *)
(* The chipset raises an SMI when an enabled source has its status set and *)
(* PMIO_INSMI is clear, and sets it.  Writing the bit clears it, but when a*)
(* source is still active the next SMI is raised at once and it reads as 1.*)
(* The dispatcher looks through its list of children for an active source, *)
(* calls the children of that source, clears it, and starts over until     *)
(* PMIO_INSMI stays clear.  Sources become active at any moment, in the    *)
(* middle of all that.  Outside of SMM one processor runs: it writes the   *)
(* command port or SLP_EN, or calls Communicate.                           *)
(***************************************************************************)
EXTENDS Naturals, Sequences, FiniteSets

CONSTANTS
    Children,    \* records of the data base
    child,       \* what each is registered for: source, context, callback
    Base,        \* the list head, CallbackDataBase
    Plans,       \* orders in which drivers register them
    Commands,    \* values written to the command port
    Sleeps,      \* sleep types asked for
    Orphans,     \* whether the last child of a source is ever unregistered
    Torn,        \* whether an SMI comes between two stores of Communicate
    Capsule,     \* whether a capsule may wait for the next boot, as IsBiosWantUpdate finds
    EscapeCount, \* rounds of the dispatcher in one SMI
    MaxEvents,   \* bound: events of the hardware, commands, sleep requests
    MaxCalls     \* bound: calls of Communicate

Sources == {"Sw", "Sx", "Timer", "PowerButton"}
Async   == {"Timer", "PowerButton"}
Effects == {"none", "acpiOn", "acpiOff", "shutdown", "softOff", "unregister"}
Contexts == Commands \cup Sleeps \cup {"any"}

ASSUME SmiAssumption ==
    /\ Base \notin Children
    /\ child \in [Children -> [source : Sources, context : Contexts,
                               effect : Effects]]
    /\ Plans \subseteq Seq(Children)
    /\ Orphans \in BOOLEAN /\ Torn \in BOOLEAN /\ Capsule \in BOOLEAN
    /\ EscapeCount \in Nat \ {0} /\ MaxEvents \in Nat /\ MaxCalls \in Nat
    /\ "S0" \notin Sleeps /\ "communicate" \notin Commands
    /\ "any" \notin Commands \cup Sleeps

VARIABLES
    en, sts,     \* sources that are enabled, and whose status is set
    cmd, slp,    \* the command port and SLP_TYP
    sci,         \* SCI_EN: an ACPI OS serves the power button
    insmi,       \* PMIO_INSMI
    latch,       \* an SMI was raised that the processor has yet to take
    next, prev,  \* ForwardLink and BackLink of the list of children
    plan,        \* children yet to be registered
    pc,          \* where SMM is: "out" of it, ..., "off"
    rounds, smiClear, sx,    \* EscapeCount, SmiClear, SxChildWasDispatched
    scan, active, link, who, \* LinkInDb, ActiveSource, LinkToExhaust, callee
    caller,      \* where Communicate is
    comm,        \* CommunicationBuffer: "null", or what BufferSize is for it
    events, calls,
    registered,  \* history: the children in the data base
    due,         \* history: the children that an event asks for
    asked,       \* history: the sleep type asked for
    handled      \* history: how the request of Communicate was handled

hardware == <<en, sts, cmd, slp, sci, insmi, latch>>
list     == <<next, prev, plan, registered>>
loop     == <<rounds, smiClear, sx, scan, active, link, who>>
outside  == <<caller, comm, calls, handled>>
vars == <<hardware, list, pc, loop, outside, events, due, asked>>

-----------------------------------------------------------------------------
(***************************************************************************)
(* Hardware                                                                *)
(***************************************************************************)
\* The sources that ask for an SMI: the power button does not under an ACPI OS.
Raising(e, s) == (e \cap s) \ (IF sci THEN {"PowerButton"} ELSE {})

\* Nothing interrupts the processor: it is not in SMM, nor about to enter it.
Running == pc = "out" /\ ~latch

\* The status of sources changes, or whether they are enabled.
Raise(e, s) ==
    LET r == Raising(e, s) # {}
    IN  insmi' = (insmi \/ r) /\ latch' = (latch \/ (r /\ ~insmi))

\* PMIO_INSMI is written.
Inactive(e, s) ==
    LET r == Raising(e, s) # {}
    IN  insmi' = r /\ latch' = (latch \/ r)

Wants(c, s, x) == child[c].source = s /\ child[c].context \in {x, "any"}

\* The status of a source is set, and its children are due.
Happens(s, x) ==
    /\ events < MaxEvents /\ s \in en \ sts
    /\ events' = events + 1
    /\ sts' = sts \cup {s} /\ Raise(en, sts')
    /\ due' = due \cup {c \in registered : Wants(c, s, x)}

Event(s) ==
    /\ pc # "off" /\ ~(s = "PowerButton" /\ sci)
    /\ Happens(s, "any")
    /\ UNCHANGED <<en, cmd, slp, sci, list, pc, loop, outside, asked>>

SwCommand(v) ==
    /\ Running /\ caller = "idle" /\ next[Base] # Base
    /\ Happens("Sw", v)
    /\ cmd' = v
    /\ UNCHANGED <<en, slp, sci, list, pc, loop, outside, asked>>

SleepRequest(t) ==
    /\ Running /\ caller = "idle"
    /\ Happens("Sx", t)
    /\ slp' = t /\ asked' = t
    /\ UNCHANGED <<en, cmd, sci, list, pc, loop, outside>>

\* SbSmiSetInActive: write PMIO_INSMI, and see whether it is clear.
SetInActive == Inactive(en, sts) /\ smiClear' = ~insmi'

-----------------------------------------------------------------------------
(***************************************************************************)
(* The data base                                                           *)
(***************************************************************************)
InsertTailList(c) ==
    /\ next' = [next EXCEPT ![c] = Base, ![prev[Base]] = c]
    /\ prev' = [prev EXCEPT ![c] = prev[Base], ![Base] = c]

\* The links of the record itself stay as they are.
RemoveEntryList(c) ==
    /\ prev' = [prev EXCEPT ![next[c]] = prev[c]]
    /\ next' = [next EXCEPT ![prev[c]] = next[c]]

\* SmiInputValueDuplicateCheck
Duplicate(c) ==
    child[c].source = "Sw" /\ \E d \in registered : child[d] = child[c]

\* Clear the source and enable it, for other children of it too.
SbSmmCoreRegister ==
    /\ pc = "handler" /\ plan # << >>
    /\ LET c == plan[1]
           s == child[c].source
       IN  IF Duplicate(c) THEN UNCHANGED <<next, prev, registered, en, sts>>
           ELSE /\ InsertTailList(c) /\ registered' = registered \cup {c}
                /\ en' = en \cup {s} /\ sts' = sts \ {s}
    /\ plan' = Tail(plan)
    /\ UNCHANGED <<cmd, slp, sci, insmi, latch, pc, loop, outside, events, due, asked>>

\* The source stays enabled.
SbSmmCoreUnRegister(c) ==
    /\ RemoveEntryList(c) /\ registered' = registered \ {c}
    /\ due' = due \ {c} /\ UNCHANGED plan

-----------------------------------------------------------------------------
(***************************************************************************)
(* SbSmmCoreDispatcher                                                     *)
(***************************************************************************)
Dispatch ==
    /\ pc = "dispatch"
    /\ IF next[Base] = Base THEN pc' = "out" /\ UNCHANGED <<rounds, smiClear, sx>>
       ELSE /\ pc' = "round"
            /\ rounds' = EscapeCount /\ smiClear' = FALSE /\ sx' = FALSE
    /\ UNCHANGED <<hardware, list, scan, active, link, who, outside, events, due, asked>>

NextRound ==
    /\ pc = "round"
    /\ IF ~smiClear /\ rounds > 0
       THEN pc' = "scan" /\ rounds' = rounds - 1 /\ scan' = next[Base]
       ELSE /\ pc' = IF sx THEN "sleep" ELSE "out"
            /\ UNCHANGED <<rounds, scan>>
    /\ UNCHANGED <<hardware, list, smiClear, sx, active, link, who, outside,
                   events, due, asked>>

SourceIsActive(c) == child[c].source \in Raising(en, sts)

ForSleep(c) == child[c].source \in {"Sx", "PowerButton"}

ScanOn ==
    /\ pc = "scan" /\ scan # Base /\ ~SourceIsActive(scan)
    /\ scan' = next[scan]
    /\ IF next[scan] = Base THEN SetInActive ELSE UNCHANGED <<insmi, latch, smiClear>>
    /\ UNCHANGED <<en, sts, cmd, slp, sci, list, pc, rounds, sx, active, link,
                   who, outside, events, due, asked>>

ScanEnds ==
    /\ pc = "scan" /\ scan = Base
    /\ pc' = "round"
    /\ UNCHANGED <<hardware, list, loop, outside, events, due, asked>>

Found ==
    /\ pc = "scan" /\ scan # Base /\ SourceIsActive(scan)
    /\ sx' = (sx \/ ForSleep(scan))
    /\ active' = child[scan].source /\ link' = scan
    /\ pc' = "exhaust"
    /\ UNCHANGED <<hardware, list, rounds, smiClear, scan, who, outside, events,
                   due, asked>>

\* GetContext: read anew for each child
Context == CASE active = "Sw" -> cmd [] active = "Sx" -> slp [] OTHER -> "any"

\* Mutant: contexts are not compared.
Exhaust_AnyContext ==
    /\ pc = "exhaust" /\ link # Base
    /\ link' = next[link]
    /\ IF child[link].source = active
       THEN pc' = "callback" /\ who' = link /\ due' = due \ {link}
       ELSE UNCHANGED <<pc, who, due>>
    /\ UNCHANGED <<hardware, list, rounds, smiClear, sx, scan, active, outside,
                   events, asked>>

\* The next link is read before the callback, which may unregister its record.
Exhaust ==
    /\ pc = "exhaust" /\ link # Base
    /\ link' = next[link]
    /\ IF Wants(link, active, Context)
       THEN pc' = "callback" /\ who' = link /\ due' = due \ {link}
       ELSE UNCHANGED <<pc, who, due>>
    /\ UNCHANGED <<hardware, list, rounds, smiClear, sx, scan, active, outside,
                   events, asked>>

Exhausted ==
    /\ pc = "exhaust" /\ link = Base
    /\ pc' = "clear"
    /\ UNCHANGED <<hardware, list, loop, outside, events, due, asked>>

\* Mutant: what is read from the status register is written back.
SbSmmClearSource_WritesBack ==
    /\ pc = "clear"
    /\ sts' = {}
    /\ pc' = "quiet"
    /\ UNCHANGED <<en, cmd, slp, sci, insmi, latch, list, loop, outside, events, due, asked>>

SbSmmClearSource ==
    /\ pc = "clear"
    /\ sts' = sts \ {active}
    /\ pc' = "quiet"
    /\ UNCHANGED <<en, cmd, slp, sci, insmi, latch, list, loop, outside, events, due, asked>>

\* Mutant: the SMI is taken for ended without a write to PMIO_INSMI.
SbSmiSetInActive_Assumed ==
    /\ pc = "quiet"
    /\ smiClear' = TRUE
    /\ pc' = "round"
    /\ UNCHANGED <<hardware, list, rounds, sx, scan, active, link,
                   who, outside, events, due, asked>>

SbSmiSetInActive ==
    /\ pc = "quiet"
    /\ SetInActive
    /\ pc' = "round"
    /\ UNCHANGED <<en, sts, cmd, slp, sci, list, rounds, sx, scan, active, link,
                   who, outside, events, due, asked>>

\* S1 returns here when the machine wakes; no other sleep state does.
SbSmmSxGoToSleep ==
    /\ pc = "sleep"
    /\ sts' = sts \ {"Sx"} /\ en' = en \ {"Sx"}
    /\ pc' = IF slp = "S1" THEN "asleep" ELSE "off"
    /\ UNCHANGED <<cmd, slp, sci, insmi, latch, list, loop, outside, events, due, asked>>

Wake ==
    /\ pc = "asleep"
    /\ slp' = IF sci THEN slp ELSE "S0"
    /\ sts' = sts \ {"Sx"} /\ en' = en \cup {"Sx"}
    /\ pc' = "out" /\ asked' = "none"
    /\ UNCHANGED <<cmd, sci, insmi, latch, list, loop, outside, events, due>>

-----------------------------------------------------------------------------
(***************************************************************************)
(* The callbacks of PlatformPkg/SmmPlatform, and one that unregisters itself*)
(***************************************************************************)
Returns == pc' = "exhaust" /\ sx' = (sx \/ ForSleep(who))

Served(e) == pc = "callback" /\ child[who].effect = e

NothingToDo ==
    /\ Served("none")
    /\ Returns
    /\ UNCHANGED <<hardware, list, rounds, smiClear, scan, active, link, who, outside,
                   events, due, asked>>

\* The power button is enabled and its status is cleared.
EnableAcpiCallback ==
    /\ Served("acpiOn")
    /\ en' = en \cup {"PowerButton"} /\ sts' = sts \ {"PowerButton"}
    /\ due' = {c \in due : child[c].source # "PowerButton"}
    /\ pc' = "acpi"
    /\ UNCHANGED <<cmd, slp, sci, insmi, latch, list, loop, outside, events, asked>>

\* The timer is disabled and cleared, and the OS takes over: a button that was pressed
\* since its status was cleared is the OS's.
SciEnable ==
    /\ pc = "acpi"
    /\ en' = en \ {"Timer"} /\ sts' = sts \ Async
    /\ sci' = TRUE
    /\ due' = {c \in due : child[c].source \notin Async}
    /\ Returns
    /\ UNCHANGED <<cmd, slp, insmi, latch, list, rounds, smiClear, scan, active, link, who,
                   outside, events, asked>>

DisableAcpiCallback ==
    /\ Served("acpiOff")
    /\ sci' = FALSE
    /\ Returns
    /\ UNCHANGED <<en, sts, cmd, slp, insmi, latch, list, rounds, smiClear, scan, active,
                   link, who, outside, events, due, asked>>

PowerButtonCallback ==
    /\ Served("shutdown")
    /\ en' = en \ {"Sx"} /\ sts' = sts \ {"PowerButton"} /\ slp' = "S5"
    /\ pc' = "off"
    /\ UNCHANGED <<cmd, sci, insmi, latch, list, loop, outside, events, due, asked>>

\* SleepCommonHandler(5): the timer is disabled and cleared, and for a capsule the
\* machine goes to S3 instead.
S5SleepEntryCallBack ==
    /\ Served("softOff")
    /\ en' = en \ {"Timer"} /\ sts' = sts \ {"Timer"}
    /\ due' = {c \in due : child[c].source # "Timer"}
    /\ slp' \in {slp, IF Capsule THEN "S3" ELSE slp}
    /\ Returns
    /\ UNCHANGED <<cmd, sci, insmi, latch, list, rounds, smiClear, scan, active, link, who,
                   outside, events, asked>>

UnRegisterCallback ==
    /\ Served("unregister")
    /\ IF Orphans \/ \E c \in registered \ {who} : child[c].source = child[who].source
       THEN SbSmmCoreUnRegister(who) ELSE UNCHANGED <<list, due>>
    /\ Returns
    /\ UNCHANGED <<hardware, rounds, smiClear, scan, active, link, who, outside,
                   events, asked>>

-----------------------------------------------------------------------------
(***************************************************************************)
(* The SMM core: Communicate outside of SMM, and the entry of each SMI     *)
(***************************************************************************)
SmmCommunicationCommunicate ==
    /\ Running /\ caller = "idle" /\ calls < MaxCalls
    /\ calls' = calls + 1 /\ handled' = << >>
    /\ comm' = "stale" /\ caller' = "size"
    /\ UNCHANGED <<hardware, list, pc, loop, events, due, asked>>

BufferSize ==
    /\ pc = "out" /\ (Torn => ~latch) /\ caller = "size"
    /\ comm' = (IF comm = "null" THEN "null" ELSE "own") /\ caller' = "trigger"
    /\ UNCHANGED <<hardware, list, pc, loop, calls, handled, events, due, asked>>

\* SmmControl2Trigger clears PMIO_SWSMIS and PMIO_INSMI before and after.
SmmTrigger ==
    /\ Running /\ caller = "trigger"
    /\ en' = en \cup {"Sw"} /\ sts' = sts \cup {"Sw"} /\ cmd' = "communicate"
    /\ Raise(en', sts')
    /\ caller' = "clear"
    /\ UNCHANGED <<slp, sci, list, pc, loop, comm, calls, handled, events, due, asked>>

SmmClear ==
    /\ Running /\ caller = "clear"
    /\ sts' = sts \ {"Sw"}
    /\ Inactive(en, sts')
    /\ caller' = "idle"
    /\ UNCHANGED <<en, cmd, slp, sci, list, pc, loop, comm, calls, handled, events,
                   due, asked>>

Smi ==
    /\ pc = "out" /\ latch /\ (caller = "size" => Torn)
    /\ latch' = FALSE /\ pc' = "entry"
    /\ UNCHANGED <<en, sts, cmd, slp, sci, insmi, list, loop, outside, events, due, asked>>

\* Mutant: CommunicationBuffer is not reset.
SmmEntryPoint_KeepsBuffer ==
    /\ pc = "entry"
    /\ IF comm = "null" THEN pc' = "dispatch" /\ UNCHANGED <<comm, handled>>
       ELSE pc' = "handler" /\ handled' = Append(handled, comm) /\ UNCHANGED comm
    /\ UNCHANGED <<hardware, list, loop, caller, calls, events, due, asked>>

\* A request is handled in whichever SMI comes first.
SmmEntryPoint ==
    /\ pc = "entry"
    /\ IF comm = "null" THEN pc' = "dispatch" /\ UNCHANGED <<comm, handled>>
       ELSE /\ pc' = "handler" /\ comm' = "null"
            /\ handled' = Append(handled, comm)
    /\ UNCHANGED <<hardware, list, loop, caller, calls, events, due, asked>>

\* The first driver that registers children registers one for commands too.
Handled ==
    /\ pc = "handler"
    /\ registered # {} => \E c \in registered : child[c].source = "Sw"
    /\ pc' = "dispatch"
    /\ UNCHANGED <<hardware, list, loop, outside, events, due, asked>>

-----------------------------------------------------------------------------
Init ==
    /\ en = {} /\ sts = {} /\ cmd = "communicate" /\ slp = "S0"
    /\ sci = FALSE /\ insmi = FALSE /\ latch = FALSE
    /\ next = [c \in Children \cup {Base} |-> Base] /\ prev = next
    /\ plan \in Plans /\ registered = {}
    /\ pc = "out" /\ rounds = 0 /\ smiClear = FALSE /\ sx = FALSE
    /\ scan = Base /\ active = "Sw" /\ link = Base /\ who = Base
    /\ caller = "idle" /\ comm = "null" /\ calls = 0 /\ handled = << >>
    /\ events = 0 /\ due = {} /\ asked = "none"

Dispatcher ==
    \/ Dispatch \/ NextRound \/ ScanOn \/ ScanEnds \/ Found
    \/ Exhaust \/ Exhausted \/ SbSmmClearSource \/ SbSmiSetInActive
    \/ SbSmmSxGoToSleep

Callback ==
    \/ NothingToDo \/ EnableAcpiCallback \/ SciEnable \/ DisableAcpiCallback
    \/ PowerButtonCallback \/ S5SleepEntryCallBack \/ UnRegisterCallback

Core == Smi \/ SmmEntryPoint \/ SbSmmCoreRegister \/ Handled

Caller ==
    \/ SmmCommunicationCommunicate \/ BufferSize \/ SmmTrigger \/ SmmClear

Hardware ==
    \/ \E s \in Async : Event(s)
    \/ \E v \in Commands : SwCommand(v)
    \/ \E t \in Sleeps : SleepRequest(t)
    \/ Wake

Next == Dispatcher \/ Callback \/ Core \/ Caller \/ Hardware

\* The processor goes on; nothing is assumed of events and of waking up.
Spec == /\ Init /\ [][Next]_vars
        /\ WF_vars(Dispatcher) /\ WF_vars(Callback)
        /\ WF_vars(Smi \/ SmmEntryPoint) /\ WF_vars(SbSmmCoreRegister \/ Handled)
        /\ WF_vars(BufferSize \/ SmmTrigger \/ SmmClear)

-----------------------------------------------------------------------------
(***************************************************************************)
(* What the dispatcher relies on: the drivers that register children, and  *)
(* the number of events.                                                   *)
(***************************************************************************)
\* A record is registered once, the power button's before the one that hands the button
\* over to the OS (SmmPlatform.c:602-632), and none for sleep after the one for S5
\* (680-712), as it may be called with the sleep type that this one leaves.
Orderly(p) ==
    /\ \A i, j \in 1 .. Len(p) : p[i] = p[j] => i = j
    /\ \A i \in 1 .. Len(p) : child[p[i]].effect = "acpiOn" =>
          \E j \in 1 .. i - 1 : child[p[j]].source = "PowerButton"
    /\ \A i, j \in 1 .. Len(p) :
          i < j /\ child[p[i]].effect = "softOff" => child[p[j]].source # "Sx"

\* Two children of one asynchronous source may miss an event.  A child is called with the
\* context that its source has, and does what SmmPlatform's children of that source do.
Platform ==
    /\ ~Orphans
    /\ EscapeCount > MaxEvents
    /\ \A p \in Plans : Orderly(p)
    /\ \A c, d \in Children :
          child[c].source \in Async /\ child[c].source = child[d].source => c = d
    /\ \A c \in Children :
          /\ child[c].source = "Sw" => child[c].context \in Commands
          /\ child[c].source = "PowerButton" =>
                child[c].context = "any" /\ child[c].effect = "shutdown"
          /\ child[c].effect = "acpiOn" => child[c].source = "Sw"
          /\ child[c].effect = "softOff" =>
                child[c].source = "Sx" /\ child[c].context = "S5"

-----------------------------------------------------------------------------
(***************************************************************************)
(* Properties                                                              *)
(***************************************************************************)
TypeOK ==
    /\ en \subseteq Sources /\ sts \subseteq Sources
    /\ sci \in BOOLEAN /\ insmi \in BOOLEAN /\ latch \in BOOLEAN
    /\ next \in [Children \cup {Base} -> Children \cup {Base}]
    /\ prev \in [Children \cup {Base} -> Children \cup {Base}]
    /\ registered \subseteq Children /\ due \subseteq registered
    /\ pc \in {"out", "entry", "handler", "dispatch", "round", "scan", "exhaust",
               "callback", "acpi", "clear", "quiet", "sleep", "asleep", "off"}
    /\ rounds \in 0 .. EscapeCount /\ events \in 0 .. MaxEvents
    /\ pc = "scan" => scan \in registered \cup {Base}
    /\ pc = "exhaust" => link \in registered \cup {Base}
    /\ caller \in {"idle", "size", "trigger", "clear"}

(* The dispatcher never clears the status of a source as long as one of its *)
(* children has not been called for it: "dispatch the event to all the     *)
(* registered functions" comes before SbSmmClearSource.  Those events are  *)
(* excepted that a callback of SmmPlatform drops together with its source.  *)
NoneMissed == \A c \in due : pc # "off" => child[c].source \in sts

(* The dispatcher never gives up for EscapeCount, and leaves SMM in a way  *)
(* that the next SMI comes: "next trigger" in the words of SmmHelpers2.h.   *)
Quiesced ==
    /\ pc = "round" /\ rounds = 0 => smiClear
    /\ pc = "out" /\ insmi => latch \/ caller = "clear"

\* The sleep type in the register is the one that was asked for, or it serves a capsule.
AsAsked == asked = slp \/ (Capsule /\ asked = "S5" /\ slp = "S3")

(* The machine is put to sleep only when that was asked for, into the state *)
(* that was asked for, but for a capsule at S5, and after all the children  *)
(* for it were called.                                                     *)
SleepsAsAsked ==
    pc = "sleep" => AsAsked /\ ~\E c \in due : child[c].source = "Sx"

(* The safety invariant: types, no event cleared before it was served, no   *)
(* SMI that is the last, and no sleep that was not asked for.              *)
SmiInv == TypeOK /\ NoneMissed /\ Quiesced /\ SleepsAsAsked

(* A child is called once for each event of its own, while it is registered.*)
CalledOnce == [][Exhaust /\ pc' = "callback" => who' \in due \cap registered]_vars

(* Communicate returns after its request was handled, once, with its size,  *)
(* also when another SMI came before its own.                               *)
HandledOnce ==
    [][caller = "clear" /\ caller' = "idle" => handled = << "own" >>]_vars

(* An event reaches each of its children, and a machine that is asked to    *)
(* sleep goes to sleep, unless the power button switches it off before.    *)
Answered ==
    /\ \A c \in Children : c \in due ~> c \notin due \/ pc \in {"asleep", "off"}
    /\ asked # "none" ~> asked = "none" \/ pc \in {"asleep", "off"}

=============================================================================
