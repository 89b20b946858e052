--------------------------- MODULE DxeDispatcher ---------------------------
(***************************************************************************)
(* The DXE dispatcher (MdeModulePkg/Core/Dxe/Dispatcher/Dispatcher.c and   *)
(* Dependency.c): drivers found in firmware volumes are started in the     *)
(* order in which the protocols they depend on are installed.              *)
(*                                                                         *)
(* The dispatcher runs at TPL_APPLICATION.  It starts the drivers of its   *)
(* queue until the queue is empty, tells handlers of the end of the round, *)
(* and looks through all discovered drivers for ones to put on the queue.  *)
(* The entry points of drivers install protocols and volumes and call the  *)
(* services of the dispatcher, and so do notification functions of timer   *)
(* events, between any two steps; BDS does it before it dispatches again.  *)
(***************************************************************************)
EXTENDS Integers, Sequences, FiniteSets, SequencesExt, FiniteSetsExt

CONSTANTS
    Drivers,    \* files of the types that the dispatcher looks for
    Volumes,    \* handles with a firmware volume protocol
    Protocols,
    Name,       \* Name[d]: the FileName of d
    VolumeName, \* VolumeName[v]: the FvNameGuid of v, or None
    Files,      \* Files[v]: what GetNextFile finds in v
    Apriori,    \* Apriori[v]: the drivers of the a priori file of v
    Inner,      \* Inner[d]: the volume in the file d, or None
    Depex,      \* Depex[d]: the instructions of the dependency expression
    Wants,      \* Wants[d]: the sets of protocols with which the expression holds
    Extractor,  \* the section extraction protocol
    Wrapped,    \* drivers whose expression only Extractor can read
    Arch,       \* the architectural protocols
    Loads,      \* Loads[d]: how loading d may end
    Does,       \* Does[c]: the calls that the code c may make
    None

Images == {d \in Drivers : Inner[d] # None}
Callers == Drivers \union {"bds", "handlers", "timer"}
Things == Protocols \union Volumes
Calls == ({"install"} \X Things) \union ({"remove"} \X Protocols)
            \union ({"schedule", "trust"} \X Drivers)

ASSUME DispatcherAssumption ==
    /\ None \notin Drivers \union Things /\ Drivers \intersect Things = {}
    /\ \A v \in Volumes :
          /\ Files[v] \in Seq(Drivers) /\ IsInjective(Files[v])
          /\ Apriori[v] \in Seq(Drivers) /\ IsInjective(Apriori[v])
          /\ ToSet(Apriori[v]) \subseteq ToSet(Files[v])
          /\ \A w \in Volumes \ {v} : ToSet(Files[v]) \intersect ToSet(Files[w]) = {}
    /\ \A d \in Drivers : Len(Depex[d]) \in Nat
    /\ Inner \in [Drivers -> Volumes \union {None}]
    /\ \A d \in Drivers : Wants[d] \subseteq SUBSET Protocols
    /\ Wrapped \subseteq Drivers /\ Extractor \in Protocols /\ Arch \subseteq Protocols
    /\ \A d \in Drivers : Loads[d] \subseteq {"ok", "violation", "error"}
    /\ \A c \in Callers : Does[c] \subseteq Calls

VARIABLES
    installed,  \* protocols in the handle database
    ever,       \* protocols and volumes that have been installed
    arrived,    \* volumes of which the notification is still to be called
    volumes,    \* mFvHandleList
    discovered, \* mDiscoveredList
    queue,      \* mScheduledQueue
    state,      \* for each flag of a driver entry, the entries where it is TRUE
    trusting,   \* the driver that CoreTrust found Untrusted and is to schedule
    image,      \* ImageHandle of each driver, and what became of the image
    found,      \* the instructions PUSH that were replaced by TRUE
    pc,         \* what the dispatcher does; "idle" if it is not running
    current,    \* the driver whose entry point runs
    link,       \* position of Link in mDiscoveredList
    iterator,   \* the last instruction PUSH at which Iterator has been
    ready,      \* ReadyToRun
    success,    \* whether ReturnStatus is EFI_SUCCESS
    frames,     \* calls of CoreInsertOnScheduledQueueWhileProcessingBeforeAndAfter
    \* history
    log,        \* the drivers these calls have scheduled, and the drivers that waited then
    late        \* whether a timer event has changed something since the last search

database   == <<installed, ever>>
lists      == <<arrived, volumes, discovered, queue, state, trusting>>
images     == <<image, found>>
dispatcher == <<pc, current, link, iterator, ready, success, frames>>
history    == <<log, late>>
vars == <<database, lists, images, dispatcher, history>>

-----------------------------------------------------------------------------
\* The elements of a sequence that are in D, in their order
Only(s, D) ==
    LET kept[i \in 0 .. Len(s)] ==
          IF i = 0 THEN << >>
          ELSE IF s[i] \in D THEN Append(kept[i - 1], s[i]) ELSE kept[i - 1]
    IN  kept[Len(s)]

-----------------------------------------------------------------------------
(***************************************************************************)
(* Dependency expressions.                                                 *)
(***************************************************************************)
First(d) == IF Depex[d] = << >> THEN "none" ELSE Depex[d][1].op
Sides == {"before", "after"}

Put(s, flag, ds) == [s EXCEPT ![flag] = @ \union ds]
Take(s, flag, ds) == [s EXCEPT ![flag] = @ \ ds]

CorePreProcessDepex(s, ds) ==
    LET asked == {d \in ds : First(d) = "sor"}
    IN  Put(Put(s, "unrequested", asked), "dependent", ds \ asked)

Readable(d) == d \in Wrapped => Extractor \in installed

CoreGetDepexSectionAndPreProccess(s, ds) ==
    LET read == {d \in ds : Readable(d)}
    IN  Put(Take(CorePreProcessDepex(s, read), "deferred", read), "deferred", ds \ read)

\* Instruction i of d, on the stack of a machine m, with TRUE for the protocols of the
\* instructions in held: one that fails ends it with FALSE.
Execute(d, held, m, i) ==
    LET op == Depex[d][i].op
        s == m.stack
        n == Len(s)
        Leave(k, b) == [m EXCEPT !.stack = Append(SubSeq(s, 1, n - k), b)]
    IN  IF m.done THEN m ELSE
        CASE op = "push" -> Leave(0, i \in held)
          [] op \in {"true", "false"} -> Leave(0, op = "true")
          [] op = "not" /\ n >= 1 -> Leave(1, ~s[n])
          [] op = "and" /\ n >= 2 -> Leave(2, s[n] /\ s[n - 1])
          [] op = "or" /\ n >= 2 -> Leave(2, s[n] \/ s[n - 1])
          [] op = "sor" /\ i = 1 -> m
          [] op = "end" /\ n >= 1 -> [m EXCEPT !.done = TRUE, !.result = s[n]]
          [] OTHER -> [m EXCEPT !.done = TRUE]

\* The machine after k instructions of d
Evaluate(d, held, k) ==
    LET after[i \in 0 .. k] ==
          IF i = 0 THEN [stack |-> << >>, done |-> FALSE, result |-> FALSE]
          ELSE Execute(d, held, after[i - 1], i)
    IN  after[k]

\* What the expression says, if the protocols of the instructions in held are there; and
\* the instructions PUSH that it comes to, which no value on the stack changes.
Holds(d, held) == Evaluate(d, held, Len(Depex[d])).result
Pushes(d) ==
    {i \in 1 .. Len(Depex[d]) : Depex[d][i].op = "push" /\ ~Evaluate(d, {}, i - 1).done}

CoreAllEfiServicesAvailable == Arch \subseteq ever

\* Mutant: a driver without an expression waits for nothing.
CoreIsSchedulable_AtOnce(d) ==
    IF First(d) = "none" THEN TRUE ELSE First(d) \notin Sides /\ Holds(d, found[d])

\* The end of an evaluation: each PUSH has found its protocol by then, or has not.
CoreIsSchedulable(d) ==
    CASE First(d) \in Sides -> FALSE
      [] First(d) = "none" -> CoreAllEfiServicesAvailable
      [] OTHER -> Holds(d, found[d])

-----------------------------------------------------------------------------
(***************************************************************************)
(* CoreFwVolEventProtocolNotify, for the volume that is next.              *)
(***************************************************************************)
\* A volume that was processed, or one of the same name
FvHasBeenProcessed(v) ==
    \E w \in volumes : v = w \/ (VolumeName[v] # None /\ VolumeName[v] = VolumeName[w])

\* Images whose expression cannot be read are opened at once, the others are drivers.
Bare(d) == d \in Images /\ (First(d) = "none" \/ ~Readable(d))
Listed(v) == Only(Files[v], {d \in Drivers : ~Bare(d)})

CoreAddToDriverList(s, new) == CoreGetDepexSectionAndPreProccess(s, ToSet(new))

\* Drivers of the a priori file go to the queue, whatever they depend on.
Schedule(s, ds) == Put(Take(s, "dependent", ds), "scheduled", ds)

\* The images in new give their volumes.
CoreProcessFvImageFile(now, new) ==
    /\ arrived' = now \o [i \in DOMAIN new |-> Inner[new[i]]]
    /\ ever' = ever \union {Inner[d] : d \in ToSet(new)}
    /\ UNCHANGED installed

\* An image that cannot be opened at once is lost.
CoreFwVolEventProtocolNotify ==
    /\ arrived # << >>
    /\ LET v == Head(arrived)
           apriori == Only(Apriori[v], ToSet(Listed(v)))
       IN  IF FvHasBeenProcessed(v)
           THEN /\ arrived' = Tail(arrived)
                /\ UNCHANGED <<database, volumes, discovered, queue, state>>
           ELSE /\ volumes' = volumes \union {v}
                /\ discovered' = discovered \o Listed(v)
                /\ state' = Schedule(CoreAddToDriverList(state, Listed(v)), ToSet(apriori))
                /\ queue' = queue \o apriori
                /\ \E opened \in SUBSET {d \in Drivers : Bare(d)} :
                      CoreProcessFvImageFile(Tail(arrived), Only(Files[v], opened))
    /\ UNCHANGED <<trusting, images, dispatcher, history>>

-----------------------------------------------------------------------------
(***************************************************************************)
(* What drivers, handlers, timer events and BDS call.  No code runs before *)
(* the notification functions for a new volume have returned.              *)
(***************************************************************************)
Quiet == arrived = << >>
Searching == pc \in {"scan", "depex", "exit"}

\* Timer events interrupt what else runs.
Calling(c, do, x) ==
    /\ Quiet /\ <<do, x>> \in Does[c]
    /\ \/ c = current /\ pc = "entry" /\ trusting = None
       \/ c = "handlers" /\ pc = "round" /\ trusting = None
       \/ c = "bds" /\ pc = "idle" /\ trusting = None
       \/ c = "timer"
    /\ late' = (late \/ (c = "timer" /\ Searching))
    /\ UNCHANGED <<log, images, dispatcher>>

\* Bound: each protocol and each volume is installed once.
InstallProtocol(c, x) ==
    /\ x \notin ever /\ Calling(c, "install", x)
    /\ ever' = ever \union {x}
    /\ IF x \in Volumes THEN arrived' = << x >> /\ UNCHANGED installed
       ELSE installed' = installed \union {x} /\ UNCHANGED arrived
    /\ UNCHANGED <<volumes, discovered, queue, state, trusting>>

UninstallProtocol(c, p) ==
    /\ p \in installed /\ Calling(c, "remove", p)
    /\ installed' = installed \ {p}
    /\ UNCHANGED <<ever, lists>>

\* The flag is tested before the lock is taken, but nobody moves a driver on from there
\* in between: the dispatcher does not run.
CoreSchedule(c, d) ==
    /\ d \in state.unrequested /\ Calling(c, "schedule", d)
    /\ state' = Put(Take(state, "unrequested", {d}), "dependent", {d})
    /\ UNCHANGED <<database, arrived, volumes, discovered, queue, trusting>>

Promote(d) ==
    /\ state' = Put(Take(state, "untrusted", {d}), "scheduled", {d})
    /\ queue' = Append(queue, d)

\* The flag is tested before the lock is taken, and not again: timer events may come in
\* between.  Bound: no timer event interrupts another one there.
CoreTrust(c, d) ==
    /\ d \in state.untrusted /\ Calling(c, "trust", d)
    /\ IF c = "timer" THEN Promote(d) /\ UNCHANGED trusting
       ELSE trusting' = d /\ UNCHANGED <<queue, state>>
    /\ UNCHANGED <<database, arrived, volumes, discovered>>

CoreTrustLocks ==
    /\ Quiet /\ trusting # None
    /\ Promote(trusting) /\ trusting' = None
    /\ UNCHANGED <<database, arrived, volumes, discovered, images, dispatcher, history>>

-----------------------------------------------------------------------------
(***************************************************************************)
(* CoreDispatcher.                                                         *)
(***************************************************************************)
At(p) == Quiet /\ trusting = None /\ frames = << >> /\ pc = p
Goto(p) == pc' = p /\ UNCHANGED <<current, link, iterator, ready, success, frames>>

CoreDispatcher ==
    /\ At("idle") /\ pc' = "drain" /\ success' = FALSE
    /\ UNCHANGED <<database, lists, images, current, link, iterator, ready, frames, history>>

\* CoreLoadImage.  An image that the security policy rejects keeps its handle.
CoreLoadImage ==
    /\ At("drain") /\ queue # << >>
    /\ LET d == Head(queue)
           off == Take(state, "scheduled", {d})
       IN  /\ image[d] = "none" /\ d \notin Images
           /\ \/ /\ "ok" \in Loads[d] /\ image' = [image EXCEPT ![d] = "loaded"]
                 /\ UNCHANGED <<queue, state>>
              \/ /\ "violation" \in Loads[d] /\ image' = [image EXCEPT ![d] = "violation"]
                 /\ state' = Put(off, "untrusted", {d}) /\ queue' = Tail(queue)
              \/ /\ "error" \in Loads[d] /\ UNCHANGED image
                 /\ state' = Put(off, "initialized", {d}) /\ queue' = Tail(queue)
    /\ UNCHANGED <<database, arrived, volumes, discovered, trusting, found, dispatcher, history>>

\* A driver leaves the queue, and CoreStartImage calls its entry point, if it was loaded
\* and not started before.  A volume that cannot be opened is lost.
CoreStartImage ==
    /\ At("drain") /\ queue # << >>
    /\ LET d == Head(queue)
       IN  /\ image[d] # "none" \/ d \in Images
           /\ state' = Put(Take(state, "scheduled", {d}), "initialized", {d})
           /\ IF image[d] = "loaded"
              THEN image' = [image EXCEPT ![d] = "started"] /\ pc' = "entry" /\ current' = d
              ELSE UNCHANGED <<image, pc, current>>
           /\ \/ d \in Images /\ CoreProcessFvImageFile(<< >>, << d >>)
              \/ UNCHANGED <<arrived, database>>
    /\ queue' = Tail(queue) /\ success' = TRUE
    /\ UNCHANGED <<volumes, discovered, trusting, found, link, iterator, ready, frames, history>>

EntryReturns ==
    /\ At("entry") /\ pc' = "drain" /\ current' = None
    /\ UNCHANGED <<database, lists, images, link, iterator, ready, success, frames, history>>

Search ==
    /\ pc' = "scan" /\ link' = 0 /\ ready' = FALSE /\ late' = FALSE
    /\ UNCHANGED <<database, lists, images, current, iterator, success, frames, log>>

\* DxeDispatchEvent is signaled if a driver was started.
Drained ==
    /\ At("drain") /\ queue = << >>
    /\ IF success THEN Goto("round") /\ UNCHANGED <<database, lists, images, history>>
       ELSE Search

HandlersReturn == At("round") /\ Search

Frame(s, d) == [driver |-> d, side |-> "before", at |-> 0, known |-> s.dependent]

\* The driver at which the search is
Sought == discovered[link]

\* Mutant: an expression that could not be read is not read again.
SearchDriver_NoRetry ==
    /\ At("scan") /\ link < Len(discovered) /\ link' = link + 1 /\ iterator' = 0
    /\ pc' = IF discovered[link + 1] \in state.dependent THEN "depex" ELSE "scan"
    /\ UNCHANGED <<database, lists, images, current, ready, success, frames, history>>

\* The next driver of the list; its expression is read again if it could not be.
SearchDriver ==
    /\ At("scan") /\ link < Len(discovered) /\ link' = link + 1 /\ iterator' = 0
    /\ LET d == discovered[link + 1]
       IN  /\ state' = IF d \in state.deferred
                       THEN CoreGetDepexSectionAndPreProccess(state, {d}) ELSE state
           /\ pc' = IF d \in state'.dependent THEN "depex" ELSE "scan"
    /\ UNCHANGED <<database, arrived, volumes, discovered, queue, trusting, images, current,
                   ready, success, frames, history>>

\* The instructions that the evaluation has yet to come to.  Timer events come between
\* any two of them.
Unread == {i \in Pushes(Sought) : i > iterator}

CoreLocateProtocol ==
    /\ At("depex") /\ Unread # {}
    /\ LET i == Min(Unread)
       IN  /\ iterator' = i
           /\ found' = IF Depex[Sought][i].guid \in installed
                       THEN [found EXCEPT ![Sought] = @ \union {i}] ELSE found
    /\ UNCHANGED <<database, lists, image, pc, current, link, ready, success, frames, history>>

Evaluated ==
    /\ At("depex") /\ Unread = {} /\ pc' = "scan"
    /\ IF CoreIsSchedulable(Sought) THEN ready' = TRUE /\ frames' = << Frame(state, Sought) >>
       ELSE UNCHANGED <<ready, frames>>
    /\ UNCHANGED <<database, lists, images, current, link, iterator, success, history>>

\* Mutant: another round follows a driver that was started, not one that was scheduled.
SearchEnds_Success ==
    /\ At("scan") /\ link = Len(discovered) /\ Goto(IF success THEN "drain" ELSE "exit")
    /\ UNCHANGED <<database, lists, images, history>>

SearchEnds ==
    /\ At("scan") /\ link = Len(discovered) /\ Goto(IF ready THEN "drain" ELSE "exit")
    /\ UNCHANGED <<database, lists, images, history>>

DispatcherReturns ==
    /\ At("exit") /\ Goto("idle")
    /\ UNCHANGED <<database, lists, images, history>>

-----------------------------------------------------------------------------
(***************************************************************************)
(* CoreInsertOnScheduledQueueWhileProcessingBeforeAndAfter: a frame is a   *)
(* call of it, for a driver, in the loop for one side, up to a position;   *)
(* the drivers that were dependent when it was called are history.         *)
(***************************************************************************)
Top == Last(frames)

\* Mutant: the loop does not ask whether the driver is dependent.
Followers_Any ==
    {i \in Top.at + 1 .. Len(discovered) :
       LET d == discovered[i]
       IN  First(d) = Top.side /\ d # Top.driver /\ Depex[d][1].guid = Name[Top.driver]}

\* The drivers that the loop of the last frame has yet to insert
Followers ==
    {i \in Top.at + 1 .. Len(discovered) :
       LET d == discovered[i]
       IN  /\ First(d) = Top.side /\ d \in state.dependent /\ d # Top.driver
           /\ Depex[d][1].guid = Name[Top.driver]}

Inserting == Quiet /\ frames # << >>

Insert ==
    /\ Inserting /\ Followers # {}
    /\ frames' = [frames EXCEPT ![Len(frames)].at = Min(Followers)]
                   \o << Frame(state, discovered[Min(Followers)]) >>
    /\ UNCHANGED <<database, lists, images, pc, current, link, iterator, ready, success, history>>

InsertTail ==
    /\ Inserting /\ Followers = {} /\ Top.side = "before"
    /\ state' = Schedule(state, {Top.driver})
    /\ queue' = Append(queue, Top.driver)
    /\ log' = Append(log, [driver |-> Top.driver, known |-> Top.known])
    /\ frames' = [frames EXCEPT ![Len(frames)].side = "after", ![Len(frames)].at = 0]
    /\ UNCHANGED <<database, arrived, volumes, discovered, trusting, images, pc, current,
                   link, iterator, ready, success, late>>

InsertReturns ==
    /\ Inserting /\ Followers = {} /\ Top.side = "after" /\ frames' = Front(frames)
    /\ UNCHANGED <<database, lists, images, pc, current, link, iterator, ready, success, history>>

-----------------------------------------------------------------------------
Flags == {"dependent", "unrequested", "scheduled", "untrusted", "initialized", "deferred"}

\* The volumes of HOBs arrive before the dispatcher runs for the first time.
Init ==
    /\ installed = {} /\ ever = {} /\ arrived = << >> /\ volumes = {}
    /\ discovered = << >> /\ queue = << >> /\ state = [flag \in Flags |-> {}]
    /\ trusting = None /\ iterator = 0
    /\ image = [d \in Drivers |-> "none"] /\ found = [d \in Drivers |-> {}]
    /\ pc = "idle" /\ current = None /\ link = 0 /\ ready = FALSE /\ success = FALSE
    /\ frames = << >> /\ log = << >> /\ late = FALSE

Core ==
    \/ CoreFwVolEventProtocolNotify \/ CoreLoadImage \/ CoreStartImage \/ EntryReturns
    \/ Drained \/ HandlersReturn \/ SearchDriver \/ CoreLocateProtocol \/ Evaluated
    \/ SearchEnds \/ DispatcherReturns \/ Insert \/ InsertTail \/ InsertReturns
    \/ CoreTrustLocks

Service(c) ==
    \/ \E x \in Things : InstallProtocol(c, x)
    \/ \E p \in Protocols : UninstallProtocol(c, p)
    \/ \E d \in Drivers : CoreSchedule(c, d) \/ CoreTrust(c, d)

Next == Core \/ CoreDispatcher \/ \E c \in Callers : Service(c)

\* The dispatcher, and the entry points and handlers that it calls, go on.
Spec == Init /\ [][Next]_vars /\ WF_vars(Core)

-----------------------------------------------------------------------------
(***************************************************************************)
(* What the theorems assume of the drivers.                                *)
(***************************************************************************)
\* The code follows "before" and "after" through drivers of one name without an end, and
\* CoreSchedule and a retry set the flag Dependent of an a priori driver again.
WellNamed == \A d, e \in Drivers : Name[d] = Name[e] => d = e
AprioriReady ==
    \A v \in Volumes : \A d \in ToSet(Apriori[v]) : First(d) # "sor" /\ d \notin Wrapped

\* Wants is what the expression means, whenever its protocols were found: true of one that
\* names each protocol once.
Pushed(d, held) == {Depex[d][i].guid : i \in held}
Understood ==
    \A d \in Drivers : First(d) \notin Sides \union {"none"} =>
       \A held \in SUBSET Pushes(d), there \in SUBSET Protocols :
          there \intersect Pushed(d, Pushes(d)) = Pushed(d, held) =>
             (Holds(d, held) <=> there \in Wants[d])

\* Timer events leave the protocols of an expression alone, or it is one that more
\* protocols never make false: without NOT.
Untouched(d) ==
    \A p \in Pushed(d, Pushes(d)) :
       {<<"install", p>>, <<"remove", p>>} \intersect Does["timer"] = {}
Growing(d) == \A x, y \in SUBSET Protocols : x \subseteq y /\ x \in Wants[d] => y \in Wants[d]
Steady == \A d \in Drivers : Untouched(d) \/ Growing(d)

\* Timer events trust no driver that others trust.
TrustedOnce ==
    \A c \in Callers \ {"timer"} :
       Does[c] \intersect Does["timer"] \intersect ({"trust"} \X Drivers) = {}

\* No driver comes to the queue between the last one and the search: the loop ends with
\* what is on the queue if the search finds nothing (Dispatcher.c:578).
QuietRounds ==
    \A c \in {"handlers", "timer"} :
       Does[c] \intersect (({"install"} \X Volumes) \union ({"trust"} \X Drivers)) = {}

-----------------------------------------------------------------------------
(***************************************************************************)
(* Properties.                                                             *)
(***************************************************************************)
\* Types.
TypeOK ==
    /\ installed \subseteq Protocols /\ ever \subseteq Things /\ installed \subseteq ever
    /\ volumes \subseteq Volumes /\ ToSet(arrived) \subseteq Volumes
    /\ ToSet(queue) \subseteq ToSet(discovered) /\ ToSet(discovered) \subseteq Drivers
    /\ DOMAIN state = Flags
    /\ image \in [Drivers -> {"none", "loaded", "violation", "started"}]
    /\ pc \in {"idle", "drain", "entry", "round", "scan", "depex", "exit"}
    /\ trusting \in Drivers \union {None} /\ iterator \in Nat
    /\ current \in Drivers \union {None} /\ link \in 0 .. Len(discovered)
    /\ ready \in BOOLEAN /\ success \in BOOLEAN /\ late \in BOOLEAN

\* Each discovered driver is in exactly one state, so that it is scheduled, loaded and
\* initialized once, and the queue holds those that are scheduled, each once.  The calls
\* that insert drivers never come back to one they are in.
OneState ==
    /\ IsInjective(discovered) /\ IsInjective(queue)
    /\ \A d \in ToSet(discovered) : Cardinality({flag \in Flags : d \in state[flag]}) = 1
    /\ ToSet(queue) = state.scheduled
    /\ IsInjective([i \in DOMAIN frames |-> frames[i].driver])

\* A driver that names another one it comes before or after was put on the queue with
\* that one, on its side.
InOrder ==
    \A i \in DOMAIN log :
       LET d == log[i].driver
           Is(e) == Name[e] = Depex[d][1].guid
       IN  /\ First(d) = "before" =>
                 \/ \E j \in i + 1 .. Len(log) : Is(log[j].driver)
                 \/ \E j \in DOMAIN frames : Is(frames[j].driver)
           /\ First(d) = "after" => \E j \in 1 .. i - 1 : Is(log[j].driver)

\* The safety invariant: types, one state for each driver, and their order.
DispatcherInv == TypeOK /\ OneState /\ InOrder

\* What an evaluation may take to be installed: a protocol that was there at an earlier
\* one counts for ever (Dependency.c:313), whether it has been removed since or not.
Readings == {installed \union gone : gone \in SUBSET ((ever \intersect Protocols) \ installed)}

\* The search puts a driver on the queue only if its expression holds, or all UEFI
\* services are there for one that has none.
DepexHeld ==
    [][frames = << >> /\ frames' # << >> =>
          LET d == frames'[1].driver
          IN  IF First(d) = "none" THEN Arch \subseteq ever
              ELSE Readings \intersect Wants[d] # {}]_vars

\* A driver that could be on the queue: its expression holds however it is read, or the
\* driver that it comes before or after was put there while it was waiting.
Startable(d) ==
    \/ d \in state.deferred /\ Readable(d)
    \/ /\ d \in state.dependent
       /\ \/ First(d) = "none" /\ Arch \subseteq ever
          \/ /\ First(d) \in Sides
             /\ \E i \in DOMAIN log :
                   Name[log[i].driver] = Depex[d][1].guid /\ d \in log[i].known
          \/ First(d) \notin Sides \union {"none"} /\ Readings \subseteq Wants[d]

\* "It exits when there are no more drivers to run" (Dispatcher.c:396): when it returns,
\* the queue is empty and no driver could be put on it, but for what a timer event has
\* brought during the last search.
NoneReady ==
    pc = "exit" /\ Quiet /\ ~late =>
       queue = << >> /\ \A d \in ToSet(discovered) : ~Startable(d)

\* CoreDispatcher returns, whatever drivers install on the way.
Returns == pc # "idle" ~> pc = "idle"

\* A driver that is promoted to the trusted state, from which "it would have already been
\* loaded" (Dispatcher.c:459), is started when its turn comes.
TrustedStarts == \A d \in state.initialized : image[d] # "violation"

=============================================================================
