-------------------------- MODULE ProtocolDatabase --------------------------
(***************************************************************************)
(* The interfaces of one protocol in the handle database: who installs,    *)
(* opens and removes them, and who is told of them                         *)
(* (MdeModulePkg/Core/Dxe/Hand).                                           *)
(*                                                                         *)
(* Each service holds gProtocolDatabaseLock, which keeps event             *)
(* notifications away, except while it calls the Stop and Start functions  *)
(* of drivers.  A service that has let go of the lock is a frame; the      *)
(* drivers and the notifications that run then call services in their      *)
(* turn, which end before it goes on.                                      *)
(***************************************************************************)
EXTENDS EventList, FiniteSets

CONSTANTS
    Handles,   \* handles, each with other protocols too, so that none is freed
    Drivers,   \* drivers of the driver model
    Exclusive, \* the ones of them that open exclusively
    Apps,      \* agents of another kind, which open exclusively
    Regs,      \* registrations, each with an event of its own
    None,
    Owned,     \* nobody touches an interface from which drivers are being stopped
    Closes,    \* a driver whose Stop succeeds has closed what it had opened
    MaxNest,   \* bound: services on top of each other
    MaxCalls   \* bound: calls that open, connect, install or uninstall, or register

ASSUME ProtocolAssumption ==
    /\ Exclusive \subseteq Drivers /\ Owned \in BOOLEAN /\ Closes \in BOOLEAN
    /\ MaxNest \in Nat /\ MaxCalls \in Nat
    /\ None \notin Handles \union Drivers \union Apps

VARIABLES
    list,       \* Protocols of the PROTOCOL_ENTRY: handles, as one has one interface
    version,    \* how often the interface of a handle has been replaced, modulo 2
    openList,   \* OpenList of the interface of each handle
    registered, \* Notify of the PROTOCOL_ENTRY
    position,   \* Position of each registration: a handle, or None for the list head
    signaled,   \* the registrations whose events are signaled
    frames,     \* the services that have let go of the lock, the last one on top
    calls       \* how many calls there were

database == <<list, version>>
notify   == <<registered, position, signaled>>
vars == <<database, openList, notify, frames, calls>>

-----------------------------------------------------------------------------
(***************************************************************************)
(* Lists, and frames.                                                      *)
(***************************************************************************)
Installed(h) == h \in ToSet(list)
Index(h) == CHOOSE i \in DOMAIN list : list[i] = h

\* The handles behind a position
Behind(x) == SubSeq(list, (IF x = None THEN 0 ELSE Index(x)) + 1, Len(list))

\* An entry of an OpenList
Entry(a, how) == [agent |-> a, how |-> how]
Hows == {"driver", "driver exclusive", "exclusive", "get"}
IsByDriver(e) == e.how \in {"driver", "driver exclusive"}
IsExclusive(e) == e.how \in {"driver exclusive", "exclusive"}
ByDriver(h) == {e \in openList[h] : IsByDriver(e)}
HowOf(d) == IF d \in Exclusive THEN "driver exclusive" ELSE "driver"

(***************************************************************************)
(* A frame: the service, its handle, the agent and attributes of           *)
(* OpenProtocol, the driver to be stopped, the drivers yet to be started.  *)
(***************************************************************************)
Frame(do, h) == [do |-> do, h |-> h, agent |-> None, how |-> "get",
                 stop |-> None, left |-> {}, at |-> "lock"]
Top == Last(frames)
On(do) == frames # << >> /\ Top.do = do
Stopping == {"uninstall", "reinstall", "open"}
At(at) == frames # << >> /\ Top.at = at

Push(f) == frames' = Append(frames, f)
Pop == frames' = Front(frames)
Replace(f) == frames' = Append(Front(frames), f)

\* A call may come from a driver or a notification, whenever the lock is free.
MayCall == Len(frames) < MaxNest /\ calls < MaxCalls /\ calls' = calls + 1
MayTouch(h) ==
    Owned => \A i \in DOMAIN frames :
        ~(frames[i].h = h /\ frames[i].do \in Stopping /\ frames[i].at # "connect")

-----------------------------------------------------------------------------
(***************************************************************************)
(* Notify.c, Locate.c: notifications.                                      *)
(***************************************************************************)
CoreNotifyProtocolEntry == signaled' = signaled \union registered

\* A registrant signals the event itself, to see what is there already.
CoreRegisterProtocolNotify(r) ==
    /\ MayCall /\ r \notin registered /\ registered' = registered \union {r}
    /\ position' = [position EXCEPT ![r] = None] /\ signaled' = signaled \union {r}
    /\ UNCHANGED <<database, openList, frames>>

Draining(r) == \E i \in DOMAIN frames : frames[i].do = "notification" /\ frames[i].agent = r

\* CloseEvent, in the notification function or out of it
CoreUnregisterProtocolNotify(r) ==
    /\ r \in registered
    /\ Draining(r) => On("notification") /\ Top.agent = r
    /\ registered' = registered \ {r} /\ signaled' = signaled \ {r}
    /\ position' = [position EXCEPT ![r] = None]
    /\ IF Draining(r) THEN Pop ELSE UNCHANGED frames
    /\ UNCHANGED <<database, openList, calls>>

\* The notification function is called: it asks for handles until there are no more.
Notification(r) ==
    /\ Len(frames) < MaxNest /\ r \in signaled /\ ~Draining(r)
    /\ signaled' = signaled \ {r} /\ Push([Frame("notification", None) EXCEPT !.agent = r])
    /\ UNCHANGED <<database, openList, registered, position, calls>>

Advance(r) == position' = [position EXCEPT ![r] = Head(Behind(@))]

CoreLocateProtocol ==
    /\ On("notification")
    /\ IF Behind(position[Top.agent]) = << >> THEN Pop /\ UNCHANGED position
       ELSE Advance(Top.agent) /\ UNCHANGED frames
    /\ UNCHANGED <<database, openList, registered, signaled, calls>>

\* Mutant: a position is moved to the next interface instead of the one before.
BackUp_Next(h) ==
    position' = [r \in Regs |->
        IF position[r] # h THEN position[r]
        ELSE IF Index(h) = Len(list) THEN None ELSE list[Index(h) + 1]]

\* CoreRemoveInterfaceFromProtocol: a position on it is backed up.
BackUp(h) ==
    position' = [r \in Regs |->
        IF position[r] # h THEN position[r]
        ELSE IF Index(h) = 1 THEN None ELSE list[Index(h) - 1]]

-----------------------------------------------------------------------------
(***************************************************************************)
(* Handle.c: interfaces.                                                   *)
(***************************************************************************)
\* Mutant: the events are not signaled.
CoreInstallProtocolInterface_Silent(h) ==
    /\ MayCall /\ MayTouch(h) /\ ~Installed(h)
    /\ list' = Append(list, h) /\ openList' = [openList EXCEPT ![h] = {}]
    /\ UNCHANGED <<version, notify, frames>>

\* It is refused on a handle that has one, which HandleProtocol has opened by then.
CoreInstallProtocolInterface(h) ==
    /\ MayCall /\ MayTouch(h)
    /\ IF Installed(h)
       THEN /\ openList' = [openList EXCEPT ![h] = @ \union {Entry(None, "get")}]
            /\ UNCHANGED <<database, signaled>>
       ELSE /\ list' = Append(list, h) /\ openList' = [openList EXCEPT ![h] = {}]
            /\ CoreNotifyProtocolEntry /\ UNCHANGED version
    /\ UNCHANGED <<registered, position, frames>>

\* CoreUninstallProtocolInterface and CoreReinstallProtocolInterface, until they have
\* found the interface
CoreUninstall(h, do) ==
    /\ MayCall /\ MayTouch(h) /\ Installed(h) /\ Push(Frame(do, h))
    /\ UNCHANGED <<database, openList, notify>>

\* CoreOpenProtocol, on top of the frames fs
Open(h, a, how, fs) ==
    LET excl == \E e \in openList[h] : IsExclusive(e)
        insert == openList' = [openList EXCEPT ![h] = @ \union {Entry(a, how)}] /\ frames' = fs
        fail == frames' = fs /\ UNCHANGED openList
        stop == /\ frames' = Append(fs, [Frame("open", h) EXCEPT !.agent = a, !.how = how])
                /\ UNCHANGED openList
    IN  IF ~Installed(h) THEN fail
        ELSE CASE how = "get" -> insert
               [] how = "driver" -> IF excl \/ ByDriver(h) # {} THEN fail ELSE insert
               [] OTHER -> IF excl THEN fail ELSE IF ByDriver(h) # {} THEN stop ELSE insert

CoreOpenProtocol(h, a, how) ==
    /\ MayCall /\ (how = "exclusive" => MayTouch(h))
    /\ Open(h, a, how, frames)
    /\ UNCHANGED <<database, notify>>

CoreCloseProtocol(h, a) ==
    /\ \E e \in openList[h] : e.agent = a
    /\ openList' = [openList EXCEPT ![h] = {e \in @ : e.agent # a}]
    /\ UNCHANGED <<database, notify, frames, calls>>

-----------------------------------------------------------------------------
(***************************************************************************)
(* Drivers are stopped by who removes, replaces or exclusively opens their *)
(* interface (CoreDisconnectControllersUsingProtocolInterface and the loop *)
(* of CoreOpenProtocol), or by who calls CoreDisconnectController.         *)
(***************************************************************************)
Denied == Replace([Top EXCEPT !.do = "denied", !.at = "connect", !.left = Drivers])

\* The next one in the OpenList; the lock is let go of.
FindDriver ==
    /\ At("lock") /\ Top.do \in Stopping
    /\ \E e \in ByDriver(Top.h) : Replace([Top EXCEPT !.at = "stop", !.stop = e.agent])
    /\ UNCHANGED <<database, openList, notify, calls>>

CoreDisconnectController(h, d) ==
    /\ MayCall /\ MayTouch(h) /\ Entry(d, HowOf(d)) \in openList[h]
    /\ Push([Frame("disconnect", h) EXCEPT !.at = "stop", !.stop = d])
    /\ UNCHANGED <<database, openList, notify>>

\* Stop succeeds, which is all that is looked at, and the lock is taken again: what
\* the driver had opened is closed, if it is one that does so.
Stop ==
    LET closed == [openList EXCEPT ![Top.h] = {e \in @ : e.agent # Top.stop}]
    IN  /\ At("stop") /\ \E e \in ByDriver(Top.h) : e.agent = Top.stop
        /\ openList' \in {closed, IF Closes THEN closed ELSE openList}
        /\ IF On("disconnect") THEN Pop ELSE Replace([Top EXCEPT !.at = "lock"])
        /\ UNCHANGED <<database, notify, calls>>

\* Mutant: the loops go on when Stop fails.
StopFails_Again ==
    /\ At("stop")
    /\ IF On("disconnect") THEN Pop ELSE Replace([Top EXCEPT !.at = "lock"])
    /\ UNCHANGED <<database, openList, notify, calls>>

\* Stop fails, or the driver does not manage the handle any more.
StopFails ==
    /\ At("stop")
    /\ IF Top.do \in {"uninstall", "reinstall"} THEN Denied ELSE Pop
    /\ UNCHANGED <<database, openList, notify, calls>>

\* No driver is left.
Stopped(do) == At("lock") /\ On(do) /\ ByDriver(Top.h) = {}
\* Mutant: only drivers are looked for, not who has opened exclusively.
Left_Drivers == ByDriver(Top.h)

Left == {e \in openList[Top.h] : e.how # "get"}
CloseOthers == openList' = [openList EXCEPT ![Top.h] = Left]

AccessDenied ==
    /\ Stopped("uninstall") \/ Stopped("reinstall")
    /\ Left # {} /\ CloseOthers /\ Denied
    /\ UNCHANGED <<database, notify, calls>>

CoreUninstallProtocolInterface ==
    /\ Stopped("uninstall") /\ Left = {} /\ CloseOthers
    /\ BackUp(Top.h) /\ list' = Unlink(list, Top.h) /\ Pop
    /\ UNCHANGED <<version, registered, signaled, calls>>

CoreReinstallProtocolInterface ==
    /\ Stopped("reinstall") /\ Left = {} /\ CloseOthers
    /\ BackUp(Top.h) /\ list' = Append(Unlink(list, Top.h), Top.h)
    /\ version' = [version EXCEPT ![Top.h] = 1 - @]
    /\ Replace([Top EXCEPT !.at = "connect", !.left = Drivers])
    /\ UNCHANGED <<registered, signaled, calls>>

OpenExclusive ==
    /\ Stopped("open")
    /\ openList' = [openList EXCEPT ![Top.h] = @ \union {Entry(Top.agent, Top.how)}] /\ Pop
    /\ UNCHANGED <<database, notify, calls>>

-----------------------------------------------------------------------------
(***************************************************************************)
(* CoreConnectController: each driver that supports the handle is started. *)
(***************************************************************************)
CoreConnectController(h) ==
    /\ MayCall /\ Push([Frame("connect", h) EXCEPT !.at = "connect", !.left = Drivers])
    /\ UNCHANGED <<database, openList, notify>>

Started(d) == Append(Front(frames), [Top EXCEPT !.left = @ \ {d}])

Start(d) ==
    /\ At("connect") /\ d \in Top.left
    /\ Open(Top.h, d, HowOf(d), Started(d))
    /\ UNCHANGED <<database, notify, calls>>

\* It does not support the handle, or does not start.
NotStarted(d) ==
    /\ At("connect") /\ d \in Top.left /\ frames' = Started(d)
    /\ UNCHANGED <<database, openList, notify, calls>>

\* Mutant: an interface that is replaced is not signaled.
Connected_Silent ==
    /\ At("connect") /\ Top.left = {} /\ Pop
    /\ UNCHANGED <<database, openList, notify, calls>>

\* CoreReinstallProtocolInterface then signals the events.
Connected ==
    /\ At("connect") /\ Top.left = {} /\ Pop
    /\ IF On("reinstall") THEN CoreNotifyProtocolEntry ELSE UNCHANGED signaled
    /\ UNCHANGED <<database, openList, registered, position, calls>>

-----------------------------------------------------------------------------
Init ==
    /\ list = << >> /\ version = [h \in Handles |-> 0]
    /\ openList = [h \in Handles |-> {}]
    /\ registered = {} /\ position = [r \in Regs |-> None] /\ signaled = {}
    /\ frames = << >> /\ calls = 0

Call ==
    \/ \E h \in Handles :
          \/ CoreInstallProtocolInterface(h) \/ CoreConnectController(h)
          \/ \E do \in {"uninstall", "reinstall"} : CoreUninstall(h, do)
          \/ \E d \in Drivers : CoreDisconnectController(h, d)
          \/ \E a \in Apps :
                \/ CoreCloseProtocol(h, a)
                \/ \E how \in {"exclusive", "get"} : CoreOpenProtocol(h, a, how)
    \/ \E r \in Regs : CoreRegisterProtocolNotify(r) \/ CoreUnregisterProtocolNotify(r)

GoOn ==
    \/ FindDriver \/ Stop \/ StopFails \/ AccessDenied \/ Connected
    \/ CoreUninstallProtocolInterface \/ CoreReinstallProtocolInterface \/ OpenExclusive
    \/ \E d \in Drivers : Start(d) \/ NotStarted(d)
    \/ CoreLocateProtocol

Next == Call \/ GoOn \/ \E r \in Regs : Notification(r)

\* Functions that are called return, and an event that is signaled is dispatched.
Fairness == WF_vars(GoOn) /\ \A r \in Regs : WF_vars(Notification(r))

Spec == Init /\ [][Next]_vars /\ Fairness

-----------------------------------------------------------------------------
(***************************************************************************)
(* Properties.                                                             *)
(***************************************************************************)
\* Types; a position is in the list, which has no handle twice.
TypeOK ==
    /\ list \in Seq(Handles) /\ IsInjective(list) /\ version \in [Handles -> 0 .. 1]
    /\ openList \in [Handles -> SUBSET [agent : Drivers \union Apps \union {None}, how : Hows]]
    /\ registered \subseteq Regs /\ signaled \subseteq registered
    /\ \A r \in Regs : position[r] = None \/ Installed(position[r])
    /\ \A i \in DOMAIN frames : frames[i].h \in Handles \union {None}
    /\ calls \in 0 .. MaxCalls

\* One agent at most manages an interface: a driver, or who has opened it exclusively
\* (Handle.c:1117-1146).
OneManager == \A h \in Handles : Cardinality({e \in openList[h] : e.how # "get"}) <= 1

\* An interface is not removed or replaced while a driver or an application manages it,
\* whatever happens while others are stopped.
NotUnderItsUsers ==
    [][\A h \in Handles : (\E e \in openList[h] : e.how # "get") =>
          Installed(h)' /\ version'[h] = version[h]]_vars

\* A registrant that has yet to see an interface will be called, or is being called;
\* a service that has replaced an interface has yet to signal it.
NobodyMissed ==
    \A r \in registered : Behind(position[r]) # << >> =>
       \/ r \in signaled \/ Draining(r)
       \/ \E i \in DOMAIN frames : frames[i].do = "reinstall" /\ frames[i].at = "connect"

\* The safety invariant: types, one manager of an interface, and nobody missed.
DatabaseInv == TypeOK /\ OneManager /\ NobodyMissed

\* And in the end it has seen all.
AllSeen ==
    \A r \in Regs :
       (r \in registered /\ Behind(position[r]) # << >>)
          ~> (r \notin registered \/ Behind(position[r]) = << >>)

\* Every service returns: stopping drivers one after the other ends, though others are
\* started meanwhile.
Returns == (frames # << >>) ~> (frames = << >>)

\* Positions that are backed up tell each registration of each interface once.
Unseen == [r \in Regs |-> IF r \in registered THEN Behind(position[r]) ELSE << >>]

Notify == INSTANCE ProtocolNotify WITH installed <- list, unseen <- Unseen

ImplementsNotify == Notify!Spec

=============================================================================
