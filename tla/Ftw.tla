-------------------------------- MODULE Ftw --------------------------------
(***************************************************************************)
(* The fault tolerant write driver                                         *)
(* (MdeModulePkg/Universal/FaultTolerantWriteDxe).                         *)
(*                                                                         *)
(* It updates a block of flash by way of a spare block, and keeps a journal*)
(* of headers and records in a work space.  State bits are cleared one at a*)
(* time, so each is an atomic step; erasing a block and writing more than a*)
(* byte are steps that a power loss or a device error may tear.  The driver*)
(* runs in SMM, one call at a time: there is no interleaving, but the power*)
(* may fail between any two steps, those of recovery included.             *)
(*                                                                         *)
(* The work space is an array of QueueSize units: a write header and a     *)
(* record take one unit each, and so does the private data of a record.    *)
(* The copy of the work space in memory is read anew by WorkSpaceRefresh at*)
(* the start of each service, so it is not modelled apart from the flash.  *)
(***************************************************************************)
EXTENDS Integers, Sequences, FiniteSets

CONSTANTS
    Blocks,      \* target blocks
    Values,      \* contents of target blocks
    None,        \* no block, no request
    Erased,      \* content of an erased block
    Torn,        \* content that a power loss or an error left behind
    QueueSize,   \* size of the work space without its header, in units
    Allocs,      \* pairs <<NumberOfWrites, PrivateDataSize>> for FtwAllocate
    Styles,      \* callers "allocate" before each write, write "direct"ly, or do
                 \* that and call nothing else on a device that may be "faulty"
    Others,      \* other services called: "abort", "restart", "getlast"
    MaxCrashes,  \* bound: power losses, device errors included
    MaxErrors    \* bound: device errors

Huge == QueueSize + 1    \* a number of writes that no work space holds

ASSUME FtwAssumption ==
    /\ None \notin Blocks
    /\ Erased \notin Values /\ Torn \notin Values /\ Erased # Torn
    /\ QueueSize \in Nat \ {0, 1}
    /\ Allocs \subseteq (Nat \ {0}) \X Nat
    /\ Styles \subseteq {"allocate", "direct", "faulty"} /\ Others \subseteq {"abort", "restart", "getlast"}
    /\ MaxCrashes \in Nat /\ MaxErrors \in Nat

VARIABLES
    work,     \* the working block: state of its header, and the journal
    spare,    \* the spare block
    block,    \* the target blocks
    todo,     \* steps that the service in progress has left
    hdr, rec, \* FtwLastWriteHeader and FtwLastWriteRecord, as positions
    at,       \* Offset in FtwAllocate
    mem,      \* buffers: saved spare, work space to write, block read
    op,       \* the service in progress and its arguments
    up,       \* the protocol is installed
    answer,   \* what the last FtwWrite returned
    granted,  \* history: FtwAllocate succeeded and nothing came after it
    style,    \* what the callers do, from the start on
    crashes,  \* number of power losses
    errors    \* number of device errors

flash == <<work, spare, block>>
ram   == <<hdr, rec, at, mem>>
call  == <<op, up, answer, granted, style>>
vars  == <<flash, todo, ram, call, crashes, errors>>

-----------------------------------------------------------------------------
(***************************************************************************)
(* The journal.  Headers and records have their three state bits in the    *)
(* same place: HeaderAllocated, WritesAllocated and Complete of a header,  *)
(* BootBlockUpdate, SpareComplete and DestinationComplete of a record.     *)
(***************************************************************************)
Positions == 0 .. QueueSize - 1

Cell(b0, n, p, blk) ==
    [b0 |-> b0, b1 |-> FALSE, b2 |-> FALSE, n |-> n, p |-> p, blk |-> blk]

NoCell      == Cell(FALSE, Huge, 0, None)
Header(n, p) == Cell(TRUE, n, p, None)
Record(b)   == Cell(FALSE, Huge, 0, b)

\* The state byte of a header is written first.  Where its counts are still
\* all ones, sums with them wrap around: the size of the write comes out as one
\* byte, or the next header is out of the work space.  All that is known of a
\* torn record is that its state bits are not set.
TornHeaders == {Header(Huge, 0), Header(Huge, QueueSize)}
TornRecord  == Record(Torn)

Clean   == [i \in Positions |-> NoCell]
Garbage == [Clean EXCEPT ![0] = [Header(Huge, QueueSize) EXCEPT !.b2 = TRUE]]

\* FTW_WRITE_TOTAL_SIZE
Size(n, p) == IF n = Huge THEN 1 + p ELSE 1 + n * (1 + p)

\* FtwGetLastWriteHeader: skip complete headers; QueueSize or more is an error.
LastHeader(q) ==
    LET scan[i \in Positions] ==
            IF ~q[i].b2 THEN i
            ELSE LET j == i + Size(q[i].n, q[i].p)
                 IN  IF j \in Positions THEN scan[j] ELSE j
    IN  scan[0]

\* FtwGetLastWriteRecord: the first without DestinationComplete, or the last.
RecordAt(h, p, i) == h + 1 + i * (1 + p)
LastRecord(q, h) ==
    LET n == q[h].n
        p == q[h].p
        open == {i \in Positions : /\ i < n /\ RecordAt(h, p, i) \in Positions
                                   /\ ~q[RecordAt(h, p, i)].b2}
    IN  IF open = {} THEN RecordAt(h, p, n - 1)
        ELSE RecordAt(h, p, CHOOSE i \in open : \A j \in open : i <= j)

IsFirst(h, r)    == r = h + 1
IsLast(q, h, r)  == r = RecordAt(h, q[h].p, q[h].n - 1)

\* FtwReclaimWorkSpace: what is kept of a journal, moved to its start.
Kept(q) ==
    LET h == LastHeader(q)
    IN  IF h \in Positions /\ q[h].b0 /\ ~q[h].b2
        THEN [i \in Positions |->
                IF i < Size(q[h].n, q[h].p) /\ h + i \in Positions
                THEN q[h + i] ELSE NoCell]
        ELSE Clean

(***************************************************************************)
(* A work space: its header is "none" if the signature or the CRC is wrong;*)
(* otherwise neither state bit is set ("init"), WorkingBlockValid is       *)
(* ("valid"), or WorkingBlockInvalid is ("invalid").                       *)
(***************************************************************************)
Space(state, queue) == [state |-> state, queue |-> queue]
IsSpace(c) == c \notin Values \cup {Erased, Torn}

SetValid(w)   == IF w.state = "init" THEN [w EXCEPT !.state = "valid"] ELSE w
SetInvalid(w) == IF w.state = "none" THEN w ELSE [w EXCEPT !.state = "invalid"]

\* IsValidWorkSpace
SpareIsValid == IsSpace(spare) /\ spare.state = "valid"

NoMem == [saved |-> Erased, space |-> Space("none", Clean), buf |-> Erased]
NoOp  == [kind |-> "none", blk |-> None, val |-> None, n |-> 0, p |-> 0,
          private |-> FALSE]

-----------------------------------------------------------------------------
(***************************************************************************)
(* Steps.  todo is what remains of the service in progress; a call puts the*)
(* steps of the function called before the rest.                           *)
(***************************************************************************)
At(s)    == todo # << >> /\ Head(todo) = s
Continue == todo' = Tail(todo)
Calls(s) == todo' = s \o Tail(todo)

\* Return from the service in progress.
Return(status) ==
    /\ todo' = << >> /\ op' = NoOp
    /\ answer' = IF op.kind = "write" THEN status ELSE answer
    /\ granted' = (op.kind = "allocate" /\ status = "success")
    /\ UNCHANGED style
    /\ up' = TRUE

FlushSpareBlockToWorkingBlock ==
    << "validspare", "readspare", "invalidwork", "erasework", "writework",
       "validwork" >>

FlushSpareBlockToTargetBlock == << "readspare", "erasetarget", "writetarget" >>

Reclaim == << "savespare", "erasespare", "writespace", "validspare",
              "invalidwork" >>
           \o FlushSpareBlockToWorkingBlock
           \o << "erasespare", "restorespare" >>

FtwReclaimWorkSpace(preserve) ==
    (IF preserve THEN << "keep" >> ELSE << "clear" >>) \o Reclaim

\* Mutant: DEST_COMPLETED is set before the target block is written.
FtwWriteRecord_DoneFirst ==
    << "destdone" >> \o FlushSpareBlockToTargetBlock \o << "complete" >>

FtwWriteRecord == FlushSpareBlockToTargetBlock \o << "destdone", "complete" >>

FtwAllocate == << "refresh", "allocate", "header", "allocated" >>
FtwAbort    == << "refresh", "abort" >>
FtwRestart  == << "refresh", "restart" >>
FtwGetLastWrite == << "refresh", "lastwrite" >>
FtwWrite    == << "refresh", "start", "check", "record", "savespare",
                  "erasespare", "image", "sparedone" >>
               \o FtwWriteRecord \o << "erasespare", "restorespare" >>

\* Mutant: a torn first record is not given up.
InitFtwProtocol_KeepsFirst ==
    << "refresh", "validate", "last", "trailing", "resume" >>

InitFtwProtocol == << "refresh", "validate", "first", "last", "trailing",
                      "resume" >>

-----------------------------------------------------------------------------
(***************************************************************************)
(* UpdateWorkingBlock.c                                                    *)
(***************************************************************************)
\* Too little is left for a header and a record, or the journal is damaged.
NoRoom(q) == QueueSize - LastHeader(q) < 2

\* Point FtwLastWriteHeader and FtwLastWriteRecord into a journal.
Locate(q) == hdr' = LastHeader(q) /\ rec' = LastRecord(q, LastHeader(q))

\* WorkSpaceRefresh: it does not look at the header of the work space.
Refresh ==
    /\ At("refresh")
    /\ IF NoRoom(work.queue)
       THEN /\ Calls(FtwReclaimWorkSpace(TRUE) \o << "reread" >>)
            /\ UNCHANGED <<hdr, rec>>
       ELSE Locate(work.queue) /\ Continue
    /\ UNCHANGED <<flash, at, mem, call, crashes, errors>>

RefreshAgain ==
    /\ At("reread")
    /\ IF LastHeader(work.queue) \in Positions
       THEN Locate(work.queue) /\ Continue /\ UNCHANGED call
       ELSE Return("aborted") /\ UNCHANGED <<hdr, rec>>
    /\ UNCHANGED <<flash, at, mem, crashes, errors>>

\* FtwReclaimWorkSpace: prepare the new work space in memory.
Keep ==
    /\ At("keep") /\ Continue
    /\ mem' = [mem EXCEPT !.space =
                 Space(IF work.state = "none" THEN "none" ELSE "init",
                       Kept(work.queue))]
    /\ Locate(Kept(work.queue))
    /\ UNCHANGED <<flash, at, call, crashes, errors>>

Clear ==
    /\ At("clear") /\ Continue
    /\ mem' = [mem EXCEPT !.space = Space("init", Clean)]
    /\ Locate(Clean)
    /\ UNCHANGED <<flash, at, call, crashes, errors>>

-----------------------------------------------------------------------------
(***************************************************************************)
(* Access to the spare block, the working block and the target block       *)
(***************************************************************************)
SaveSpare ==
    /\ At("savespare") /\ Continue
    /\ mem' = [mem EXCEPT !.saved = spare]
    /\ UNCHANGED <<flash, hdr, rec, at, call, crashes, errors>>

ReadSpare ==
    /\ At("readspare") /\ Continue
    /\ mem' = [mem EXCEPT !.buf = spare]
    /\ UNCHANGED <<flash, hdr, rec, at, call, crashes, errors>>

WriteSpare ==
    /\ \/ At("erasespare")   /\ spare' = Erased
       \/ At("writespace")   /\ spare' = mem.space
       \/ At("image")        /\ spare' = op.val
       \/ At("restorespare") /\ spare' = mem.saved
       \/ At("validspare")   /\ spare' = IF IsSpace(spare) THEN SetValid(spare)
                                                            ELSE spare
    /\ Continue
    /\ UNCHANGED <<work, block, ram, call, crashes, errors>>

\* FlushSpareBlockToWorkingBlock writes a new header with the old journal.
WriteWork ==
    /\ \/ At("invalidwork") /\ work' = SetInvalid(work)
       \/ At("erasework")   /\ work' = Space("none", Clean)
       \/ At("writework")   /\ work' = Space("init", mem.buf.queue)
       \/ At("validwork")   /\ work' = SetValid(work)
    /\ Continue
    /\ UNCHANGED <<spare, block, ram, call, crashes, errors>>

\* FtwWrite has the record in memory, FtwRestart reads it from the journal.
Target == IF op.kind = "write" THEN op.blk ELSE work.queue[rec].blk

WriteTarget ==
    /\ \/ At("erasetarget") /\ block' = [block EXCEPT ![Target] = Erased]
       \/ At("writetarget") /\ block' = [block EXCEPT ![Target] = mem.buf]
    /\ Continue
    /\ UNCHANGED <<work, spare, ram, call, crashes, errors>>

-----------------------------------------------------------------------------
(***************************************************************************)
(* Entries of the journal                                                  *)
(***************************************************************************)
WriteCell(i, c) == work' = [work EXCEPT !.queue[i] = c]

\* Writing clears bits only: what is written over an entry that was not erased
\* comes out wrong, unless it is the rest of the same entry.
Programmed(old, new) ==
    IF old \in {NoCell, new} THEN {new}
    ELSE IF old = TornRecord THEN {new, TornRecord} ELSE {TornRecord}

WriteJournal ==
    /\ \/ At("header")    /\ WriteCell(at, Header(op.n, op.p))
       \/ At("allocated") /\ WriteCell(at, [work.queue[at] EXCEPT !.b1 = TRUE])
       \/ At("record")    /\ \E c \in Programmed(work.queue[rec], Record(op.blk)) :
                                WriteCell(rec, c)
       \/ At("sparedone") /\ WriteCell(rec, [work.queue[rec] EXCEPT !.b1 = TRUE])
       \/ At("destdone")  /\ WriteCell(rec, [work.queue[rec] EXCEPT !.b2 = TRUE])
    /\ Continue
    /\ UNCHANGED <<spare, block, ram, call, crashes, errors>>

\* After the last record of a header, the header is complete.
Complete ==
    /\ At("complete") /\ Continue
    /\ IF IsLast(work.queue, hdr, rec)
       THEN WriteCell(hdr, [work.queue[hdr] EXCEPT !.b2 = TRUE])
       ELSE UNCHANGED work
    /\ UNCHANGED <<spare, block, ram, call, crashes, errors>>

-----------------------------------------------------------------------------
(***************************************************************************)
(* FaultTolerantWrite.c                                                    *)
(***************************************************************************)
\* Mutant: a request that just fits reclaims the work space.
Allocate_ReclaimsEarly ==
    /\ At("allocate")
    /\ IF Size(op.n, op.p) > QueueSize \/ work.queue[hdr].b0 \/ work.queue[hdr].b1
       THEN Return("denied") /\ UNCHANGED at
       ELSE /\ at' = hdr
            /\ IF hdr + Size(op.n, op.p) >= QueueSize
               THEN Calls(FtwReclaimWorkSpace(TRUE)) ELSE Continue
            /\ UNCHANGED call
    /\ UNCHANGED <<flash, hdr, rec, mem, crashes, errors>>

\* FtwAllocate, for FtwWrite as well.  Offset is computed before a reclaim.
Allocate ==
    /\ At("allocate")
    /\ IF Size(op.n, op.p) > QueueSize \/ work.queue[hdr].b0 \/ work.queue[hdr].b1
       THEN Return("denied") /\ UNCHANGED at
       ELSE /\ at' = hdr
            /\ IF hdr + Size(op.n, op.p) > QueueSize
               THEN Calls(FtwReclaimWorkSpace(TRUE)) ELSE Continue
            /\ UNCHANGED call
    /\ UNCHANGED <<flash, hdr, rec, mem, crashes, errors>>

\* FtwWrite: with no header, it allocates one unless there is private data.
Start ==
    /\ At("start")
    /\ \/ work.queue[hdr] # NoCell /\ Continue /\ UNCHANGED call
       \/ work.queue[hdr] = NoCell /\ op.kind = "write" /\ ~op.private
            /\ Calls(FtwAllocate) /\ UNCHANGED call
       \/ work.queue[hdr] = NoCell /\ op.private /\ Return("notready")
    /\ UNCHANGED <<flash, ram, crashes, errors>>

Check ==
    /\ At("check")
    /\ LET h == work.queue[hdr]
           r == work.queue[rec]
       IN  IF rec - hdr > Size(h.n - 1, h.p) \/ h.b2 \/ r.b2
           THEN Return("denied")
           ELSE IF r.b1 THEN Return("notready") ELSE Continue /\ UNCHANGED call
    /\ UNCHANGED <<flash, ram, crashes, errors>>

\* FtwRestart, after FtwGetFvbByHandle
Restart ==
    /\ At("restart")
    /\ IF work.queue[rec].b1 /\ ~work.queue[rec].b2 /\ ~work.queue[hdr].b2
       THEN Calls(FtwWriteRecord \o << "erasespare" >>)
       ELSE Continue
    /\ UNCHANGED <<flash, ram, call, crashes, errors>>

\* FtwAbort: nothing to do if no header is allocated and incomplete.
Abort ==
    /\ At("abort") /\ Continue
    /\ IF work.queue[hdr].b0 /\ ~work.queue[hdr].b2
       THEN WriteCell(hdr, [work.queue[hdr] EXCEPT !.b2 = TRUE])
       ELSE UNCHANGED work
    /\ UNCHANGED <<spare, block, ram, call, crashes, errors>>

\* FtwGetLastWrite: it gives a write up whose image is not in the spare block,
\* unless a record of the same header comes before.
LastWrite ==
    LET h == work.queue[hdr]
        r == work.queue[rec]
    IN  /\ At("lastwrite")
        /\ IF \/ ~h.b2 /\ r.b2 /\ IsLast(work.queue, hdr, rec)
              \/ h.b0 /\ ~r.b1 /\ IsFirst(hdr, rec)
           THEN Calls(FtwAbort) ELSE Continue
        /\ UNCHANGED <<flash, ram, call, crashes, errors>>

Done ==
    /\ At("return") /\ Return("success")
    /\ UNCHANGED <<flash, ram, crashes, errors>>

-----------------------------------------------------------------------------
(***************************************************************************)
(* InitFtwProtocol, after each start of the machine                        *)
(***************************************************************************)
\* Take the work space from the spare block, or make a new one.
Validate ==
    /\ At("validate")
    /\ IF work.state = "valid" THEN Continue
       ELSE IF SpareIsValid
       THEN Calls(FlushSpareBlockToWorkingBlock \o FtwAbort \o << "refresh" >>)
       ELSE Calls(FtwReclaimWorkSpace(FALSE))
    /\ UNCHANGED <<flash, ram, call, crashes, errors>>

\* The first record is not in the spare block: give the write up.
CheckFirst ==
    /\ At("first")
    /\ IF work.queue[hdr].b0 /\ ~work.queue[rec].b1 /\ IsFirst(hdr, rec)
       THEN Calls(FtwAbort) ELSE Continue
    /\ UNCHANGED <<flash, ram, call, crashes, errors>>

\* The last record is done and the header does not say so.
CheckLast ==
    /\ At("last")
    /\ IF ~work.queue[hdr].b2 /\ work.queue[rec].b2 /\ IsLast(work.queue, hdr, rec)
       THEN Calls(FtwAbort) ELSE Continue
    /\ UNCHANGED <<flash, ram, call, crashes, errors>>

\* What follows the last write is not erased.  After a torn header the code
\* looks outside of the buffer, and may find anything.
CheckTrailing ==
    LET h   == work.queue[hdr]
        end == IF h = NoCell THEN hdr ELSE hdr + Size(h.n, h.p)
        blank == \A i \in Positions : i >= end => work.queue[i] = NoCell
    IN  /\ At("trailing")
        /\ \/ (end > QueueSize \/ ~blank) /\ Calls(FtwReclaimWorkSpace(TRUE))
           \/ blank /\ Continue
        /\ UNCHANGED <<flash, ram, call, crashes, errors>>

\* Mutant: an interrupted write is given up instead.
Resume_GivesUp ==
    /\ At("resume")
    /\ IF ~work.queue[hdr].b2 /\ work.queue[rec].b1 THEN Calls(FtwAbort) ELSE Continue
    /\ UNCHANGED <<flash, ram, call, crashes, errors>>

\* The image is in the spare block: write it to the target again.
Resume ==
    /\ At("resume")
    /\ IF ~work.queue[hdr].b2 /\ work.queue[rec].b1
       THEN Calls((IF Target \in Blocks THEN FtwRestart ELSE << >>) \o FtwAbort)
       ELSE Continue
    /\ UNCHANGED <<flash, ram, call, crashes, errors>>

-----------------------------------------------------------------------------
(***************************************************************************)
(* Callers, power losses and device errors                                 *)
(***************************************************************************)
Call(steps, o) ==
    /\ up /\ todo = << >>
    /\ todo' = steps \o << "return" >>
    /\ op' = o
    /\ UNCHANGED <<flash, ram, up, granted, style, crashes, errors>>

CallAllocate(n, p) ==
    /\ Call(FtwAllocate, [NoOp EXCEPT !.kind = "allocate", !.n = n, !.p = p])
    /\ UNCHANGED answer

\* PrivateData is NULL unless the caller called FtwAllocate before.
CallWrite(b, v, private) ==
    /\ Call(FtwWrite, [kind |-> "write", blk |-> b, val |-> v, n |-> 1, p |-> 0,
                       private |-> private])
    /\ answer' = "none"

CallOther(s) ==
    /\ Call(CASE s = "abort" -> FtwAbort [] s = "restart" -> FtwRestart
              [] s = "getlast" -> FtwGetLastWrite, [NoOp EXCEPT !.kind = s])
    /\ UNCHANGED answer

\* A step that writes flash stops before it is done.
SpareSteps  == {"erasespare", "writespace", "image", "restorespare"}
TargetSteps == {"erasetarget", "writetarget"}
BitSteps    == {"validspare", "invalidwork", "validwork", "allocated",
                "sparedone", "destdone", "complete", "abort"}
FlashSteps  == SpareSteps \cup TargetSteps \cup BitSteps
                 \cup {"erasework", "writework", "header", "record"}

TornSpaces(states, q) ==
    {Space(state, part) : state \in states, part \in {q, Clean, Garbage}}

Stops ==
    \/ UNCHANGED flash
    \/ /\ todo # << >> /\ Head(todo) \in SpareSteps
       /\ spare' = Torn /\ UNCHANGED <<work, block>>
    \/ /\ At("erasework") /\ work' \in TornSpaces({"none", "invalid"}, work.queue)
       /\ UNCHANGED <<spare, block>>
    \/ /\ At("writework") /\ work' \in TornSpaces({"none", "init"}, mem.buf.queue)
       /\ UNCHANGED <<spare, block>>
    \/ /\ todo # << >> /\ Head(todo) \in TargetSteps
       /\ block' = [block EXCEPT ![Target] = Torn] /\ UNCHANGED <<work, spare>>
    \/ At("header") /\ (\E c \in TornHeaders : WriteCell(at, c))
       /\ UNCHANGED <<spare, block>>
    \/ At("record") /\ WriteCell(rec, TornRecord) /\ UNCHANGED <<spare, block>>

PowerLoss ==
    /\ crashes + errors < MaxCrashes
    /\ up \/ todo # << >>
    /\ Stops
    /\ crashes' = crashes + 1
    /\ todo' = << >> /\ op' = NoOp /\ up' = FALSE /\ granted' = FALSE
    /\ hdr' = 0 /\ rec' = 1 /\ at' = 0 /\ mem' = NoMem
    /\ answer' = IF op.kind = "write" THEN "none" ELSE answer
    /\ UNCHANGED <<style, errors>>

PowerOn ==
    /\ ~up /\ todo = << >>
    /\ todo' = InitFtwProtocol \o << "return" >>
    /\ UNCHANGED <<flash, ram, call, crashes, errors>>

\* Mutant: the status of a write is not looked at.
DeviceError_Ignored ==
    /\ style = "faulty" /\ errors < MaxErrors
    /\ up /\ todo # << >> /\ Head(todo) \in FlashSteps
    /\ Stops /\ (At("header") => UNCHANGED work)
    /\ errors' = errors + 1
    /\ Continue
    /\ UNCHANGED <<ram, call, crashes>>

\* The service that meets an error returns EFI_ABORTED at once.  An error that
\* tears a header is left out: with it, the code walks out of the work space.
DeviceError ==
    /\ style = "faulty" /\ errors < MaxErrors
    /\ up /\ todo # << >> /\ Head(todo) \in FlashSteps
    /\ ~(At("validspare") /\ todo[2] = "readspare")  \* its status is ignored
    /\ Stops /\ (At("header") => UNCHANGED work)
    /\ errors' = errors + 1
    /\ Return("aborted")
    /\ UNCHANGED <<ram, crashes>>

Init ==
    /\ work \in {Space("valid", Clean), Space("none", Clean)}
    /\ spare = Erased
    /\ block \in [Blocks -> Values]
    /\ todo = << >> /\ up = FALSE
    /\ hdr = 0 /\ rec = 1 /\ at = 0 /\ mem = NoMem
    /\ op = NoOp /\ answer = "none" /\ granted = FALSE
    /\ style \in Styles
    /\ crashes = 0 /\ errors = 0

Step ==
    \/ Refresh \/ RefreshAgain \/ Keep \/ Clear
    \/ SaveSpare \/ ReadSpare \/ WriteSpare \/ WriteWork \/ WriteTarget
    \/ WriteJournal \/ Complete
    \/ Allocate \/ Start \/ Check \/ Restart \/ Abort \/ LastWrite \/ Done
    \/ Validate \/ CheckFirst \/ CheckLast \/ CheckTrailing \/ Resume

Caller ==
    \/ style = "allocate" /\ \E a \in Allocs : CallAllocate(a[1], a[2])
    \/ \E b \in Blocks, v \in Values : CallWrite(b, v, style = "allocate")
    \/ style # "faulty" /\ \E s \in Others : CallOther(s)

Next == Step \/ Caller \/ PowerOn \/ PowerLoss \/ DeviceError

Spec == Init /\ [][Next]_vars

-----------------------------------------------------------------------------
(***************************************************************************)
(* Properties                                                              *)
(***************************************************************************)
Contents == Values \cup {Erased, Torn}

TypeOK ==
    /\ work.state \in {"none", "init", "valid", "invalid"}
    /\ DOMAIN work.queue = Positions
    /\ \A b \in Blocks : block[b] \in Contents
    /\ hdr \in Positions /\ rec \in Positions /\ at \in Positions
    /\ up \in BOOLEAN /\ granted \in BOOLEAN
    /\ crashes \in 0 .. MaxCrashes /\ errors \in 0 .. MaxErrors

(* The record whose image is in the spare block and not yet at its target. *)
Pending(b) ==
    LET q == work.queue
        h == LastHeader(q)
    IN  /\ work.state = "valid" /\ h + 1 \in Positions /\ ~q[h].b2
        /\ LET r == LastRecord(q, h)
           IN  r \in Positions /\ q[r].b1 /\ ~q[r].b2 /\ q[r].blk = b

(* What recovery would leave in a block if the power failed now.           *)
Recovered(b) == IF Pending(b) THEN spare ELSE block[b]

(* At all times either the original or the modified contents of a block    *)
(* are available (FaultTolerantWrite.c:288): the flash never holds a state *)
(* from which recovery would leave a block erased or torn.                 *)
NothingLost == \A b \in Blocks : Recovered(b) \in Values

(* Once the protocol is installed, and between its services, no write is   *)
(* left half done, and the work space is valid.                            *)
Settled ==
    up /\ todo = << >> =>
        /\ work.state = "valid"
        /\ \A b \in Blocks : ~Pending(b) /\ block[b] \in Values

(* The safety invariant: types, and as long as the device has met no error,*)
(* nothing lost at any moment, and no write half done when a service ends. *)
FtwInv == TypeOK /\ (errors = 0 => NothingLost /\ Settled)

(* Headers and records are written to erased flash only: NOR flash cannot  *)
(* set a bit again without erasing the block.  A reclaim that failed half   *)
(* way leaves a work space of which that cannot be said.                   *)
EntryWrittenOnce ==
    [][errors = 0 =>
          /\ At("header") /\ work' # work => work.queue[at] = NoCell
          /\ At("record") /\ work' # work => work.queue[rec] = NoCell]_vars

(* After FtwAllocate has returned EFI_SUCCESS, "enough space exists to     *)
(* track information about the upcoming writes" (FaultTolerantWrite.c:50): *)
(* the next FtwWrite does not find that nothing is allocated.              *)
AllocationKept ==
    [][granted /\ At("start") /\ up' => todo' # << >>]_vars

(* A caller that is told of success has its data in the target block, even *)
(* after a device error in an earlier service.                             *)
SuccessIsWritten ==
    [][answer # "success" /\ answer' = "success"
         => block[op.blk] = op.val]_vars

Promise == INSTANCE FtwStore WITH
    store  <- [b \in Blocks |-> Recovered(b)],
    req    <- IF op.kind = "write" THEN [blk |-> op.blk, val |-> op.val] ELSE None,
    answer <- IF answer \in {"none", "success"} THEN answer ELSE "failure"

(* An update happens at the moment its record is marked SPARE_COMPLETED,   *)
(* or not at all; reclaiming the work space, finishing or giving up a write*)
(* after a power loss, and power losses on the way, change nothing; and a  *)
(* caller that was told of success has its data.  The promise ends with the*)
(* first device error.                                                     *)
ImplementsStore ==
    Promise!Init /\ [][errors' > 0 \/ Promise!Next]_Promise!svars

=============================================================================
