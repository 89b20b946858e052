------------------------------ MODULE VarStore ------------------------------
(***************************************************************************)
(* The non-volatile variable store                                         *)
(* (MdeModulePkg/Universal/Variable/RuntimeDxe).                           *)
(*                                                                         *)
(* Variables lie one after the other in flash, each a header with a state  *)
(* byte followed by name and data.  An update appends a new copy and then  *)
(* clears a bit in the state of the old one; when the store is full, it is *)
(* written anew by way of FtwWrite, which FtwStore says happens at once.   *)
(* A copy of the flash in memory, the cache, serves the readers.           *)
(*                                                                         *)
(* The power may fail between any two writes, and within one that is       *)
(* longer than a byte.  At runtime, SetVariable may be entered again by a  *)
(* machine check handler while it is in progress; all calls compose what   *)
(* they write in the same buffer.                                          *)
(*                                                                         *)
(* Flash is an array of units: a header takes one, name and data some.     *)
(* The volatile store always holds a variable, so GetNextVariableName      *)
(* comes to the non-volatile one at its start.                             *)
(***************************************************************************)
EXTENDS Integers, Sequences, FiniteSets, SequencesExt, FiniteSetsExt

CONSTANTS
    Names, Values,  \* names of variables, and their data
    None,           \* no variable; as the data of a call, delete it
    NoReq,          \* no call in progress (in the abstract map)
    Units,          \* Units[v]: the size of name and data v
    StoreSize,      \* size of the variable store
    HwErrSpace,     \* PcdHwErrStorageSize
    MaxHwErr,       \* PcdMaxHardwareErrorVariableSize
    MaxVariable,    \* MaxVariableSize
    Reserved,       \* PcdBoottimeReservedNvVariableSpaceSize
    Reentry,        \* where a handler may enter SetVariable again
    Repeated,       \* whether an update of a variable that an earlier power
                    \* loss left in two copies may itself fail half way
    MaxCrashes      \* bound: power losses that interrupt SetVariable

ASSUME VarAssumption ==
    /\ None \notin Values /\ None \notin Names
    /\ NoReq \notin Values \union {None}
    /\ Units \in [Values -> Nat \ {0}]
    /\ StoreSize \in Nat \ {0} /\ HwErrSpace \in 0 .. StoreSize - 1
    /\ MaxHwErr \in Nat /\ MaxVariable \in Nat /\ Reserved \in Nat
    /\ Reentry \in {"none", "safe", "any"}
    /\ Repeated \in BOOLEAN /\ MaxCrashes \in Nat

CommonVariableSpace == StoreSize - HwErrSpace
CommonRuntimeVariableSpace == CommonVariableSpace - Reserved

VARIABLES
    flash,     \* the store at NonVolatileVariableBase
    cache,     \* mNvVariableCache
    last,      \* NonVolatileLastVariableOffset
    total,     \* CommonVariableTotalSize
    hwErr,     \* HwErrVariableTotalSize
    phase,     \* how far the driver is: "off", "read", "write", "runtime"
    reclaimed, \* Reclaimed of ReclaimForOS
    scratch,   \* NextVariable: the buffer in which a new variable is composed
    calls,     \* the calls of UpdateVariable in progress, the last one runs
    answer,    \* what the last SetVariable to return said
    crashes    \* number of power losses that interrupted SetVariable

ram  == <<cache, last, total, hwErr>>
vars == <<flash, ram, scratch, phase, reclaimed, calls, answer, crashes>>

-----------------------------------------------------------------------------
(***************************************************************************)
(* Flash.                                                                  *)
(***************************************************************************)
Unit(k, s, n, v) == [kind |-> k, state |-> s, name |-> n, val |-> v]

\* A header has StartId VARIABLE_DATA.  Its state is all ones ("none") until it is
\* written, and so are its other fields if the power fails before ("None").
Header(s, n, v) == Unit("header", s, n, v)
Free == Unit("free", "none", None, None)    \* erased
Data == Unit("data", "none", None, None)    \* anything else

\* From StartId to the next header: sizes count as 0 while the state is all ones
Size(h) == IF h.state = "none" THEN 1 ELSE 1 + Units[h.val]

IsValidVariableHeader(f, o) == o <= StoreSize /\ f[o].kind = "header"

\* The variables from the start of the store, in order
Variables(f) ==
    LET from[o \in Nat] == IF IsValidVariableHeader(f, o)
                           THEN << o >> \o from[o + Size(f[o])]
                           ELSE << >>
    IN  from[1]

EndOf(f) ==
    LET vs == Variables(f)
    IN  IF vs = << >> THEN 1 ELSE Last(vs) + Size(f[Last(vs)])

\* Attributes that are all ones say hardware error record.
IsHwErr(h) == h.name = None

\* The size of all variables that are hardware error records, or of the others
SizeOf(f, hw) ==
    LET add(sum, o) == IF IsHwErr(f[o]) = hw THEN sum + Size(f[o]) ELSE sum
    IN  FoldLeft(add, 0, Variables(f))

States == << "none", "header", "added", "transition", "deleted" >>
Rank(s) == CHOOSE i \in DOMAIN States : States[i] = s

\* A state byte is programmed at o, which only clears bits.
SetState(f, o, s) ==
    [f EXCEPT ![o] = IF @.kind # "header" THEN Data
                     ELSE IF Rank(@.state) < Rank(s) THEN [@ EXCEPT !.state = s]
                     ELSE @]

\* Name and data of v are programmed after the header at o.
SetData(f, o, v) ==
    [i \in DOMAIN f |-> IF i \in o + 1 .. o + Units[v] THEN Data ELSE f[i]]

Live(f, n) ==
    {o \in ToSet(Variables(f)) : f[o].name = n /\ f[o].state \in {"added", "transition"}}

LastOf(S) == IF S = {} THEN 0 ELSE Max(S)

\* The first ADDED copy and the last IN_DELETED_TRANSITION one before it, or,
\* without an ADDED copy, the last IN_DELETED_TRANSITION one
FindVariableEx(f, n) ==
    LET live == Live(f, n)
        added == {o \in live : f[o].state = "added"}
        trans == live \ added
    IN  IF added # {}
        THEN [cur |-> Min(added), idt |-> LastOf({o \in trans : o < Min(added)})]
        ELSE [cur |-> LastOf(trans), idt |-> 0]

\* All ones if a header is ADDED before its data, which are written at once
GetVariable(f, n) ==
    LET cur == FindVariableEx(f, n).cur
    IN  IF cur = 0 THEN None ELSE IF f[cur + 1] = Data THEN f[cur].val ELSE "ones"

\* The variable that GetNextVariableName returns after n, or first; 0 at the end
GetNextVariable(f, n) ==
    LET start == IF n = None THEN 1
                 ELSE LET cur == FindVariableEx(f, n).cur IN cur + Size(f[cur])
        hidden(o) == /\ f[o].state = "transition"
                     /\ f[FindVariableEx(f, f[o].name).cur].state = "added"
        shown == {o \in ToSet(Variables(f)) :
                     /\ o >= start /\ f[o].state \in {"added", "transition"}
                     /\ ~hidden(o)}
    IN  IF shown = {} THEN 0 ELSE Min(shown)

-----------------------------------------------------------------------------
(***************************************************************************)
(* Reclaim: the ADDED copies, but for the one being updated, then of each  *)
(* remaining name the first copy in transition, then the new variable.     *)
(***************************************************************************)
Nothing == [cur |-> 0, idt |-> 0]

\* Mutant: the copy in transition that is being updated is kept as well.
Kept_KeepsUpdated(f, upd) ==
    LET vs == Variables(f)
        added == SelectSeq(vs, LAMBDA o : f[o].state = "added")
        trans == SelectSeq(vs, LAMBDA o : f[o].state = "transition")
        kept == added \o trans
    IN  [i \in DOMAIN kept |-> Header("added", f[kept[i]].name, f[kept[i]].val)]

Kept(f, upd) ==
    LET vs == Variables(f)
        added == SelectSeq(vs, LAMBDA o : f[o].state = "added" /\ o # upd.cur)
        trans == SelectSeq(vs, LAMBDA o :
                     f[o].state = "transition" /\ o \notin {upd.cur, upd.idt})
        before(o) == ToSet(added) \union {p \in ToSet(trans) : p < o}
        promoted == SelectSeq(trans, LAMBDA o :
                        \A p \in before(o) : f[p].name # f[o].name)
        copy(o) == Header("added", f[o].name, f[o].val)
    IN  [i \in DOMAIN (added \o promoted) |-> copy((added \o promoted)[i])]

Image(copies) ==
    LET body(h) == << h >> \o [i \in 1 .. Units[h.val] |-> Data]
        all == FlattenSeq([i \in DOMAIN copies |-> body(copies[i])])
    IN  [o \in 1 .. StoreSize |-> IF o <= Len(all) THEN all[o] ELSE Free]

SumOf(copies) ==
    LET add(sum, h) == sum + Size(h) IN FoldLeft(add, 0, copies)

Fits(copies) == SumOf(copies) <= CommonVariableSpace

\* FtwVariableSpace writes the store anew, and the cache is read back.
Rewrite(copies) ==
    /\ flash' = Image(copies) /\ cache' = flash'
    /\ last' = SumOf(copies) + 1 /\ total' = SumOf(copies) /\ hwErr' = 0

-----------------------------------------------------------------------------
(***************************************************************************)
(* SetVariable and UpdateVariable, step by step.                           *)
(***************************************************************************)
Top == Last(calls)
NoBuffer == {"fill", "dropidt", "dropcur"}   \* steps at which no call needs it
At(pc) == calls # << >> /\ Top.pc = pc
Goto(pc) == calls' = [calls EXCEPT ![Len(calls)].pc = pc] /\ UNCHANGED answer
Leave(result) == calls' = Front(calls) /\ answer' = result

\* The call at the top has done with the buffer.  What is left in it is not told
\* apart if no call below needs what was there: Fill erases it first.
Spent == scratch' = IF \A i \in 1 .. Len(calls) - 1 : calls[i].pc \in NoBuffer
                    THEN Free ELSE scratch
Return(result) == Leave(result) /\ Spent

Full(v) ==
    \/ total + 1 + Units[v] > CommonVariableSpace
    \/ phase = "runtime" /\ total + 1 + Units[v] > CommonRuntimeVariableSpace

Room(p, n, v) ==
    \/ ~Full(v)
    \/ phase = "write" /\ Fits(Append(Kept(flash, p), Header("added", n, v)))

\* A handler that interrupts the call in progress may enter for another name.  It
\* is safe while nothing in the buffer is needed and the offset that the call uses
\* is the end of the store.
MayEnter(n) ==
    calls = << >> \/
       /\ Len(calls) = 1 /\ phase = "runtime" /\ Top.name # n
       /\ \/ Reentry = "any"
          \/ Reentry = "safe" /\ Top.pc \in NoBuffer
       /\ Repeated \/ Top.idt = 0

Drop(p) == IF p.idt # 0 THEN "dropidt" ELSE "dropcur"

\* The call has found the variable.
SetVariable(n, v) ==
    LET p == FindVariableEx(cache, n)
    IN  /\ phase \in {"write", "runtime"} /\ MayEnter(n)
        /\ ~Repeated /\ p.idt # 0 /\ v # None => Room(p, n, v)
        /\ last' = IF calls = << >> THEN last ELSE EndOf(flash)
        /\ calls' = Append(calls, [pc |-> "fill", name |-> n, val |-> v,
                                   cur |-> p.cur, idt |-> p.idt, at |-> 0])
        /\ answer' = "none"
        /\ UNCHANGED <<flash, cache, total, scratch, hwErr, phase, reclaimed, crashes>>

Quiet == UNCHANGED <<hwErr, phase, reclaimed, crashes>>

\* UpdateVariable erases the buffer, then sees what there is to do.
Fill ==
    LET done == Top.val # None /\ Top.cur # 0 /\ cache[Top.cur].val = Top.val
        missing == Top.val = None /\ Top.cur = 0
        deletes == Top.val = None /\ Top.cur # 0
    IN  /\ At("fill") /\ scratch' = Free
        /\ CASE done    -> Leave("success")
             [] missing -> Leave("failure")
             [] deletes -> Goto(Drop(Top))
             [] OTHER   -> Goto(IF Top.cur # 0 THEN "mark" ELSE "compose")
        /\ UNCHANGED <<flash, cache, last, total>> /\ Quiet

\* Mutant: the old variable is deleted at once.
MarkOld_Deletes ==
    /\ At("mark") /\ Goto("compose")
    /\ flash' = SetState(flash, Top.cur, "deleted")
    /\ cache' = SetState(cache, Top.cur, "deleted")
    /\ UNCHANGED <<last, total, scratch>> /\ Quiet

\* Mark the old variable as in delete transition.
MarkOld ==
    /\ At("mark") /\ Goto("compose")
    /\ flash' = SetState(flash, Top.cur, "transition")
    /\ cache' = SetState(cache, Top.cur, "transition")
    /\ UNCHANGED <<last, total, scratch>> /\ Quiet

\* The state is left as the buffer has it: all ones, since Fill has erased it.
Compose ==
    /\ At("compose") /\ Goto("space")
    /\ scratch' = Header(scratch.state, Top.name, Top.val)
    /\ UNCHANGED <<flash, cache, last, total>> /\ Quiet

OutOfResources ==
    /\ At("space") /\ Full(Top.val) /\ phase = "runtime"
    /\ Return("failure")
    /\ UNCHANGED <<flash, cache, last, total>> /\ Quiet

\* Mutant: after a failure the cache is not read back.
ReclaimWithNew_KeepsBuffer ==
    LET kept == Kept(flash, Top)
        copies == Append(kept, Header("added", scratch.name, scratch.val))
    IN  /\ At("space") /\ Full(Top.val) /\ phase = "write"
        /\ IF Fits(copies)
           THEN Rewrite(copies) /\ Return("success")
           ELSE cache' = Image(kept) /\ UNCHANGED <<flash, last, total, hwErr>>
                /\ Return("failure")
        /\ UNCHANGED <<phase, reclaimed, crashes>>

\* The cache is the buffer in which Reclaim builds the new store.
ReclaimWithNew ==
    LET copies == Append(Kept(flash, Top), Header("added", scratch.name, scratch.val))
    IN  /\ At("space") /\ Full(Top.val) /\ phase = "write"
        /\ IF Fits(copies)
           THEN Rewrite(copies) /\ Return("success")
           ELSE cache' = flash /\ UNCHANGED <<flash, last, total, hwErr>>
                /\ Return("failure")
        /\ UNCHANGED <<phase, reclaimed, crashes>>

\* Programming what is not erased leaves neither the old nor the new contents.
Program(f, o, u) == [f EXCEPT ![o] = IF @ = Free THEN u ELSE Data]

\* Step 1
WriteHeader ==
    /\ At("space") /\ ~Full(Top.val)
    /\ flash' = Program(flash, last, scratch)
    /\ calls' = [calls EXCEPT ![Len(calls)].pc = "valid", ![Len(calls)].at = last]
    /\ UNCHANGED <<cache, last, total, scratch, answer>> /\ Quiet

WriteState(s) ==
    /\ scratch' = [scratch EXCEPT !.state = s]
    /\ flash' = SetState(flash, last, s)

\* Step 2
WriteHeaderValid ==
    /\ At("valid") /\ Goto("data")
    /\ WriteState("header")
    /\ UNCHANGED <<cache, last, total>> /\ Quiet

\* Step 3
WriteData ==
    /\ At("data") /\ Goto("added")
    /\ flash' = SetData(flash, last, Top.val)
    /\ UNCHANGED <<cache, last, total, scratch>> /\ Quiet

\* Step 4
WriteAdded ==
    /\ At("added") /\ Goto("count")
    /\ WriteState("added")
    /\ UNCHANGED <<cache, last, total>> /\ Quiet

\* The offset and the total advance, and the cache gets its copy.
Advance ==
    LET size == 1 + Units[Top.val]
    IN  /\ At("count")
        /\ last' = last + size /\ total' = total + size
        /\ cache' = [SetData(cache, Top.at, Top.val) EXCEPT ![Top.at] = scratch]
        /\ IF Top.cur = 0 THEN Return("success")
           ELSE Goto(Drop(Top)) /\ Spent
        /\ UNCHANGED flash /\ Quiet

\* The old copies are deleted, the one in transition before the one ADDED.
DropTransition ==
    /\ At("dropidt") /\ Goto("dropcur")
    /\ flash' = SetState(flash, Top.idt, "deleted")
    /\ cache' = SetState(cache, Top.idt, "deleted")
    /\ UNCHANGED <<last, total, scratch>> /\ Quiet

DropCurrent ==
    /\ At("dropcur") /\ Return("success")
    /\ flash' = SetState(flash, Top.cur, "deleted")
    /\ cache' = SetState(cache, Top.cur, "deleted")
    /\ UNCHANGED <<last, total>> /\ Quiet

-----------------------------------------------------------------------------
(***************************************************************************)
(* Power, start-up, and the way to the operating system.                   *)
(***************************************************************************)
\* Only the header can be torn to an effect: of the data nothing is known until
\* the state says ADDED.
Torn ==
    IF At("space") /\ ~Full(Top.val)
    THEN {Program(flash, last, u) : u \in {Data, Header("none", None, None)}}
    ELSE {}

\* An update has found two copies and has not yet deleted the first one.
Exposed ==
    \E i \in DOMAIN calls :
        /\ calls[i].idt # 0 /\ calls[i].val # None
        /\ calls[i].pc \notin {"fill", "mark", "dropcur"}

PowerLoss ==
    /\ phase # "off" /\ (Repeated \/ ~Exposed)
    /\ calls # << >> => crashes < MaxCrashes
    /\ crashes' = IF calls = << >> THEN crashes ELSE crashes + 1
    /\ flash' \in {flash} \union Torn
    /\ phase' = "off" /\ calls' = << >> /\ answer' = "none" /\ reclaimed' = FALSE
    /\ cache' = flash' /\ last' = 1 /\ total' = 0 /\ hwErr' = 0 /\ scratch' = Free

\* InitNonVolatileVariableStore
PowerOn ==
    /\ phase = "off" /\ phase' = "read"
    /\ cache' = flash /\ last' = EndOf(flash)
    /\ total' = SizeOf(flash, FALSE) /\ hwErr' = SizeOf(flash, TRUE)
    /\ UNCHANGED <<flash, scratch, reclaimed, calls, answer, crashes>>

\* Mutant: the free area is taken to be free.
VariableWriteServiceInitialize_Trusts ==
    /\ phase = "read" /\ phase' = "write"
    /\ UNCHANGED <<flash, ram, scratch, reclaimed, calls, answer, crashes>>

\* "Check if the free area is really free."
VariableWriteServiceInitialize ==
    /\ phase = "read" /\ phase' = "write"
    /\ IF \E o \in last .. StoreSize : cache[o] # Free
       THEN Rewrite(Kept(flash, Nothing))
       ELSE UNCHANGED <<flash, ram>>
    /\ UNCHANGED <<scratch, reclaimed, calls, answer, crashes>>

\* At EndOfDxe or ReadyToBoot, once.  The subtraction is unsigned.
ReclaimForOS ==
    /\ phase = "write" /\ calls = << >> /\ ~reclaimed /\ reclaimed' = TRUE
    /\ IF \/ CommonRuntimeVariableSpace - total < MaxVariable
          \/ HwErrSpace # 0 /\ hwErr <= HwErrSpace /\ HwErrSpace - hwErr < MaxHwErr
       THEN Rewrite(Kept(flash, Nothing))
       ELSE UNCHANGED <<flash, ram>>
    /\ UNCHANGED <<scratch, phase, calls, answer, crashes>>

ExitBootServices ==
    /\ phase = "write" /\ calls = << >> /\ reclaimed /\ phase' = "runtime"
    /\ UNCHANGED <<flash, ram, scratch, reclaimed, calls, answer, crashes>>

-----------------------------------------------------------------------------
Init ==
    /\ flash = Image(<< >>) /\ cache = flash
    /\ last = 1 /\ total = 0 /\ hwErr = 0 /\ scratch = Free
    /\ phase = "off" /\ reclaimed = FALSE /\ calls = << >>
    /\ answer = "none" /\ crashes = 0

Next ==
    \/ Fill \/ MarkOld \/ Compose \/ OutOfResources \/ ReclaimWithNew
    \/ WriteHeader \/ WriteHeaderValid \/ WriteData \/ WriteAdded
    \/ Advance \/ DropTransition \/ DropCurrent
    \/ PowerLoss \/ PowerOn \/ VariableWriteServiceInitialize
    \/ ReclaimForOS \/ ExitBootServices
    \/ \E n \in Names, v \in Values \union {None} : SetVariable(n, v)

Spec == Init /\ [][Next]_vars

-----------------------------------------------------------------------------
(***************************************************************************)
(* Properties.                                                             *)
(***************************************************************************)
Cells ==
    {Free, Data, Header("none", None, None)} \union
    {Header(s, n, v) : s \in ToSet(States), n \in Names, v \in Values}
Calls ==
    [pc : {"fill", "mark", "compose", "space", "valid", "data", "added", "count", "dropidt",
           "dropcur"},
     name : Names, val : Values \union {None},
     cur : 0 .. StoreSize, idt : 0 .. StoreSize, at : 0 .. StoreSize]

\* Types.  That last, at and the totals stay within the store is the claim that no
\* write goes beyond it, although headers torn by power losses are not counted as
\* common variables.
TypeOK ==
    /\ flash \in [1 .. StoreSize -> Cells] /\ cache \in [1 .. StoreSize -> Cells]
    /\ last \in 1 .. StoreSize + 1 /\ total \in 0 .. StoreSize
    /\ hwErr \in 0 .. StoreSize /\ scratch \in Cells
    /\ phase \in {"off", "read", "write", "runtime"} /\ reclaimed \in BOOLEAN
    /\ Len(calls) <= 2 /\ ToSet(calls) \subseteq Calls
    /\ answer \in {"none", "success", "failure"} /\ crashes \in 0 .. MaxCrashes

Idle == calls = << >> /\ phase \in {"write", "runtime"}

\* Between calls the cache is the flash, the offset is the end of the variables,
\* what follows is erased, and the total is that of the variables counted: after
\* reclaims that fail, torn headers and re-entered calls as well.
InSync ==
    Idle =>
       /\ cache = flash /\ last = EndOf(flash)
       /\ \A o \in last .. StoreSize : flash[o] = Free
       /\ total = SizeOf(flash, FALSE)

Stored == {n \in Names : GetVariable(cache, n) # None}

\* Following GetNextVariableName from the start lists every variable that
\* GetVariable finds, once, and at the copy that GetVariable reads, also while two
\* copies are there or the only one is in transition.
ListedOnce ==
    Idle \/ phase = "read" =>
       \E s \in SetToSeqs(Stored) :
          \A i \in 0 .. Len(s) :
             GetNextVariable(cache, IF i = 0 THEN None ELSE s[i]) =
                IF i = Len(s) THEN 0 ELSE FindVariableEx(cache, s[i + 1]).cur

\* The safety invariant: types, a driver in step with its flash, and listings that
\* are complete.
StoreInv == TypeOK /\ InSync /\ ListedOnce

\* Outside of FtwWrite flash is only programmed where it is erased, and a state
\* byte only clears bits: the check of the free area at start-up finds everything
\* that a power loss has left behind the last variable.
ProgramsErased ==
    [][ \/ \A o \in DOMAIN flash :
              \/ flash'[o] = flash[o] \/ flash[o] = Free
              \/ /\ flash[o].kind = "header"
                 /\ Rank(flash[o].state) < Rank(flash'[o].state)
                 /\ flash'[o] = [flash[o] EXCEPT !.state = flash'[o].state]
        \/ flash' = Image(Kept(flash', Nothing)) ]_flash

SizeOfOthers(n) ==
    LET cost(m) == IF m = n \/ GetVariable(flash, m) = None THEN 0
                   ELSE 1 + Units[GetVariable(flash, m)]
    IN  MapThenSumSet(cost, Names)

\* Before ExitBootServices an update is refused only when the other variables
\* leave no room for it: deleted and old copies never cost a caller the space.
RefusedWhenFull ==
    [][ \A v \in Values :
           At("space") /\ Top.val = v /\ phase = "write" /\ answer' = "failure" =>
              SizeOfOthers(Top.name) + 1 + Units[v] > CommonVariableSpace ]_vars

\* Between the calls of SetVariable, in a reclaim or at start-up, no variable
\* changes: a copy in transition is promoted only where it is the current one.
ReclaimKeeps ==
    [][ calls = << >> /\ calls' = << >> =>
           \A n \in Names : GetVariable(flash', n) = GetVariable(flash, n) ]_vars

\* The store implements the map: at every moment a restart finds, for each name,
\* its old value or its new one, the new one from the moment on in which the new
\* copy is ADDED, and what success was told of stays.
InProgress(n) == {c \in ToSet(calls) : c.name = n}

Promise == INSTANCE VarMap WITH
    map <- [n \in Names |-> GetVariable(flash, n)],
    req <- [n \in Names |->
              IF InProgress(n) = {} THEN NoReq
              ELSE (CHOOSE c \in InProgress(n) : TRUE).val]

ImplementsMap == Promise!Spec

=============================================================================
