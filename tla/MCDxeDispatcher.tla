-------------------------- MODULE MCDxeDispatcher --------------------------
(***************************************************************************)
(* Instances of DxeDispatcher for TLC.                                     *)
(***************************************************************************)
EXTENDS DxeDispatcher

CONSTANTS
    pcd,    \* of the a priori file, installs bus
    disk,   \* needs bus and extract, installs arch; may violate the security policy
    filter, \* comes before disk
    tool,   \* needs bus, on request
    early,  \* runs only as long as arch is not there
    image1, \* a volume image, needs bus or arch, or is opened before extract is there
    gop,    \* in that volume, needs all UEFI services
    splash, \* in that volume, comes after gop, in a section to be extracted
    boot,   \* the boot volume
    inner,  \* the volume in image1
    copy,   \* an empty volume with the name of inner
    bus, extract, arch, none

Op(op) == [op |-> op, guid |-> none]
Of(op, x) == [op |-> op, guid |-> x]
End == Op("end")
All == SUBSET {bus, extract, arch}

MCName == [d \in Drivers |-> d]
MCVolumeName == boot :> none @@ inner :> inner @@ copy :> inner
MCFiles == boot :> << pcd, filter, disk, tool, early, image1 >> @@ inner :> << splash, gop >>
           @@ copy :> << >>
MCApriori == boot :> << pcd >> @@ inner :> << >> @@ copy :> << >>
MCInner == [d \in Drivers |-> IF d = image1 THEN inner ELSE none]
MCDepex ==
    pcd :> << Op("true"), End >>
    @@ disk :> << Of("push", bus), Of("push", extract), Op("and"), End >>
    @@ filter :> << Of("before", disk), End >>
    @@ tool :> << Op("sor"), Of("push", bus), End >>
    @@ early :> << Of("push", arch), Op("not"), End >>
    @@ image1 :> << Of("push", bus), Of("push", arch), Op("or"), End >>
    @@ gop :> << >> @@ splash :> << Of("after", gop), End >>
MCWants ==
    pcd :> All @@ disk :> {x \in All : {bus, extract} \subseteq x}
    @@ filter :> {} @@ tool :> {x \in All : bus \in x}
    @@ early :> {x \in All : arch \notin x}
    @@ image1 :> {x \in All : bus \in x \/ arch \in x} @@ gop :> {} @@ splash :> {}
MCLoads ==
    [d \in Drivers |-> CASE d = pcd -> {"ok", "error"} [] d = disk -> {"ok", "violation"}
                         [] OTHER -> {"ok"}]
MCDoes ==
    [x \in Callers |->
       CASE x = pcd -> {<<"install", bus>>}
         [] x = disk -> {<<"install", arch>>, <<"schedule", tool>>}
         [] x = "handlers" -> {<<"install", extract>>}
         [] x = "timer" -> {<<"install", extract>>, <<"remove", bus>>}
         [] x = "bds" -> {<<"install", boot>>, <<"install", copy>>, <<"install", bus>>,
                          <<"install", arch>>, <<"trust", disk>>}
         [] OTHER -> {}]

\* The theorems are about instances like this one.
ASSUME MCHypotheses == WellNamed /\ AprioriReady /\ Understood /\ QuietRounds /\ Steady /\ TrustedOnce
=============================================================================
