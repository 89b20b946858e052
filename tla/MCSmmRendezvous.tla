-------------------------- MODULE MCSmmRendezvous --------------------------
(***************************************************************************)
(* Instances of SmmRendezvous for TLC.                                     *)
(***************************************************************************)
EXTENDS SmmRendezvous

\* The platform's build, the default build with MTRRs, and the relaxed mode
MCConfigs ==
    { [relaxed |-> FALSE, mtrrs |-> FALSE, elect |-> FALSE, status |-> FALSE],
      [relaxed |-> FALSE, mtrrs |-> TRUE, elect |-> TRUE, status |-> TRUE],
      [relaxed |-> TRUE, mtrrs |-> FALSE, elect |-> TRUE, status |-> TRUE] }
=============================================================================
