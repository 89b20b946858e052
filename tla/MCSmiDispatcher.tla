-------------------------- MODULE MCSmiDispatcher --------------------------
(***************************************************************************)
(* SmiDispatcher with the children of PlatformPkg/SmmPlatform for ACPI, S1, *)
(* S3, S5 and the button, a periodic timer and a command that serves once.  *)
(***************************************************************************)
EXTENDS SmiDispatcher

MCchild ==
    [ button |-> [source |-> "PowerButton", context |-> "any", effect |-> "shutdown"],
      on     |-> [source |-> "Sw", context |-> "enable", effect |-> "acpiOn"],
      off    |-> [source |-> "Sw", context |-> "disable", effect |-> "acpiOff"],
      once   |-> [source |-> "Sw", context |-> "once", effect |-> "unregister"],
      s1     |-> [source |-> "Sx", context |-> "S1", effect |-> "none"],
      s3     |-> [source |-> "Sx", context |-> "S3", effect |-> "none"],
      s5     |-> [source |-> "Sx", context |-> "S5", effect |-> "softOff"],
      tick   |-> [source |-> "Timer", context |-> "any", effect |-> "none"] ]

MCPlans ==
    { << "button", "on", "off", "s1", "s3", "s5", "once", "tick" >>,
      << "once", "tick", "button", "on", "off", "s1", "s3", "s5" >> }

\* The theorems of SmiProofs are about such a platform.
ASSUME PlatformHolds == ~Orphans => Platform
=============================================================================
