------------------------------ MODULE EventList ------------------------------
(***************************************************************************)
(* Doubly linked lists of events (BaseLib's LIST_ENTRY), as sequences.     *)
(***************************************************************************)
EXTENDS Integers, Sequences, SequencesExt

\* RemoveEntryList, where the code removes an entry only if it is linked
Unlink(s, e) ==
    IF e \in ToSet(s) THEN RemoveAt(s, CHOOSE i \in DOMAIN s : s[i] = e) ELSE s

=============================================================================
