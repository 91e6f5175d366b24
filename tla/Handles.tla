------------------------------- MODULE Handles -------------------------------
(***************************************************************************)
(* What a table of handles promises.  A handle in use stands for one       *)
(* resource, and a resource in use is held by one handle; they come and go *)
(* together.  The socket numbers over the endpoints of Open Transport are  *)
(* such a table.                                                           *)
(***************************************************************************)

CONSTANTS Handles, Resources

VARIABLE holds  \* the pairs of a handle in use and what it stands for

vars == <<holds>>

Init == holds = {}

Open(h, r) ==
  /\ \A p \in holds : p[1] # h /\ p[2] # r
  /\ holds' = holds \cup {<<h, r>>}

Close(h, r) ==
  /\ <<h, r>> \in holds
  /\ holds' = holds \ {<<h, r>>}

Next == \E h \in Handles, r \in Resources : Open(h, r) \/ Close(h, r)

Spec == Init /\ [][Next]_vars
=============================================================================
