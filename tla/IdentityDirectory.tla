---------------------------- MODULE IdentityDirectory ----------------------------
(***************************************************************************)
(* What device registrations are for, seen from the devices: a directory   *)
(* that gives each row (a device of an application) one identity, once and *)
(* for all, and tells it to every registration of that device.  A device   *)
(* without a row gets an identity of its own with each registration.       *)
(*                                                                         *)
(* The table gw_known_ifas is such a directory only as long as nothing     *)
(* fails and a device registers once at a time; IfaMatching shows it.      *)
(***************************************************************************)
CONSTANTS
  None,
  Req,   \* registrations
  Rows,  \* the devices that can be recognised
  Id     \* identities

VARIABLES
  directory,  \* the identity of each row, None if it has none yet
  told        \* the row and the identity each registration has been told

vars == <<directory, told>>

Told == {r \in Req : told[r] # None}

\* Nobody's identity so far.
Fresh == Id \ ({directory[k] : k \in Rows} \cup {told[r].id : r \in Told})

Init ==
  /\ directory \in [Rows -> Id \cup {None}]
  /\ \A j, k \in Rows : directory[j] = directory[k] => directory[j] = None \/ j = k
  /\ told = [r \in Req |-> None]

Tell(r, k, i) ==
  /\ told[r] = None
  /\ told' = [told EXCEPT ![r] = [row |-> k, id |-> i]]

Recognise(r, k) ==
  /\ directory[k] # None
  /\ Tell(r, k, directory[k])
  /\ UNCHANGED directory

Enter(k, i) ==
  /\ directory[k] = None
  /\ i \in Fresh
  /\ directory' = [directory EXCEPT ![k] = i]

Enroll(r, k) == \E i \in Id : Enter(k, i) /\ Tell(r, k, i)

\* The answer to a registration may be lost, its effect is not.
EnrollUnheard(k) == (\E i \in Id : Enter(k, i)) /\ UNCHANGED told

TellStranger(r) ==
  /\ \E i \in Fresh : Tell(r, None, i)
  /\ UNCHANGED directory

Next ==
  \/ \E r \in Req :
       \/ \E k \in Rows : Recognise(r, k) \/ Enroll(r, k)
       \/ TellStranger(r)
  \/ \E k \in Rows : EnrollUnheard(k)

Spec == Init /\ [][Next]_vars
=============================================================================
