------------------------------ MODULE MountMap ------------------------------
(***************************************************************************)
(* What mounting promises: a device is mounted as one file system or not   *)
(* at all, files are opened on mounted devices, and a call that fails      *)
(* changes nothing.                                                        *)
(***************************************************************************)
EXTENDS Naturals

CONSTANTS Devices, FileSystems, NONE

VARIABLES
  mounted,    \* the file system a device is mounted as
  users,      \* files open on a device
  done        \* the last call did what it was asked for

mmvars == <<mounted, users, done>>

Init ==
  /\ mounted = [d \in Devices |-> NONE]
  /\ users = [d \in Devices |-> 0]
  /\ done = TRUE

Mount(d, f) ==
  /\ mounted[d] = NONE
  /\ mounted' = [mounted EXCEPT ![d] = f] /\ done' = TRUE /\ UNCHANGED users

Umount(d) ==
  /\ mounted[d] # NONE /\ users[d] = 0
  /\ mounted' = [mounted EXCEPT ![d] = NONE] /\ done' = TRUE /\ UNCHANGED users

Open(d) ==
  /\ mounted[d] # NONE
  /\ users' = [users EXCEPT ![d] = @ + 1] /\ done' = TRUE /\ UNCHANGED mounted

Close(d) ==
  /\ users[d] > 0
  /\ users' = [users EXCEPT ![d] = @ - 1] /\ done' = TRUE /\ UNCHANGED mounted

Fail == done' = FALSE /\ UNCHANGED <<mounted, users>>

\* Drivers come and go.
Register == done' = TRUE /\ UNCHANGED <<mounted, users>>

Next ==
  \/ \E d \in Devices : Umount(d) \/ Open(d) \/ Close(d) \/ \E f \in FileSystems : Mount(d, f)
  \/ Fail \/ Register

Spec == Init /\ [][Next]_mmvars

=============================================================================
