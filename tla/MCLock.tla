------------------------------- MODULE MCLock -------------------------------
(* QdwinLock on small instances. *)
EXTENDS QdwinLock
CONSTANTS l1, l2, t1, t2, t3, app, ls1, ls2, x1

\* t1 is the window of the first locker, t2 of its replacement, t3 an
\* ordinary application's.
MCOwner == [t \in Toplevels |-> CASE t = t1 -> l1 [] t = t2 -> l2 [] t = t3 -> app]

\* Every step but those of the keyboard, the launcher (which only competes for it)
\* and output hotplug: the instance with several lockers, surfaces and windows.
ObjectsNext ==
  \/ ~lk.hung /\ (ShellNext \/ LockerNext \/ ObjectNext) /\ ~launcher'
  \/ Hung

\* Crashing and restarting lockers under a lock, with fair restarts.
RestartSpec == Init /\ [][ShellNext \/ LockerNext]_vars /\ LockerFairness
=============================================================================
