---------------------------- MODULE LockPromise ----------------------------
(***************************************************************************)
(* What the session lock promises to its user (doc/locker.md, "Lifecycle   *)
(* invariants"): the desktop is hidden exactly while the session is        *)
(* locked, and only a request of a client that holds the shell or the      *)
(* locker role moves the lock.  Clients come and go, crash and are         *)
(* replaced; none of that ever moves it.                                   *)
(***************************************************************************)
CONSTANT Clients

VARIABLES locked, desktop_shown, bound

promiseVars == <<locked, desktop_shown, bound>>

PromiseInit ==
  /\ locked = FALSE
  /\ desktop_shown = TRUE
  /\ bound = {}

\* A bound client asks for the other state.
SetLocked ==
  /\ bound # {}
  /\ locked' = ~locked
  /\ desktop_shown' = ~locked'
  /\ UNCHANGED bound

\* Roles are claimed, lost and taken over; the lock does not move.
Rebind ==
  /\ bound' \in SUBSET Clients
  /\ UNCHANGED <<locked, desktop_shown>>

PromiseNext == SetLocked \/ Rebind

PromiseSpec == PromiseInit /\ [][PromiseNext]_promiseVars
=============================================================================
