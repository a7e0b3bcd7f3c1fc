------------------------------ MODULE SnLease ------------------------------
(***************************************************************************)
(* The advisory single-editor lease of one Sound Necklace session: the two *)
(* columns locked_by / lock_expires_at of its sn_sessions row, the routes  *)
(* that move them, and the predicates that the fenced writes carry in      *)
(* their own WHERE.                                                        *)
(*                                                                         *)
(* Every statement compares the columns with a clock reading that its      *)
(* handler took BEFORE the statement ran (it may have waited for a row     *)
(* lock since): a reading is any instant of the last Lag ticks, never one  *)
(* of the future.  Comparisons follow SQL: with a NULL they are not true.  *)
(***************************************************************************)
EXTENDS Sql, Integers

CONSTANTS
    Users,      \* the accounts that can reach the project of the session
    Creator,    \* created_by: deleting that account deletes the session itself
    LOCK_TTL,   \* length of a lease, in ticks
    Lag,        \* the oldest clock reading a statement can carry
    MaxClock    \* bound: the clock stops there

ASSUME LeaseAssumption ==
    /\ Creator \in Users
    /\ NULL \notin Users
    /\ NULL \notin Nat
    /\ LOCK_TTL \in Nat \ {0}
    /\ Lag \in Nat
    /\ MaxClock \in Nat

VARIABLES
    now,              \* the wall clock
    accounts,         \* the users rows that exist
    locked_by,        \* sn_sessions.locked_by
    lock_expires_at   \* sn_sessions.lock_expires_at

leaseVars == <<now, accounts, locked_by, lock_expires_at>>

LeaseTypeOK ==
    /\ now \in Nat
    /\ accounts \subseteq Users
    /\ locked_by \in Users \cup {NULL}
    /\ lock_expires_at \in Nat \cup {NULL}

LeaseInit ==
    /\ now = 0
    /\ accounts = Users
    /\ locked_by = NULL
    /\ lock_expires_at = NULL

-----------------------------------------------------------------------------
(* Predicates of the statements.                                           *)

\* What datetime.now(UTC) may have returned to a statement that runs now.
ClockReadings == {t \in 0..now : now - t <= Lag}

ExpiresAfter(t) == lock_expires_at # NULL /\ lock_expires_at > t

\* raise_if_locked_by_other, and the subquery under the NOT of
\* not_locked_by_other: somebody else's lease is live.
LockedByOther(u, t) == ExpiresAfter(t) /\ locked_by # NULL /\ locked_by # u

RowOpenTo_IgnoresLease(u, t) == TRUE

\* The guard complete_session and reopen_session carry on the target row.
RowOpenTo(u, t) == ~ExpiresAfter(t) \/ locked_by = u

MayAcquire_AtAnyTime(u, t) == TRUE

\* The guard of the UPDATE in acquire_lock.
MayAcquire(u, t) ==
    \/ locked_by = NULL
    \/ lock_expires_at # NULL /\ lock_expires_at <= t
    \/ locked_by = u

\* get_lock_status: a lapsed lease reads as unheld, and so does one whose
\* holder is gone (the join with users drops the row).
LiveHolder == IF ExpiresAfter(now) THEN locked_by ELSE NULL

-----------------------------------------------------------------------------
Tick ==
    /\ now < MaxClock
    /\ now' = now + 1
    /\ UNCHANGED <<accounts, locked_by, lock_expires_at>>

\* PUT .../lock.  One guarded UPDATE both takes and renews; the losing caller
\* changes nothing (it is answered with get_lock_status).  The foreign key
\* refuses a caller whose account is gone.
AcquireLock(u) ==
    /\ u \in accounts
    /\ \E t \in ClockReadings :
          /\ MayAcquire(u, t)
          /\ locked_by' = u
          /\ lock_expires_at' = t + LOCK_TTL
    /\ UNCHANGED <<now, accounts>>

\* DELETE .../lock.  Only ever the caller's own lease, lapsed or not.
ReleaseLock(u) ==
    /\ locked_by = u
    /\ locked_by' = NULL
    /\ lock_expires_at' = NULL
    /\ UNCHANGED <<now, accounts>>

\* Deleting an account: ON DELETE SET NULL empties locked_by and leaves the
\* expiry in place.
DeleteUser(u) ==
    /\ u \in accounts \ {Creator}
    /\ accounts' = accounts \ {u}
    /\ locked_by' = IF locked_by = u THEN NULL ELSE locked_by
    /\ UNCHANGED <<now, lock_expires_at>>

LeaseNext ==
    \/ Tick
    \/ \E u \in Users : AcquireLock(u) \/ ReleaseLock(u) \/ DeleteUser(u)

LeaseSpec == LeaseInit /\ [][LeaseNext]_leaseVars

-----------------------------------------------------------------------------
(* The rows implement the abstract lease: its holder is what               *)
(* get_lock_status reports.                                                *)
Lease == INSTANCE AdvisoryLease WITH holder <- LiveHolder

\* The lease is never stolen: a live holder is followed by nobody before it is
\* followed by somebody else (acquire_lock's guarded UPDATE, release_lock's
\* WHERE, the lapse of time and the deletion of an account together).
LeaseRefinement == Lease!Spec

=============================================================================
