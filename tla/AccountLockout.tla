---------------------------- MODULE AccountLockout ----------------------------
(***************************************************************************)
(* The lockout of an account after failed logins: authenticate_admin,      *)
(* is_account_locked, record_failed_attempt and unlock_account of          *)
(* backend/services/auth_manager.py (with its own repository, the mode the *)
(* application wires), over the events of auth_repository.py.              *)
(*                                                                         *)
(* A login awaits the lockout check, and later the write of its event: the *)
(* password is compared in between.  Every call of the repository may fail *)
(* in the database, and then returns None or an empty list.  Successful    *)
(* logins and unlocks are events too, but no code that decides reads them. *)
(***************************************************************************)
EXTENDS Integers, Sequences, FiniteSets

CONSTANTS
    Logins,               \* logins that may be under way at once
    MaxFailedLogins,      \* max_failed_attempts
    BaseLockout,          \* lockout_duration_minutes, in ticks
    EscalationFactor,     \* lockout_escalation_factor
    LongestLockout,       \* max_lockout_duration_hours, in ticks
    MaxLoginTime,         \* bound on the clock
    MaxGuesses,           \* bound on the wrong passwords of a run
    MaxDatabaseFailures   \* bound on the failing calls of the repository

ASSUME AccountLockoutAssumption ==
    /\ IsFiniteSet(Logins)
    /\ \A n \in {MaxFailedLogins, BaseLockout, EscalationFactor} : n \in Nat \ {0}
    /\ LongestLockout \in Nat /\ LongestLockout >= BaseLockout
    /\ \A n \in {MaxLoginTime, MaxGuesses, MaxDatabaseFailures} : n \in Nat

VARIABLES
    loginTime,        \* the clock
    failedLogins,     \* the times of the stored failed login events
    guessTimes,       \* the times a wrong password was compared (history)
    checked,          \* the logins that passed the lockout check
    databaseFailures  \* failing calls so far

alVars == <<loginTime, failedLogins, guessTimes, checked, databaseFailures>>

RecentLogins == {i \in DOMAIN failedLogins : failedLogins[i] >= loginTime - LongestLockout}

\* All of the recent failures count as consecutive: the list they are counted
\* in holds no success.
EscalationLevel ==
    LET level == Cardinality(RecentLogins) \div MaxFailedLogins - 1
    IN IF level < 0 THEN 0 ELSE level

\* lockout_escalation_factor to the power of the level.
Escalation[level \in 0..MaxGuesses] ==
    IF level = 0 THEN 1 ELSE EscalationFactor * Escalation[level - 1]

LockoutDurationNow ==
    LET escalated == BaseLockout * Escalation[EscalationLevel]
    IN IF escalated > LongestLockout THEN LongestLockout ELSE escalated

\* Mutant: the lockout is never escalated, and starts one failure late.
AccountLockedLate ==
    /\ Cardinality(RecentLogins) > MaxFailedLogins
    /\ loginTime < failedLogins[Len(failedLogins)] + BaseLockout

\* is_account_locked.
AccountLocked ==
    /\ Cardinality(RecentLogins) >= MaxFailedLogins
    /\ loginTime < failedLogins[Len(failedLogins)] + LockoutDurationNow

DatabaseFails ==
    /\ databaseFailures < MaxDatabaseFailures
    /\ databaseFailures' = databaseFailures + 1

\* The lockout check lets a login through; it also does when its query fails.
CheckLockout(l) ==
    /\ l \notin checked
    /\ Len(guessTimes) < MaxGuesses
    /\ \/ ~AccountLocked /\ UNCHANGED databaseFailures
       \/ DatabaseFails
    /\ checked' = checked \cup {l}
    /\ UNCHANGED <<loginTime, failedLogins, guessTimes>>

\* A wrong username or password: record_failed_attempt stores the event, or
\* loses it when the write fails.
WrongPassword(l) ==
    /\ l \in checked
    /\ Len(guessTimes) < MaxGuesses
    /\ checked' = checked \ {l}
    /\ guessTimes' = Append(guessTimes, loginTime)
    /\ \/ failedLogins' = Append(failedLogins, loginTime) /\ UNCHANGED databaseFailures
       \/ DatabaseFails /\ UNCHANGED failedLogins
    /\ UNCHANGED loginTime

\* The right password.  Its event, an unlock's event and a failed token leave
\* the lockout as it is.
RightPassword(l) ==
    /\ l \in checked
    /\ checked' = checked \ {l}
    /\ UNCHANGED <<loginTime, failedLogins, guessTimes, databaseFailures>>

ALTick ==
    /\ loginTime < MaxLoginTime
    /\ loginTime' = loginTime + 1
    /\ UNCHANGED <<failedLogins, guessTimes, checked, databaseFailures>>

ALInit ==
    /\ loginTime = 0
    /\ failedLogins = <<>>
    /\ guessTimes = <<>>
    /\ checked = {}
    /\ databaseFailures = 0

ALNext ==
    \/ \E l \in Logins : CheckLockout(l) \/ WrongPassword(l) \/ RightPassword(l)
    \/ ALTick

ALSpec == ALInit /\ [][ALNext]_alVars

-----------------------------------------------------------------------------
(* Properties.                                                             *)

\* Within one lockout, counted back from any wrong password, there are no more
\* wrong passwords than the limit, one for each other login that had passed
\* the check before, and one for each failing call of the database.
WrongPasswordsBounded ==
    \A i \in DOMAIN guessTimes :
        Cardinality({j \in 1..i : guessTimes[j] > guessTimes[i] - BaseLockout})
            <= MaxFailedLogins + Cardinality(Logins) - 1 + databaseFailures

===============================================================================
