------------------------------ MODULE PINManager ------------------------------
(***************************************************************************)
(* PIN validation, PIN sessions and the operations they authorize, for one *)
(* user: backend/services/pin_manager.py, with a database session set.     *)
(*                                                                         *)
(* Every query is an await: what a validation or an authorization read may *)
(* be out of date when it goes on, while what it changes on a loaded       *)
(* object is seen at once by the others.  The two queries of the lockout   *)
(* check are one step, and a commit takes no step of its own: nothing is   *)
(* decided after it.                                                       *)
(***************************************************************************)
EXTENDS Integers, Sequences, FiniteSets, FiniteSetsExt

CONSTANTS
    Validations,           \* validations that may be under way at once
    Authorizations,        \* authorizations that may be under way at once
    PinTypes,              \* a subset of "emergency", "override", "maintenance"
    MaxFailedAttempts,     \* max_failed_attempts
    LockoutDuration,       \* lockout_duration_minutes, in ticks
    MaxConcurrentSessions, \* max_concurrent_sessions
    SessionTimeout,        \* session_timeout_minutes, in ticks
    EmergencyTimeout,      \* emergency_pin_expires_minutes, in ticks
    MaxTime,               \* bound on the clock
    MaxPINAttempts,        \* bound on the validations begun
    MaxOperations          \* bound on the operations of a session

ASSUME PINManagerAssumption ==
    /\ IsFiniteSet(Validations) /\ IsFiniteSet(Authorizations)
    /\ PinTypes \subseteq {"emergency", "override", "maintenance"}
    /\ \A n \in {MaxFailedAttempts, LockoutDuration, MaxConcurrentSessions,
                 SessionTimeout, EmergencyTimeout} : n \in Nat \ {0}
    /\ \A n \in {MaxTime, MaxPINAttempts, MaxOperations} : n \in Nat

VARIABLES
    pmTime,        \* the clock
    failures,      \* pin type -> the times of its failed attempts, in order
    guesses,       \* pin type -> those of them that compared a PIN (history)
    pinSessions,   \* the PINSession rows, in order of creation
    validation,    \* a validation's place and what it has read
    authorization, \* an authorization's place and the session it has read
    begun          \* validations begun so far

pmVars == <<pmTime, failures, guesses, pinSessions, validation, authorization, begun>>

Idle == [pc |-> "idle"]
SessionIds == DOMAIN pinSessions
ActiveSessions == {s \in SessionIds : pinSessions[s].active}
LiveSessions == {s \in ActiveSessions : pinSessions[s].expires > pmTime}
SmallestOf(S) == CHOOSE x \in S : \A y \in S : x <= y

\* 0 stands for None, no limit.
OperationLimit(type) == IF type = "emergency" THEN 1 ELSE IF type = "override" THEN 3 ELSE 0
ExpiresAfter(type) == IF type = "emergency" THEN EmergencyTimeout ELSE SessionTimeout

Recent(times) == {i \in DOMAIN times : times[i] > pmTime - LockoutDuration}

\* Mutant: one failure too many is let through.
LockedOutLate(type) ==
    /\ Cardinality(Recent(failures[type])) > MaxFailedAttempts
    /\ pmTime < failures[type][Len(failures[type])] + LockoutDuration

\* _is_user_locked_out: enough recent failures, of any reason, and the last of
\* all less than the duration ago.
LockedOut(type) ==
    /\ Cardinality(Recent(failures[type])) >= MaxFailedAttempts
    /\ pmTime < failures[type][Len(failures[type])] + LockoutDuration

RecordFailure(type) == failures' = [failures EXCEPT ![type] = Append(@, pmTime)]

-----------------------------------------------------------------------------
(* validate_pin.                                                           *)

\* The call, up to the answer of the lockout check.  A blocked attempt is
\* recorded as one more failure.
BeginValidation(v, type) ==
    /\ validation[v] = Idle
    /\ begun < MaxPINAttempts
    /\ begun' = begun + 1
    /\ IF LockedOut(type)
       THEN RecordFailure(type) /\ UNCHANGED validation
       ELSE /\ validation' = [validation EXCEPT ![v] = [pc |-> "fetch", type |-> type]]
            /\ UNCHANGED failures
    /\ UNCHANGED <<pmTime, guesses, pinSessions, authorization>>

\* There is no active PIN of this type.
PinNotFound(v) ==
    /\ validation[v].pc = "fetch"
    /\ RecordFailure(validation[v].type)
    /\ validation' = [validation EXCEPT ![v] = Idle]
    /\ UNCHANGED <<pmTime, guesses, pinSessions, authorization, begun>>

WrongPin(v) ==
    /\ validation[v].pc = "fetch"
    /\ RecordFailure(validation[v].type)
    /\ guesses' = [guesses EXCEPT ![validation[v].type] = Append(@, pmTime)]
    /\ validation' = [validation EXCEPT ![v] = Idle]
    /\ UNCHANGED <<pmTime, pinSessions, authorization, begun>>

\* _cleanup_expired_sessions, for every user's sessions.
CleanedUp ==
    [s \in SessionIds |->
        [pinSessions[s] EXCEPT !.active = @ /\ pinSessions[s].expires > pmTime]]

\* The right PIN: _create_session begins by cleaning up.
RightPin(v) ==
    /\ validation[v].pc = "fetch"
    /\ pinSessions' = CleanedUp
    /\ validation' = [validation EXCEPT ![v] =
           [pc |-> "count", type |-> validation[v].type]]
    /\ UNCHANGED <<pmTime, failures, guesses, authorization, begun>>

\* The sessions are counted; over the limit, the oldest is looked for next.
CountSessions(v) ==
    /\ validation[v].pc = "count"
    /\ validation' = [validation EXCEPT ![v] =
           [pc |-> IF Cardinality(LiveSessions) >= MaxConcurrentSessions
                   THEN "oldest" ELSE "add",
            type |-> validation[v].type, victim |-> 0]]
    /\ UNCHANGED <<pmTime, failures, guesses, pinSessions, authorization, begun>>

\* The oldest active session, expired or not.
OldestActive == IF ActiveSessions = {} THEN 0 ELSE SmallestOf(ActiveSessions)

FindOldest(v) ==
    /\ validation[v].pc = "oldest"
    /\ validation' = [validation EXCEPT ![v] =
           [pc |-> "add", type |-> validation[v].type,
            victim |-> OldestActive]]
    /\ UNCHANGED <<pmTime, failures, guesses, pinSessions, authorization, begun>>

\* The oldest ends and the new session is added.
AddSession(v) ==
    /\ validation[v].pc = "add"
    /\ LET kept == [s \in SessionIds |->
                       [pinSessions[s] EXCEPT !.active = @ /\ s # validation[v].victim]]
           new == [type |-> validation[v].type, active |-> TRUE, operations |-> 0,
                   expires |-> pmTime + ExpiresAfter(validation[v].type)]
       IN pinSessions' = Append(kept, new)
    /\ validation' = [validation EXCEPT ![v] = Idle]
    /\ UNCHANGED <<pmTime, failures, guesses, authorization, begun>>

-----------------------------------------------------------------------------
(* authorize_operation.                                                    *)

\* The query filters on is_active ...
ReadSession(a, s) ==
    /\ authorization[a] = Idle
    /\ s \in ActiveSessions
    /\ authorization' = [authorization EXCEPT ![a] = [pc |-> "read", session |-> s]]
    /\ UNCHANGED <<pmTime, failures, guesses, pinSessions, validation, begun>>

\* Mutant: the limit is not looked at again after the query.
UsedUpNever(s) == FALSE

UsedUp(s) ==
    /\ OperationLimit(pinSessions[s].type) > 0
    /\ pinSessions[s].operations >= OperationLimit(pinSessions[s].type)

\* ... and what follows the query looks at the session as it is by now, except
\* for is_active.
Decide(a) ==
    /\ authorization[a].pc = "read"
    /\ LET s == authorization[a].session
           row == pinSessions[s]
       IN /\ row.operations < MaxOperations
          /\ pinSessions' = [pinSessions EXCEPT ![s] =
                 IF pmTime > row.expires \/ UsedUp(s)
                 THEN [row EXCEPT !.active = FALSE]
                 ELSE [row EXCEPT !.operations = @ + 1,
                                  !.active = @ /\ OperationLimit(row.type) # 1]]
    /\ authorization' = [authorization EXCEPT ![a] = Idle]
    /\ UNCHANGED <<pmTime, failures, guesses, validation, begun>>

\* The session belongs to another user than the one named: nothing changes.
UserMismatch(a) ==
    /\ authorization[a].pc = "read"
    /\ pmTime <= pinSessions[authorization[a].session].expires
    /\ authorization' = [authorization EXCEPT ![a] = Idle]
    /\ UNCHANGED <<pmTime, failures, guesses, pinSessions, validation, begun>>

-----------------------------------------------------------------------------

RevokeSession(s) ==
    /\ s \in ActiveSessions
    /\ pinSessions' = [pinSessions EXCEPT ![s].active = FALSE]
    /\ UNCHANGED <<pmTime, failures, guesses, validation, authorization, begun>>

RevokeAllUserSessions ==
    /\ pinSessions' = [s \in SessionIds |-> [pinSessions[s] EXCEPT !.active = FALSE]]
    /\ UNCHANGED <<pmTime, failures, guesses, validation, authorization, begun>>

\* get_system_status cleans up before it counts.
SystemStatus ==
    /\ pinSessions' = CleanedUp
    /\ UNCHANGED <<pmTime, failures, guesses, validation, authorization, begun>>

PMTick ==
    /\ pmTime < MaxTime
    /\ pmTime' = pmTime + 1
    /\ UNCHANGED <<failures, guesses, pinSessions, validation, authorization, begun>>

PMInit ==
    /\ pmTime = 0
    /\ failures = [t \in PinTypes |-> <<>>]
    /\ guesses = [t \in PinTypes |-> <<>>]
    /\ pinSessions = <<>>
    /\ validation = [v \in Validations |-> Idle]
    /\ authorization = [a \in Authorizations |-> Idle]
    /\ begun = 0

PMNext ==
    \/ \E v \in Validations :
         \/ \E t \in PinTypes : BeginValidation(v, t)
         \/ PinNotFound(v) \/ WrongPin(v) \/ RightPin(v)
         \/ CountSessions(v) \/ FindOldest(v) \/ AddSession(v)
    \/ \E a \in Authorizations :
         \/ \E s \in SessionIds : ReadSession(a, s)
         \/ Decide(a) \/ UserMismatch(a)
    \/ \E s \in SessionIds : RevokeSession(s)
    \/ RevokeAllUserSessions
    \/ SystemStatus
    \/ PMTick

PMSpec == PMInit /\ [][PMNext]_pmVars

-----------------------------------------------------------------------------
(* Properties.                                                             *)

\* No session authorizes more operations than its kind allows: an emergency
\* session one, an override session three, also when several authorizations
\* read it before the first is counted.
OperationsWithinLimit ==
    \A s \in SessionIds :
        OperationLimit(pinSessions[s].type) > 0 =>
            pinSessions[s].operations <= OperationLimit(pinSessions[s].type)

\* Wrong PINs of a type within one lockout duration: the limit, and one more
\* for each validation that passed the check before the last failure counted.
GuessesBounded ==
    \A t \in PinTypes : \A i \in DOMAIN guesses[t] :
        Cardinality({j \in DOMAIN guesses[t] :
            guesses[t][j] <= guesses[t][i] /\ guesses[t][j] > guesses[t][i] - LockoutDuration})
        <= MaxFailedAttempts + Cardinality(Validations) - 1

===============================================================================
