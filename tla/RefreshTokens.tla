----------------------------- MODULE RefreshTokens -----------------------------
(***************************************************************************)
(* Refresh tokens of one user and their rotation: generate, validate,      *)
(* refresh, revoke and clean up in backend/services/auth_manager.py (with  *)
(* its own repository), over the user_sessions table of                    *)
(* auth_repository.py.                                                     *)
(*                                                                         *)
(* A refresh awaits the look-up of its token, the creation of the new one  *)
(* and the revocation of the old one.  A failing call of the repository    *)
(* returns None, False or 0: also the look-up, whose None lets the token   *)
(* pass.  A token is its position in order of issue, valid, by the time    *)
(* signed in it, until it expires; its row may be active, revoked or       *)
(* deleted.                                                                *)
(***************************************************************************)
EXTENDS Integers, Sequences, FiniteSets

CONSTANTS
    Refreshes,         \* refreshes that may be under way at once
    RefreshLifetime,   \* refresh_token_expire_days, in ticks
    MaxTokenTime,      \* bound on the clock
    MaxTokens,         \* bound on the tokens issued
    MaxTokenFailures   \* bound on the failing calls of the repository

ASSUME RefreshTokensAssumption ==
    /\ IsFiniteSet(Refreshes)
    /\ RefreshLifetime \in Nat \ {0}
    /\ \A n \in {MaxTokenTime, MaxTokens, MaxTokenFailures} : n \in Nat

VARIABLES
    tokenTime,      \* the clock
    expiry,         \* token -> the time it expires
    row,            \* token -> its row: "active", "revoked", "deleted"
    refresh,        \* a refresh's place and its token
    retired,        \* the tokens whose revocation was written (history)
    accepted,       \* token -> how often it was accepted for a refresh (history)
    reused,         \* acceptances of retired tokens (history)
    tokenFailures   \* failing calls so far

rtVars == <<tokenTime, expiry, row, refresh, retired, accepted, reused, tokenFailures>>

Issued == DOMAIN expiry
Unexpired(t) == tokenTime <= expiry[t]
NoRefresh == [pc |-> "idle"]
Done(r) == refresh' = [refresh EXCEPT ![r] = NoRefresh]

CallFails ==
    /\ tokenFailures < MaxTokenFailures
    /\ tokenFailures' = tokenFailures + 1

\* generate_refresh_token, once its row is stored; otherwise it raises.
Issue ==
    /\ Len(expiry) < MaxTokens
    /\ expiry' = Append(expiry, tokenTime + RefreshLifetime)
    /\ row' = Append(row, "active")
    /\ accepted' = Append(accepted, 0)

\* A login, with the first token of a chain.
LoginIssues ==
    /\ Issue
    /\ UNCHANGED <<tokenTime, refresh, retired, reused, tokenFailures>>

\* validate_refresh_token refuses a token whose row is there and revoked: one
\* without a row passes.
NotRevoked(t) == row[t] # "revoked"

\* refresh_access_token up to the answer of the look-up, which also passes
\* when the query fails.
ValidateRefresh(r, t) ==
    /\ refresh[r] = NoRefresh
    /\ Unexpired(t)
    /\ \/ NotRevoked(t) /\ UNCHANGED tokenFailures
       \/ CallFails
    /\ refresh' = [refresh EXCEPT ![r] = [pc |-> "issue", token |-> t]]
    /\ accepted' = [accepted EXCEPT ![t] = @ + 1]
    /\ reused' = IF t \in retired THEN reused + 1 ELSE reused
    /\ UNCHANGED <<tokenTime, expiry, row, retired>>

\* An expired token is revoked on sight, if it has a row.
RefreshExpired(t) ==
    /\ ~Unexpired(t)
    /\ row[t] # "deleted"
    /\ row' = [row EXCEPT ![t] = "revoked"]
    /\ UNCHANGED <<tokenTime, expiry, refresh, retired, accepted, reused, tokenFailures>>

IssueNext(r) ==
    /\ refresh[r].pc = "issue"
    /\ \/ /\ Issue
          /\ refresh' = [refresh EXCEPT ![r].pc = "retire"]
          /\ UNCHANGED tokenFailures
       \/ CallFails /\ Done(r) /\ UNCHANGED <<expiry, row, accepted>>
    /\ UNCHANGED <<tokenTime, retired, reused>>

\* The old token is revoked.  A token that expired by now, or whose row is
\* gone, needs no revocation; the result of the update is not looked at.
RetireOld(r) ==
    /\ refresh[r].pc = "retire"
    /\ LET t == refresh[r].token
       IN \/ /\ Unexpired(t) /\ row[t] # "deleted"
             /\ row' = [row EXCEPT ![t] = "revoked"]
             /\ retired' = retired \cup {t}
             /\ UNCHANGED tokenFailures
          \/ /\ ~Unexpired(t) \/ row[t] = "deleted"
             /\ UNCHANGED <<row, retired, tokenFailures>>
          \/ CallFails /\ UNCHANGED <<row, retired>>
    /\ Done(r)
    /\ UNCHANGED <<tokenTime, expiry, accepted, reused>>

\* revoke_refresh_token and revoke_all_user_refresh_tokens.
RevokeTokens(T) ==
    /\ row' = [t \in Issued |-> IF t \in T /\ row[t] # "deleted" THEN "revoked" ELSE row[t]]
    /\ retired' = retired \cup {t \in T : row[t] # "deleted"}
    /\ UNCHANGED <<tokenTime, expiry, refresh, accepted, reused, tokenFailures>>

\* Mutant: the rows of revoked tokens are deleted too.
DeletedByCleanupToo(t) == expiry[t] < tokenTime \/ row[t] = "revoked"

DeletedByCleanup(t) == expiry[t] < tokenTime

\* cleanup_expired_refresh_tokens.
CleanupTokens ==
    /\ row' = [t \in Issued |-> IF DeletedByCleanup(t) THEN "deleted" ELSE row[t]]
    /\ UNCHANGED <<tokenTime, expiry, refresh, retired, accepted, reused, tokenFailures>>

RTTick ==
    /\ tokenTime < MaxTokenTime
    /\ tokenTime' = tokenTime + 1
    /\ UNCHANGED <<expiry, row, refresh, retired, accepted, reused, tokenFailures>>

RTInit ==
    /\ tokenTime = 0
    /\ expiry = <<>>
    /\ row = <<>>
    /\ refresh = [r \in Refreshes |-> NoRefresh]
    /\ retired = {}
    /\ accepted = <<>>
    /\ reused = 0
    /\ tokenFailures = 0

RTNext ==
    \/ LoginIssues
    \/ \E r \in Refreshes :
         \/ \E t \in Issued : ValidateRefresh(r, t)
         \/ IssueNext(r) \/ RetireOld(r)
    \/ \E t \in Issued : RefreshExpired(t) \/ RevokeTokens({t})
    \/ RevokeTokens(Issued)
    \/ CleanupTokens
    \/ RTTick

RTSpec == RTInit /\ [][RTNext]_rtVars

-----------------------------------------------------------------------------
(* Properties.                                                             *)

\* What a token is good for.  One that was rotated or revoked is let through
\* again only by a look-up that failed, once for each, even though a token
\* without a row passes: clean-up deletes only the rows of tokens that have
\* expired.  And a token is accepted at most by as many refreshes as run at
\* once, all of which look it up before the first revokes it, and once more for
\* each failing call, of the look-up, the issue or the revocation.
TokenUsesBounded ==
    /\ reused <= tokenFailures
    /\ \A t \in Issued : accepted[t] <= Cardinality(Refreshes) + tokenFailures

===============================================================================
