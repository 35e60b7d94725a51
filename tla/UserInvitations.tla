---------------------------- MODULE UserInvitations ----------------------------
(***************************************************************************)
(* Invitations by email: backend/services/user_invitation_service.py.  Two *)
(* dictionaries in memory hold them: by id, and the id of the last one of  *)
(* each email.  No method suspends while it changes them, so each is one   *)
(* step; the magic link made for an accepted invitation may fail.          *)
(***************************************************************************)
EXTENDS Integers, Sequences, FiniteSets

CONSTANTS
    Emails,            \* the addresses invited
    InvitationHours,   \* expires_hours, in ticks
    MaxInvitations,    \* bound on the invitations created
    MaxInvitationTime  \* bound on the clock

ASSUME UserInvitationsAssumption ==
    /\ IsFiniteSet(Emails)
    /\ InvitationHours \in Nat \ {0}
    /\ MaxInvitations \in Nat /\ MaxInvitationTime \in Nat

VARIABLES
    invitationTime,  \* the clock
    invitation,      \* every invitation ever created, in order
    kept,            \* those in _invitations
    byEmail,         \* _invitations_by_email; 0 for no entry
    revoked,         \* those revoked (history)
    forgotten        \* emails whose entry was removed for an older one (history)

uiVars == <<invitationTime, invitation, kept, byEmail, revoked, forgotten>>

Active(i) ==
    i \in kept /\ ~invitation[i].used /\ invitation[i].expires > invitationTime

\* Mutant: an active invitation does not prevent the next one.
MayInviteAgain(email) == TRUE

MayInvite(email) == byEmail[email] = 0 \/ ~Active(byEmail[email])

\* create_invitation; otherwise it raises.
CreateInvitation(email) ==
    /\ Len(invitation) < MaxInvitations
    /\ MayInvite(email)
    /\ invitation' = Append(invitation,
           [email |-> email, used |-> FALSE, accepted |-> 0,
            expires |-> invitationTime + InvitationHours])
    /\ kept' = kept \cup {Len(invitation')}
    /\ byEmail' = [byEmail EXCEPT ![email] = Len(invitation')]
    /\ UNCHANGED <<invitationTime, revoked, forgotten>>

\* accept_invitation marks it used before the magic link is made, and keeps
\* it marked when that fails.
AcceptInvitation(i) ==
    /\ Active(i)
    /\ \E made \in {0, 1} :
         invitation' = [invitation EXCEPT ![i].used = TRUE, ![i].accepted = @ + made]
    /\ UNCHANGED <<invitationTime, kept, byEmail, revoked, forgotten>>

RevokeInvitation(i) ==
    /\ i \in kept
    /\ invitation' = [invitation EXCEPT ![i].used = TRUE]
    /\ revoked' = revoked \cup (IF invitation[i].accepted = 0 THEN {i} ELSE {})
    /\ UNCHANGED <<invitationTime, kept, byEmail, forgotten>>

\* cleanup_expired_invitations removes the email's entry with the invitation,
\* even when the entry is of a newer one.
CleanupExpiredInvitations ==
    LET expired == {i \in kept : invitation[i].expires <= invitationTime}
        emails == {invitation[i].email : i \in expired}
    IN /\ kept' = kept \ expired
       /\ byEmail' = [e \in Emails |-> IF e \in emails THEN 0 ELSE byEmail[e]]
       /\ forgotten' = forgotten \cup {e \in emails : byEmail[e] \in kept \ expired}
       /\ UNCHANGED <<invitationTime, invitation, revoked>>

UITick ==
    /\ invitationTime < MaxInvitationTime
    /\ invitationTime' = invitationTime + 1
    /\ UNCHANGED <<invitation, kept, byEmail, revoked, forgotten>>

UIInit ==
    /\ invitationTime = 0
    /\ invitation = <<>>
    /\ kept = {}
    /\ byEmail = [e \in Emails |-> 0]
    /\ revoked = {}
    /\ forgotten = {}

UINext ==
    \/ \E e \in Emails : CreateInvitation(e)
    \/ \E i \in DOMAIN invitation : AcceptInvitation(i) \/ RevokeInvitation(i)
    \/ CleanupExpiredInvitations
    \/ UITick

UISpec == UIInit /\ [][UINext]_uiVars

-----------------------------------------------------------------------------
(* Properties.                                                             *)

\* An email has one active invitation at most - unless a clean-up forgot the
\* newer of two, when the email was invited again before the expired one was
\* cleaned up.
OneActiveInvitation ==
    \A e \in Emails \ forgotten :
        Cardinality({i \in DOMAIN invitation : Active(i) /\ invitation[i].email = e}) <= 1

===============================================================================
