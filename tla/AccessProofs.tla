---------------------------- MODULE AccessProofs ----------------------------
(***************************************************************************)
(* Proofs about the components that decide who may do what, for every      *)
(* number of concurrent calls, every limit, window and lifetime.  The      *)
(* components share no state: each theorem is about the specification of   *)
(* one of them.                                                            *)
(***************************************************************************)
EXTENDS PINManager, AccountLockout, BackupCodes, RefreshTokens, RateLimit,
        UserInvitations, WebSocketService, SequenceLemmas

-----------------------------------------------------------------------------
(* The refresh tokens.                                                     *)

\* A refresh that is under way holds a token that was issued.
Pending == [pc : {"issue", "retire"}, token : Issued]

RTTypeOK ==
    /\ tokenTime \in Nat
    /\ expiry \in Seq(Nat)
    /\ row \in Seq({"active", "revoked", "deleted"}) /\ Len(row) = Len(expiry)
    /\ refresh \in [Refreshes -> {NoRefresh} \cup Pending]

\* A retired token's row never becomes active again, and a row is deleted only
\* after its token has expired.
RetiredInv ==
    /\ RTTypeOK
    /\ retired \subseteq Issued
    /\ \A t \in retired : row[t] # "active"
    /\ \A t \in Issued : row[t] = "deleted" => expiry[t] < tokenTime

-----------------------------------------------------------------------------

LEMMA IssuedType ==
    ASSUME RTTypeOK
    PROVE  /\ Issued = 1..Len(expiry) /\ Len(expiry) \in Nat
           /\ \A t \in Issued : expiry[t] \in Nat /\ row[t] \in {"active", "revoked", "deleted"}
BY DEF RTTypeOK, Issued

\* Rows that only go from active to revoked, or to deleted once the token has
\* expired, keep what is known of the retired ones.
LEMMA RowsMoveOn ==
    ASSUME RetiredInv,
           row' \in Seq({"active", "revoked", "deleted"}), Len(row') = Len(row),
           UNCHANGED <<tokenTime, expiry>>,
           refresh' \in [Refreshes -> {NoRefresh} \cup Pending],
           retired' \subseteq Issued,
           \A t \in retired' : row'[t] # "active",
           \A t \in Issued : row'[t] = "deleted" => row[t] = "deleted" \/ expiry[t] < tokenTime
    PROVE  RetiredInv'
<1>1. Issued' = Issued /\ Pending' = Pending
  BY DEF Issued, Pending
<1> QED
  BY <1>1 DEF RetiredInv, RTTypeOK

\* A new token comes with an active row and leaves the others alone.
LEMMA IssueKeeps ==
    ASSUME RetiredInv, Issue, UNCHANGED <<tokenTime, retired>>,
           refresh' \in [Refreshes -> {NoRefresh} \cup Pending]
    PROVE  RetiredInv'
<1> USE RefreshTokensAssumption
<1>1. /\ expiry' = Append(expiry, tokenTime + RefreshLifetime) /\ row' = Append(row, "active")
      /\ tokenTime + RefreshLifetime \in Nat
  BY DEF Issue, RetiredInv, RTTypeOK
<1>2. /\ expiry' \in Seq(Nat) /\ row' \in Seq({"active", "revoked", "deleted"})
      /\ Len(row') = Len(expiry') /\ Len(expiry') = Len(expiry) + 1 /\ Len(expiry) \in Nat
      /\ Len(row) = Len(expiry)
  BY <1>1 DEF RetiredInv, RTTypeOK
<1>3. Issued = 1..Len(expiry) /\ Issued' = 1..(Len(expiry) + 1)
  BY <1>2 DEF Issued, RetiredInv, RTTypeOK
<1>4. \A t \in Issued : expiry'[t] = expiry[t] /\ row'[t] = row[t]
  BY <1>1, <1>2, <1>3 DEF RetiredInv, RTTypeOK
<1>5. row'[Len(expiry) + 1] = "active"
  BY <1>1, <1>2 DEF RetiredInv, RTTypeOK
<1>6. \A t \in Issued' : t \in Issued \/ t = Len(expiry) + 1
  BY <1>2, <1>3
<1>7. Pending \subseteq Pending'
  BY <1>3 DEF Pending
<1>8. refresh' \in [Refreshes -> {NoRefresh} \cup Pending']
  BY <1>7
<1>9. retired' \subseteq Issued' /\ \A t \in retired' : row'[t] # "active"
  BY <1>2, <1>3, <1>4 DEF RetiredInv
<1>10. \A t \in Issued' : row'[t] = "deleted" => expiry'[t] < tokenTime'
  BY <1>4, <1>5, <1>6 DEF RetiredInv
<1> QED
  BY <1>2, <1>8, <1>9, <1>10 DEF RetiredInv, RTTypeOK

LEMMA RetireOldKeeps ==
    ASSUME RetiredInv, NEW r \in Refreshes, RetireOld(r)
    PROVE  RetiredInv'
<1> DEFINE t == refresh[r].token
<1>1. refresh[r] \in Pending /\ t \in Issued
  BY DEF RetireOld, RetiredInv, RTTypeOK, NoRefresh, Pending
<1>2. refresh' \in [Refreshes -> {NoRefresh} \cup Pending]
  BY DEF RetireOld, Done, RetiredInv, RTTypeOK
<1>3. UNCHANGED <<tokenTime, expiry>>
  BY DEF RetireOld
<1>4. CASE row' = [row EXCEPT ![t] = "revoked"] /\ retired' = retired \cup {t}
  <2>1. /\ row' \in Seq({"active", "revoked", "deleted"}) /\ Len(row') = Len(row)
        /\ \A u \in Issued : row'[u] = IF u = t THEN "revoked" ELSE row[u]
    BY <1>1, <1>4, IssuedType DEF RetiredInv, RTTypeOK
  <2> QED
    BY <1>1, <1>2, <1>3, <1>4, <2>1, RowsMoveOn DEF RetiredInv
<1>5. CASE UNCHANGED <<row, retired>>
  BY <1>2, <1>3, <1>5, RowsMoveOn DEF RetiredInv, RTTypeOK
<1> QED
  BY <1>4, <1>5 DEF RetireOld

\* Rows replaced all at once.
LEMMA AllRows ==
    ASSUME RTTypeOK, row' \in [Issued -> {"active", "revoked", "deleted"}]
    PROVE  row' \in Seq({"active", "revoked", "deleted"}) /\ Len(row') = Len(row)
<1>1. Issued = 1..Len(expiry) /\ Len(expiry) \in Nat
  BY IssuedType
<1>2. row' \in Seq({"active", "revoked", "deleted"})
  BY <1>1
<1> QED
  BY <1>1, <1>2 DEF RTTypeOK

LEMMA InitialTokens == RTInit => RetiredInv
<1> SUFFICES ASSUME RTInit PROVE RetiredInv
  OBVIOUS
<1>1. Issued = {}
  BY DEF RTInit, Issued
<1> QED
  BY <1>1 DEF RTInit, RetiredInv, RTTypeOK

-----------------------------------------------------------------------------

\* However refreshes, logins, logouts and clean-ups overlap: the row of a token
\* whose revocation was written is there as long as the signature would let it pass.
LEMMA RetiredInvKept == RetiredInv /\ [RTNext]_rtVars => RetiredInv'
<1> SUFFICES ASSUME RetiredInv, [RTNext]_rtVars PROVE RetiredInv'
  OBVIOUS
<1> USE DEF RTTypeOK
<1>1. CASE LoginIssues
  <2>1. UNCHANGED refresh /\ refresh \in [Refreshes -> {NoRefresh} \cup Pending]
    BY <1>1 DEF LoginIssues, RetiredInv
  <2> QED
    BY <1>1, <2>1, IssueKeeps DEF LoginIssues
<1>2. ASSUME NEW r \in Refreshes, NEW t \in Issued, ValidateRefresh(r, t) PROVE RetiredInv'
  <2>1. refresh' \in [Refreshes -> {NoRefresh} \cup Pending]
    BY <1>2 DEF ValidateRefresh, RetiredInv, Pending
  <2> QED
    BY <1>2, <2>1, RowsMoveOn DEF ValidateRefresh, RetiredInv
<1>3. ASSUME NEW r \in Refreshes, IssueNext(r) PROVE RetiredInv'
  <2>1. refresh[r] \in Pending
    BY <1>3 DEF IssueNext, RetiredInv, NoRefresh, Pending
  <2>2. refresh' \in [Refreshes -> {NoRefresh} \cup Pending]
    BY <1>3, <2>1 DEF IssueNext, Done, RetiredInv, Pending
  <2>3. CASE Issue
    BY <1>3, <2>2, <2>3, IssueKeeps DEF IssueNext
  <2>4. CASE UNCHANGED <<expiry, row>>
    BY <1>3, <2>2, <2>4, RowsMoveOn DEF IssueNext, RetiredInv
  <2> QED
    BY <1>3, <2>3, <2>4 DEF IssueNext
<1>4. ASSUME NEW r \in Refreshes, RetireOld(r) PROVE RetiredInv'
  BY <1>4, RetireOldKeeps
<1>5. ASSUME NEW t \in Issued, RefreshExpired(t) PROVE RetiredInv'
  <2>1. /\ row' \in Seq({"active", "revoked", "deleted"}) /\ Len(row') = Len(row)
        /\ \A u \in Issued : row'[u] = IF u = t THEN "revoked" ELSE row[u]
    BY <1>5, IssuedType DEF RefreshExpired, RetiredInv
  <2> QED
    BY <1>5, <2>1, RowsMoveOn DEF RefreshExpired, RetiredInv
<1>6. ASSUME NEW T \in SUBSET Issued, RevokeTokens(T) PROVE RetiredInv'
  <2>1. /\ row' \in [Issued -> {"active", "revoked", "deleted"}]
        /\ \A t \in Issued : row'[t] = IF t \in T /\ row[t] # "deleted" THEN "revoked" ELSE row[t]
    BY <1>6, IssuedType DEF RevokeTokens, RetiredInv
  <2>2. row' \in Seq({"active", "revoked", "deleted"}) /\ Len(row') = Len(row)
    BY <2>1, AllRows DEF RetiredInv
  <2>3. /\ retired' \subseteq Issued /\ \A t \in retired' : row'[t] # "active"
        /\ UNCHANGED <<tokenTime, expiry, refresh>>
    BY <1>6, <2>1 DEF RevokeTokens, RetiredInv
  <2> QED
    BY <2>1, <2>2, <2>3, RowsMoveOn DEF RetiredInv
<1>7. CASE CleanupTokens
  <2>1. /\ row' \in [Issued -> {"active", "revoked", "deleted"}]
        /\ \A t \in Issued : row'[t] = IF expiry[t] < tokenTime THEN "deleted" ELSE row[t]
    BY <1>7, IssuedType DEF CleanupTokens, DeletedByCleanup, RetiredInv
  <2>2. row' \in Seq({"active", "revoked", "deleted"}) /\ Len(row') = Len(row)
    BY <2>1, AllRows DEF RetiredInv
  <2> QED
    BY <1>7, <2>1, <2>2, RowsMoveOn DEF CleanupTokens, RetiredInv
<1>8. CASE RTTick
  <2>1. Issued' = Issued /\ Pending' = Pending /\ tokenTime' = tokenTime + 1
    BY <1>8 DEF RTTick, Issued, Pending
  <2> QED
    BY <1>8, <2>1, IssuedType DEF RTTick, RetiredInv
<1>9. CASE UNCHANGED rtVars
  BY <1>9, RowsMoveOn DEF rtVars, RetiredInv
<1> QED
  BY <1>1, <1>2, <1>3, <1>4, <1>5, <1>6, <1>7, <1>8, <1>9 DEF RTNext

-----------------------------------------------------------------------------

\* A token that the signature and its row let pass.
Usable(t) == Unexpired(t) /\ NotRevoked(t)

\* The refreshes under way with a token.
Holding(t) == {r \in Refreshes : refresh[r] # NoRefresh /\ refresh[r].token = t}

\* The acceptances of a token beyond the failing calls: while it is usable they are
\* under way, since each that ends without a failing call makes it unusable.
UsesLimit(t) == IF Usable(t) THEN Cardinality(Holding(t)) ELSE Cardinality(Refreshes)

UsesInv ==
    /\ RetiredInv
    /\ accepted \in Seq(Nat) /\ Len(accepted) = Len(expiry)
    /\ reused \in Nat /\ tokenFailures \in Nat
    /\ reused <= tokenFailures
    /\ \A t \in Issued : accepted[t] <= UsesLimit(t) + tokenFailures

LEMMA HoldingType ==
    ASSUME NEW t
    PROVE  /\ IsFiniteSet(Holding(t)) /\ Cardinality(Holding(t)) \in Nat
           /\ Cardinality(Refreshes) \in Nat
           /\ Cardinality(Holding(t)) <= Cardinality(Refreshes)
<1>1. IsFiniteSet(Refreshes) /\ Holding(t) \subseteq Refreshes
  BY RefreshTokensAssumption DEF Holding
<1> QED
  BY <1>1, FS_Subset, FS_CardinalityType

\* A step after which nobody has accepted a token, no token became usable, and a
\* usable one is held by as many or a call has failed.
LEMMA NoNewUse ==
    ASSUME UsesInv, RetiredInv', UNCHANGED <<expiry, accepted, reused>>,
           tokenFailures' \in Nat, tokenFailures <= tokenFailures',
           \A t \in Issued : Usable(t)' =>
              /\ Usable(t)
              /\ Cardinality(Holding(t)) <= Cardinality(Holding(t)') + (tokenFailures' - tokenFailures)
    PROVE  UsesInv'
<1>1. Issued' = Issued
  BY DEF Issued
<1>2. ASSUME NEW t \in Issued PROVE accepted[t] <= UsesLimit(t)' + tokenFailures'
  <2>1. /\ accepted[t] \in Nat /\ accepted[t] <= UsesLimit(t) + tokenFailures
        /\ tokenFailures \in Nat
    BY IssuedType DEF UsesInv, RetiredInv, RTTypeOK
  <2>2. /\ Cardinality(Holding(t)) \in Nat /\ Cardinality(Refreshes) \in Nat
        /\ Cardinality(Holding(t)) <= Cardinality(Refreshes)
    BY HoldingType
  <2>3. Cardinality(Holding(t)') \in Nat
    <3>1. IsFiniteSet(Refreshes) /\ Holding(t)' \subseteq Refreshes
      BY RefreshTokensAssumption DEF Holding
    <3> QED
      BY <3>1, FS_Subset, FS_CardinalityType
  <2>4. CASE Usable(t)'
    BY <2>1, <2>2, <2>3, <2>4 DEF UsesLimit
  <2>5. CASE ~Usable(t)'
    BY <2>1, <2>2, <2>5 DEF UsesLimit
  <2> QED
    BY <2>4, <2>5
<1>3. reused <= tokenFailures'
  BY DEF UsesInv
<1> QED
  BY <1>1, <1>2, <1>3 DEF UsesInv

\* An issue adds a token nobody has used.
LEMMA IssueUnused ==
    ASSUME UsesInv, RetiredInv', Issue, UNCHANGED <<tokenTime, reused, tokenFailures>>,
           \A t \in Issued : Holding(t)' = Holding(t)
    PROVE  UsesInv'
<1>1. /\ expiry' = Append(expiry, tokenTime + RefreshLifetime) /\ row' = Append(row, "active")
      /\ accepted' = Append(accepted, 0)
  BY DEF Issue
<1>2. /\ Issued = 1..Len(expiry) /\ Len(expiry) \in Nat
      /\ Len(row) = Len(expiry) /\ Len(accepted) = Len(expiry)
      /\ expiry \in Seq(Nat) /\ row \in Seq({"active", "revoked", "deleted"}) /\ accepted \in Seq(Nat)
  BY IssuedType DEF UsesInv, RetiredInv, RTTypeOK
<1>3. tokenTime + RefreshLifetime \in Nat
  BY RefreshTokensAssumption DEF UsesInv, RetiredInv, RTTypeOK
<1>4. /\ Len(expiry') = Len(expiry) + 1 /\ accepted' \in Seq(Nat) /\ Len(accepted') = Len(expiry')
      /\ \A t \in Issued : expiry'[t] = expiry[t] /\ row'[t] = row[t] /\ accepted'[t] = accepted[t]
      /\ accepted'[Len(expiry) + 1] = 0
  BY <1>1, <1>2, <1>3
<1>5. \A t \in Issued' : t \in Issued \/ t = Len(expiry) + 1
  BY <1>2, <1>4, IssuedType DEF RetiredInv, RTTypeOK, Issued
<1>6. ASSUME NEW t \in Issued' PROVE accepted'[t] <= UsesLimit(t)' + tokenFailures'
  <2>1. tokenFailures' \in Nat
    BY DEF UsesInv
  <2>2. Cardinality(Holding(t)') \in Nat /\ Cardinality(Refreshes) \in Nat
    <3>1. IsFiniteSet(Refreshes) /\ Holding(t)' \subseteq Refreshes
      BY RefreshTokensAssumption DEF Holding
    <3> QED
      BY <3>1, FS_Subset, FS_CardinalityType
  <2>3. CASE t \in Issued
    <3>1. Usable(t)' <=> Usable(t)
      BY <1>4, <2>3 DEF Usable, Unexpired, NotRevoked
    <3>2. UsesLimit(t)' = UsesLimit(t)
      BY <2>3, <3>1 DEF UsesLimit
    <3> QED
      BY <1>4, <2>3, <3>2 DEF UsesInv
  <2>4. CASE t = Len(expiry) + 1
    BY <1>4, <2>1, <2>2, <2>4 DEF UsesLimit
  <2> QED
    BY <1>5, <2>3, <2>4
<1> QED
  BY <1>4, <1>6 DEF UsesInv

\* A refresh accepts a token: it now holds it, or its look-up failed.
LEMMA AcceptedOnce ==
    ASSUME UsesInv, RetiredInv', NEW r \in Refreshes, NEW t \in Issued, ValidateRefresh(r, t)
    PROVE  UsesInv'
<1>1. /\ refresh' = [refresh EXCEPT ![r] = [pc |-> "issue", token |-> t]] /\ refresh[r] = NoRefresh
      /\ accepted' = [accepted EXCEPT ![t] = @ + 1]
      /\ UNCHANGED <<tokenTime, expiry, row, retired>>
  BY DEF ValidateRefresh
<1>2. /\ Issued = 1..Len(expiry) /\ Len(expiry) \in Nat /\ Issued' = Issued
      /\ accepted \in Seq(Nat) /\ Len(accepted) = Len(expiry)
      /\ refresh \in [Refreshes -> {NoRefresh} \cup Pending]
      /\ reused \in Nat /\ tokenFailures \in Nat /\ reused <= tokenFailures
  BY <1>1, IssuedType DEF UsesInv, RetiredInv, RTTypeOK, Issued
<1>3. /\ accepted' \in Seq(Nat) /\ Len(accepted') = Len(expiry')
      /\ \A u \in Issued : accepted'[u] = IF u = t THEN accepted[t] + 1 ELSE accepted[u]
  BY <1>1, <1>2
<1>4. \A u \in Issued : Usable(u)' <=> Usable(u)
  BY <1>1 DEF Usable, Unexpired, NotRevoked
<1>5. /\ Holding(t)' = Holding(t) \cup {r} /\ r \notin Holding(t)
      /\ \A u \in Issued : u # t => Holding(u)' = Holding(u)
  <2>1. [pc |-> "issue", token |-> t] # NoRefresh
    BY DEF NoRefresh
  <2> DEFINE new == [pc |-> "issue", token |-> t]
  <2>2. new.token = t
    OBVIOUS
  <2> HIDE DEF new
  <2>3. \A q \in Refreshes : refresh'[q] = IF q = r THEN new ELSE refresh[q]
    BY <1>1, <1>2 DEF new
  <2> QED
    BY <1>1, <2>1, <2>2, <2>3 DEF Holding, new
<1>6. Cardinality(Holding(t)') = Cardinality(Holding(t)) + 1
  BY <1>5, HoldingType, FS_AddElement
<1>7. \/ NotRevoked(t) /\ tokenFailures' = tokenFailures
      \/ tokenFailures' = tokenFailures + 1
  BY DEF ValidateRefresh, CallFails
<1>8. reused' \in Nat /\ reused' <= tokenFailures'
  <2>1. CASE NotRevoked(t) /\ tokenFailures' = tokenFailures
    <3>1. t \notin retired
      <4>1. /\ tokenTime \in Nat /\ expiry[t] \in Nat /\ tokenTime <= expiry[t]
            /\ row[t] \in {"active", "revoked", "deleted"}
        BY IssuedType DEF UsesInv, RetiredInv, RTTypeOK, ValidateRefresh, Unexpired
      <4> QED
        BY <2>1, <4>1 DEF UsesInv, RetiredInv, NotRevoked
    <3> QED
      BY <1>2, <2>1, <3>1 DEF ValidateRefresh
  <2>2. CASE tokenFailures' = tokenFailures + 1
    <3>1. reused' = reused \/ reused' = reused + 1
      BY DEF ValidateRefresh
    <3> QED
      BY <1>2, <2>2, <3>1
  <2> QED
    BY <1>7, <2>1, <2>2
<1>9. ASSUME NEW u \in Issued PROVE accepted'[u] <= UsesLimit(u)' + tokenFailures'
  <2>1. /\ accepted[u] \in Nat /\ accepted[u] <= UsesLimit(u) + tokenFailures
    BY <1>2 DEF UsesInv
  <2>2. /\ Cardinality(Holding(u)) \in Nat /\ Cardinality(Refreshes) \in Nat
    BY HoldingType
  <2>3. CASE u # t
    <3>1. UsesLimit(u)' = UsesLimit(u)
      BY <1>4, <1>5, <2>3 DEF UsesLimit
    <3>2. UsesLimit(u) \in Nat
      BY <2>2 DEF UsesLimit
    <3> QED
      BY <1>2, <1>3, <1>7, <2>1, <2>3, <3>1, <3>2
  <2>4. CASE u = t /\ Usable(t)
    <3>1. UsesLimit(t)' = Cardinality(Holding(t)) + 1 /\ UsesLimit(t) = Cardinality(Holding(t))
      BY <1>4, <1>6, <2>4 DEF UsesLimit
    <3> QED
      BY <1>2, <1>3, <1>7, <2>1, <2>2, <2>4, <3>1
  <2>5. CASE u = t /\ ~Usable(t)
    <3>1. UsesLimit(t)' = Cardinality(Refreshes) /\ UsesLimit(t) = Cardinality(Refreshes)
      BY <1>4, <2>5 DEF UsesLimit
    <3>2. tokenFailures' = tokenFailures + 1
      BY <1>7, <2>5 DEF Usable, ValidateRefresh
    <3> QED
      BY <1>2, <1>3, <2>1, <2>2, <2>5, <3>1, <3>2
  <2> QED
    BY <2>3, <2>4, <2>5
<1>10. tokenFailures' \in Nat
  BY <1>2, <1>7
<1> QED
  BY <1>2, <1>3, <1>8, <1>9, <1>10 DEF UsesInv

\* A refresh that ends no longer holds its token.
LEMMA NoLongerHolding ==
    ASSUME RTTypeOK, NEW r \in Refreshes, refresh[r] \in Pending, Done(r), NEW u
    PROVE  /\ u # refresh[r].token => Holding(u)' = Holding(u)
           /\ Cardinality(Holding(u)) <= Cardinality(Holding(u)') + 1
<1>1. refresh[r] # NoRefresh /\ \A q \in Refreshes : refresh'[q] = IF q = r THEN NoRefresh ELSE refresh[q]
  BY DEF Done, RTTypeOK, NoRefresh, Pending
<1>2. IsFiniteSet(Holding(u)')
  <2>1. IsFiniteSet(Refreshes) /\ Holding(u)' \subseteq Refreshes
    BY RefreshTokensAssumption DEF Holding
  <2> QED
    BY <2>1, FS_Subset
<1>3. CASE u = refresh[r].token
  <2>1. Holding(u) = Holding(u)' \cup {r} /\ r \notin Holding(u)'
    BY <1>1, <1>3 DEF Holding
  <2> DEFINE Left == Holding(u)'
  <2>2. IsFiniteSet(Left) /\ r \notin Left /\ Holding(u) = Left \cup {r}
    BY <1>2, <2>1
  <2> HIDE DEF Left
  <2>3. Cardinality(Left \cup {r}) = Cardinality(Left) + 1 /\ Cardinality(Left) \in Nat
    BY <2>2, FS_AddElement, FS_CardinalityType
  <2>4. Cardinality(Holding(u)) <= Cardinality(Left) + 1
    BY <2>2, <2>3
  <2> QED
    BY <1>3, <2>4 DEF Left
<1>4. CASE u # refresh[r].token
  <2>1. Holding(u)' = Holding(u)
    BY <1>1, <1>4 DEF Holding
  <2> QED
    BY <1>4, <2>1, HoldingType
<1> QED
  BY <1>3, <1>4

-----------------------------------------------------------------------------

\* However refreshes, logins, logouts and clean-ups overlap: a retired token is
\* accepted at most once for each call of the repository that fails, and every token
\* at most by the refreshes that run at once and once for each such call.
THEOREM TokenUsesAreBounded == RTSpec => []TokenUsesBounded
<1>1. RTInit => UsesInv
  <2> SUFFICES ASSUME RTInit PROVE UsesInv
    OBVIOUS
  <2>1. Issued = {}
    BY DEF RTInit, Issued
  <2> QED
    BY <2>1, InitialTokens DEF RTInit, UsesInv
<1>2. UsesInv /\ [RTNext]_rtVars => UsesInv'
  <2> SUFFICES ASSUME UsesInv, [RTNext]_rtVars PROVE UsesInv'
    OBVIOUS
  <2>1. RetiredInv'
    BY RetiredInvKept DEF UsesInv
  <2>2. RTTypeOK /\ reused \in Nat /\ tokenFailures \in Nat
    BY DEF UsesInv, RetiredInv
  <2>3. CASE LoginIssues
    <3>1. \A t \in Issued : Holding(t)' = Holding(t)
      BY <2>3 DEF LoginIssues, Holding
    <3> QED
      BY <2>1, <2>3, <3>1, IssueUnused DEF LoginIssues
  <2>4. ASSUME NEW r \in Refreshes, NEW t \in Issued, ValidateRefresh(r, t) PROVE UsesInv'
    BY <2>1, <2>4, AcceptedOnce
  <2>5. ASSUME NEW r \in Refreshes, IssueNext(r) PROVE UsesInv'
    <3>1. refresh[r] \in Pending
      BY <2>2, <2>5 DEF IssueNext, RTTypeOK, NoRefresh, Pending
    <3>2. CASE Issue /\ refresh' = [refresh EXCEPT ![r].pc = "retire"] /\ UNCHANGED tokenFailures
      <4> DEFINE new == [refresh[r] EXCEPT !.pc = "retire"]
      <4>1. new.token = refresh[r].token /\ new # NoRefresh /\ refresh[r] # NoRefresh
        BY <3>1 DEF NoRefresh, Pending
      <4>2. \A q \in Refreshes : refresh'[q] = IF q = r THEN new ELSE refresh[q]
        BY <2>2, <3>2 DEF RTTypeOK
      <4> HIDE DEF new
      <4>3. \A t \in Issued : Holding(t)' = Holding(t)
        BY <4>1, <4>2 DEF Holding
      <4> QED
        BY <2>1, <2>5, <3>2, <4>3, IssueUnused DEF IssueNext
    <3>3. CASE CallFails /\ Done(r) /\ UNCHANGED <<expiry, row, accepted>>
      <4>1. \A t \in Issued : Usable(t)' => Usable(t)
        BY <2>5, <3>3 DEF IssueNext, Usable, Unexpired, NotRevoked
      <4>2. \A t \in Issued : Cardinality(Holding(t)) <= Cardinality(Holding(t)') + 1
        BY <2>2, <3>1, <3>3, NoLongerHolding, HoldingType
      <4>3. tokenFailures' = tokenFailures + 1
        BY <3>3 DEF CallFails
      <4> QED
        BY <2>1, <2>2, <2>5, <3>3, <4>1, <4>2, <4>3, NoNewUse DEF IssueNext
    <3> QED
      BY <2>5, <3>2, <3>3 DEF IssueNext
  <2>6. ASSUME NEW r \in Refreshes, RetireOld(r) PROVE UsesInv'
    <3> DEFINE t == refresh[r].token
    <3>1. refresh[r] \in Pending /\ t \in Issued /\ Done(r)
          /\ UNCHANGED <<tokenTime, expiry, accepted, reused>>
      BY <2>2, <2>6 DEF RetireOld, RTTypeOK, NoRefresh, Pending
    <3>2. CASE row' = [row EXCEPT ![t] = "revoked"] /\ UNCHANGED tokenFailures
      <4>1. \A u \in Issued : row'[u] = IF u = t THEN "revoked" ELSE row[u]
        BY <2>2, <3>1, <3>2, IssuedType DEF RTTypeOK
      <4>2. \A u \in Issued : Usable(u)' => Usable(u) /\ u # t
        BY <3>1, <4>1 DEF Usable, Unexpired, NotRevoked
      <4>3. \A u \in Issued : Usable(u)' =>
               Cardinality(Holding(u)) <= Cardinality(Holding(u)') + (tokenFailures' - tokenFailures)
        <5> SUFFICES ASSUME NEW u \in Issued, Usable(u)'
                     PROVE  Cardinality(Holding(u)) <= Cardinality(Holding(u)') + (tokenFailures' - tokenFailures)
          OBVIOUS
        <5>1. Holding(u)' = Holding(u)
          BY <2>2, <3>1, <4>2, NoLongerHolding
        <5> QED
          BY <2>2, <3>2, <5>1, HoldingType
      <4> QED
        BY <2>1, <2>2, <3>1, <3>2, <4>2, <4>3, NoNewUse
    <3>3. CASE (~Unexpired(t) \/ row[t] = "deleted") /\ UNCHANGED <<row, tokenFailures>>
      <4>1. ~Unexpired(t)
        <5>1. row[t] = "deleted" => expiry[t] < tokenTime
          BY <3>1 DEF UsesInv, RetiredInv
        <5>2. expiry[t] \in Nat /\ tokenTime \in Nat
          BY <2>2, <3>1, IssuedType DEF RTTypeOK
        <5> QED
          BY <3>3, <5>1, <5>2 DEF Unexpired
      <4>2. \A u \in Issued : Usable(u)' => Usable(u) /\ u # t
        BY <3>1, <3>3, <4>1 DEF Usable, Unexpired, NotRevoked
      <4>3. \A u \in Issued : Usable(u)' =>
               Cardinality(Holding(u)) <= Cardinality(Holding(u)') + (tokenFailures' - tokenFailures)
        <5> SUFFICES ASSUME NEW u \in Issued, Usable(u)'
                     PROVE  Cardinality(Holding(u)) <= Cardinality(Holding(u)') + (tokenFailures' - tokenFailures)
          OBVIOUS
        <5>1. Holding(u)' = Holding(u)
          BY <2>2, <3>1, <4>2, NoLongerHolding
        <5> QED
          BY <2>2, <3>3, <5>1, HoldingType
      <4> QED
        BY <2>1, <2>2, <3>1, <3>3, <4>2, <4>3, NoNewUse
    <3>4. CASE CallFails /\ UNCHANGED row
      <4>1. \A u \in Issued : Usable(u)' => Usable(u)
        BY <3>1, <3>4 DEF Usable, Unexpired, NotRevoked
      <4>2. \A u \in Issued : Cardinality(Holding(u)) <= Cardinality(Holding(u)') + 1
        BY <2>2, <3>1, NoLongerHolding, HoldingType
      <4>3. tokenFailures' = tokenFailures + 1
        BY <3>4 DEF CallFails
      <4> QED
        BY <2>1, <2>2, <3>1, <4>1, <4>2, <4>3, NoNewUse
    <3> QED
      BY <2>6, <3>2, <3>3, <3>4 DEF RetireOld
  <2>7. ASSUME UNCHANGED <<expiry, accepted, reused, refresh, tokenFailures>>,
               \A t \in Issued : Usable(t)' => Usable(t)
        PROVE  UsesInv'
    <3>1. \A t \in Issued : Holding(t)' = Holding(t)
      BY <2>7 DEF Holding
    <3> QED
      BY <2>1, <2>2, <2>7, <3>1, HoldingType, NoNewUse
  <2>8. ASSUME NEW t \in Issued, RefreshExpired(t) PROVE UsesInv'
    <3>1. \A u \in Issued : row'[u] = IF u = t THEN "revoked" ELSE row[u]
      BY <2>2, <2>8, IssuedType DEF RefreshExpired, RTTypeOK
    <3>2. \A u \in Issued : Usable(u)' => Usable(u)
      BY <2>8, <3>1 DEF RefreshExpired, Usable, Unexpired, NotRevoked
    <3> QED
      BY <2>7, <2>8, <3>2 DEF RefreshExpired
  <2>9. ASSUME NEW T \in SUBSET Issued, RevokeTokens(T) PROVE UsesInv'
    <3>1. \A u \in Issued : Usable(u)' => Usable(u)
      BY <2>9 DEF RevokeTokens, Usable, Unexpired, NotRevoked
    <3> QED
      BY <2>7, <2>9, <3>1 DEF RevokeTokens
  <2>10. CASE CleanupTokens
    <3>1. \A u \in Issued : expiry[u] \in Nat /\ tokenTime \in Nat
      BY <2>2, IssuedType DEF RTTypeOK
    <3>2. \A u \in Issued : Usable(u)' => Usable(u)
      BY <2>10, <3>1 DEF CleanupTokens, DeletedByCleanup, Usable, Unexpired, NotRevoked
    <3> QED
      BY <2>7, <2>10, <3>2 DEF CleanupTokens
  <2>11. CASE RTTick
    <3>1. \A u \in Issued : expiry[u] \in Nat /\ tokenTime \in Nat
      BY <2>2, IssuedType DEF RTTypeOK
    <3>2. \A u \in Issued : Usable(u)' => Usable(u)
      BY <2>11, <3>1 DEF RTTick, Usable, Unexpired, NotRevoked
    <3> QED
      BY <2>7, <2>11, <3>2 DEF RTTick
  <2>12. CASE UNCHANGED rtVars
    BY <2>7, <2>12 DEF rtVars, Usable, Unexpired, NotRevoked
  <2> QED
    BY <2>3, <2>4, <2>5, <2>6, <2>8, <2>9, <2>10, <2>11, <2>12 DEF RTNext
<1>3. UsesInv => TokenUsesBounded
  <2> SUFFICES ASSUME UsesInv, NEW t \in Issued
               PROVE  accepted[t] <= Cardinality(Refreshes) + tokenFailures
    BY DEF UsesInv, TokenUsesBounded
  <2>1. /\ accepted[t] \in Nat /\ tokenFailures \in Nat
        /\ accepted[t] <= UsesLimit(t) + tokenFailures
    BY IssuedType DEF UsesInv, RetiredInv, RTTypeOK
  <2> QED
    BY <2>1, HoldingType DEF UsesLimit
<1> QED
  BY <1>1, <1>2, <1>3, PTL DEF RTSpec

-----------------------------------------------------------------------------
(* The backup codes.                                                       *)

\* Codes come in batches, each with new ones; one that is unused was never
\* marked used, unless its mark was rolled back, and one of a batch to come was
\* not either.
CodesInv ==
    /\ batches \in 0..MaxBatches
    /\ unused \cup marked \subseteq (1..batches) \X (1..CodesPerBatch)
    /\ taken \in [Codes -> 0..2]
    /\ \A c \in Codes : /\ (c \in unused /\ c \notin undone) \/ c[1] > batches => taken[c] = 0
                        /\ c \in undone \/ taken[c] <= 1

\* A new batch consists of codes that nobody has.
LEMMA NewBatchKeeps ==
    ASSUME CodesInv, batches' = batches + 1, batches < MaxBatches, unused' = NewCodes,
           Commit, UNCHANGED <<taken, undone>>
    PROVE  CodesInv'
<1>1. batches' \in 0..MaxBatches
  BY BackupCodesAssumption DEF CodesInv
<1>2. NewCodes \cup marked' \subseteq (1..batches') \X (1..CodesPerBatch)
  BY <1>1 DEF NewCodes, CodesInv, Commit
<1>3. \A c \in Codes : c \in NewCodes \/ c[1] > batches' => c[1] > batches
  BY <1>1 DEF NewCodes, CodesInv, Codes
<1> QED
  BY <1>1, <1>2, <1>3 DEF CodesInv

\* Codes that are withdrawn were not used more often for it, nor are marks that
\* are committed.
LEMMA FewerCodesKeep ==
    ASSUME CodesInv, unused' \subseteq unused, marked' \subseteq marked,
           UNCHANGED <<batches, taken, undone>>
    PROVE  CodesInv'
BY DEF CodesInv

\* Marks that are rolled back.
LEMMA RollBackKeeps ==
    ASSUME CodesInv, RollBack
    PROVE  CodesInv'
BY DEF CodesInv, RollBack

LEMMA UseCodeKeeps ==
    ASSUME CodesInv, NEW m \in MfaRequests, UseCode(m)
    PROVE  CodesInv'
<1> DEFINE c == mfaRequest[m].code
<1>1. CASE c \in unused
  <2>1. /\ unused' = unused \ {c} /\ marked' = marked \cup {c}
        /\ taken' = [taken EXCEPT ![c] = IF @ = 0 THEN 1 ELSE 2]
        /\ UNCHANGED <<batches, undone>>
    BY <1>1 DEF UseCode, StillUnused
  <2>2. c \in Codes /\ c[1] \in Int /\ batches \in Int /\ ~(c[1] > batches)
    BY <1>1, BackupCodesAssumption DEF CodesInv, Codes
  <2>3. c \in undone \/ taken[c] = 0
    BY <1>1, <2>2 DEF CodesInv
  <2>4. /\ taken' \in [Codes -> 0..2] /\ \A d \in Codes : d # c => taken'[d] = taken[d]
        /\ c \in undone \/ taken'[c] = 1
    BY <2>1, <2>2, <2>3 DEF CodesInv
  <2>5. \A d \in Codes : d \in unused' \/ d[1] > batches' => d # c
    BY <2>1, <2>2 DEF CodesInv
  <2>6. unused' \cup marked' \subseteq (1..batches') \X (1..CodesPerBatch)
    BY <1>1, <2>1 DEF CodesInv
  <2> HIDE DEF c
  <2> QED
    BY <2>1, <2>4, <2>5, <2>6 DEF CodesInv
<1>2. CASE c \notin unused
  BY <1>2, FewerCodesKeep DEF UseCode, StillUnused, Commit
<1> QED
  BY <1>1, <1>2

\* Look-ups, uses, counts, replacements, disablings and new set-ups may overlap as
\* they will: no backup code lets a second request in, unless its mark was rolled back.
THEOREM CodesWorkOnce == BCSpec => []CodeUsedOnce
<1> USE BackupCodesAssumption
<1>1. BCInit => CodesInv
  <2>1. ASSUME BCInit PROVE taken \in [Codes -> 0..2] /\ \A c \in Codes : taken[c] = 0
    BY <2>1 DEF BCInit
  <2> QED
    BY <2>1 DEF BCInit, CodesInv
<1>2. CodesInv /\ [BCNext]_bcVars => CodesInv'
  <2> SUFFICES ASSUME CodesInv, [BCNext]_bcVars PROVE CodesInv'
    OBVIOUS
  <2>1. CASE GenerateMfaSecret
    BY <2>1, NewBatchKeeps DEF GenerateMfaSecret
  <2>2. ASSUME NEW m \in MfaRequests,
               ReadSetup(m) \/ EnableMfa(m) \/ ReadMfa(m) \/ (\E c \in Codes : LookUpCode(m, c))
                 \/ CountCodes(m) \/ CommitUse(m)
        PROVE  CodesInv'
    BY <2>2, FewerCodesKeep DEF ReadSetup, EnableMfa, ReadMfa, LookUpCode, CountCodes, CommitUse,
       Commit
  <2>3. ASSUME NEW m \in MfaRequests, UseCode(m) PROVE CodesInv'
    BY <2>3, UseCodeKeeps
  <2>4. ASSUME ReplaceCodes, UNCHANGED <<taken, undone>> PROVE CodesInv'
    <3>1. CASE mfaRow # 0
      BY <2>4, <3>1, NewBatchKeeps DEF ReplaceCodes, Replaced
    <3>2. CASE mfaRow = 0
      BY <2>4, <3>2, FewerCodesKeep DEF ReplaceCodes
    <3> QED
      BY <3>1, <3>2
  <2>5. ASSUME NEW m \in MfaRequests, RegenerateAfterUse(m) PROVE CodesInv'
    BY <2>5, <2>4 DEF RegenerateAfterUse
  <2>6. CASE RegenerateBackupCodes
    BY <2>6, <2>4 DEF RegenerateBackupCodes
  <2>7. CASE DisableMfa
    BY <2>7, FewerCodesKeep DEF DisableMfa, Commit
  <2>8. CASE UNCHANGED bcVars
    BY <2>8, FewerCodesKeep DEF bcVars
  <2> QED
    BY <2>1, <2>2, <2>3, <2>5, <2>6, <2>7, <2>8, RollBackKeeps DEF BCNext
<1>3. CodesInv => CodeUsedOnce
  BY DEF CodesInv, CodeUsedOnce
<1> QED
  BY <1>1, <1>2, <1>3, PTL DEF BCSpec

-----------------------------------------------------------------------------
(* The invitations.                                                        *)

Invitation == [email : Emails, used : BOOLEAN, accepted : Int, expires : Int]

\* The email's entry is its active invitation, if it has one, unless a clean-up
\* forgot it.
InvitationsInv ==
    /\ invitationTime \in Nat
    /\ invitation \in Seq(Invitation)
    /\ kept \subseteq DOMAIN invitation
    /\ byEmail \in [Emails -> Nat]
    /\ \A i \in kept : Active(i) /\ invitation[i].email \notin forgotten
                         => byEmail[invitation[i].email] = i

LEMMA InvitationIds ==
    ASSUME InvitationsInv
    PROVE  /\ DOMAIN invitation = 1..Len(invitation) /\ Len(invitation) \in Nat
           /\ \A i \in DOMAIN invitation : invitation[i] \in Invitation
BY DEF InvitationsInv

LEMMA CreateKeeps ==
    ASSUME InvitationsInv, NEW email \in Emails, CreateInvitation(email)
    PROVE  InvitationsInv'
<1> DEFINE n == Len(invitation) + 1
           new == [email |-> email, used |-> FALSE, accepted |-> 0,
                   expires |-> invitationTime + InvitationHours]
<1>1. new \in Invitation
  BY UserInvitationsAssumption DEF Invitation, InvitationsInv
<1>2. invitation' = Append(invitation, new) /\ UNCHANGED <<invitationTime, forgotten>>
  BY DEF CreateInvitation
<1>3. /\ invitation' \in Seq(Invitation) /\ Len(invitation') = n
      /\ DOMAIN invitation' = 1..n /\ n \in Nat \ {0} /\ invitation'[n] = new
      /\ \A i \in DOMAIN invitation : invitation'[i] = invitation[i] /\ i # n /\ i \in 1..n
  BY <1>1, <1>2, InvitationIds, AppendProperties DEF InvitationsInv
<1> HIDE DEF n, new
<1>4. /\ kept' = kept \cup {n} /\ byEmail' = [byEmail EXCEPT ![email] = n]
      /\ byEmail[email] = 0 \/ ~Active(byEmail[email])
  BY <1>3 DEF CreateInvitation, MayInvite
<1>5. kept' \subseteq DOMAIN invitation' /\ byEmail' \in [Emails -> Nat]
  BY <1>3, <1>4 DEF InvitationsInv
<1>6. ASSUME NEW i \in kept', Active(i)', invitation'[i].email \notin forgotten'
      PROVE  byEmail'[invitation'[i].email] = i
  <2>1. CASE i = n
    BY <2>1, <1>3, <1>4 DEF new, InvitationsInv
  <2>2. CASE i # n
    <3>1. i \in kept /\ i \in DOMAIN invitation /\ invitation'[i] = invitation[i]
      BY <2>2, <1>3, <1>4 DEF InvitationsInv
    <3>2. Active(i) /\ byEmail[invitation[i].email] = i
      BY <3>1, <1>6, <1>2 DEF Active, InvitationsInv
    <3>3. invitation[i].email # email
      BY <3>1, <3>2, <1>4, InvitationIds
    <3> QED
      BY <3>1, <3>2, <3>3, <1>4, InvitationIds DEF Invitation, InvitationsInv
  <2> QED
    BY <2>1, <2>2
<1> QED
  BY <1>2, <1>3, <1>5, <1>6 DEF InvitationsInv

\* A step that makes nothing active, and leaves the entries as they are.
LEMMA NothingActivated ==
    ASSUME InvitationsInv, UNCHANGED <<kept, byEmail, forgotten>>,
           invitationTime' \in Nat, invitationTime' >= invitationTime,
           invitation' \in Seq(Invitation), DOMAIN invitation' = DOMAIN invitation,
           \A i \in DOMAIN invitation :
             /\ invitation'[i].email = invitation[i].email
             /\ invitation'[i].expires = invitation[i].expires
             /\ invitation[i].used => invitation'[i].used
    PROVE  InvitationsInv'
<1>1. ASSUME NEW i \in kept, Active(i)' PROVE Active(i)
  <2>4. i \in DOMAIN invitation /\ invitationTime \in Int
    BY DEF InvitationsInv
  <2>5. invitation[i] \in Invitation
    BY <2>4, InvitationIds
  <2>1. i \in DOMAIN invitation /\ invitation[i].expires \in Int /\ invitationTime \in Int
    BY <2>4, <2>5 DEF Invitation
  <2>2. ~invitation[i].used
    BY <1>1, <2>1 DEF Active
  <2>3. invitation[i].expires > invitationTime
    BY <1>1, <2>1 DEF Active
  <2> QED
    BY <2>2, <2>3 DEF Active
<1> QED
  BY <1>1 DEF InvitationsInv

LEMMA CleanupKeeps ==
    ASSUME InvitationsInv, CleanupExpiredInvitations
    PROVE  InvitationsInv'
<1> DEFINE gone == {i \in kept : invitation[i].expires <= invitationTime}
           emails == {invitation[i].email : i \in gone}
<1>1. /\ kept' = kept \ gone
      /\ byEmail' = [e \in Emails |-> IF e \in emails THEN 0 ELSE byEmail[e]]
      /\ forgotten' = forgotten \cup {e \in emails : byEmail[e] \in kept \ gone}
      /\ UNCHANGED <<invitationTime, invitation>>
  BY DEF CleanupExpiredInvitations
<1> HIDE DEF gone, emails
<1>2. byEmail' \in [Emails -> Nat]
  BY <1>1 DEF InvitationsInv
<1>3. ASSUME NEW i \in kept', Active(i)', invitation'[i].email \notin forgotten'
      PROVE  byEmail'[invitation'[i].email] = i
  <2>1. i \in kept /\ i \notin gone /\ Active(i) /\ invitation[i].email \notin forgotten
    BY <1>1, <1>3 DEF Active
  <2>2. byEmail[invitation[i].email] = i
    BY <2>1 DEF InvitationsInv
  <2>3. invitation[i].email \in Emails /\ invitation[i].email \notin emails
    BY <2>1, <2>2, <1>1, <1>3, InvitationIds DEF Invitation, InvitationsInv
  <2> QED
    BY <2>2, <2>3, <1>1
<1> QED
  BY <1>1, <1>2, <1>3 DEF InvitationsInv

\* An email never has two active invitations, whatever is created, accepted,
\* revoked and cleaned up, unless a clean-up dropped the entry of a newer one.
THEOREM InvitationsExclusive == UISpec => []OneActiveInvitation
<1>1. UIInit => InvitationsInv
  BY DEF UIInit, InvitationsInv
<1>2. InvitationsInv /\ [UINext]_uiVars => InvitationsInv'
  <2> SUFFICES ASSUME InvitationsInv, [UINext]_uiVars PROVE InvitationsInv'
    OBVIOUS
  <2>1. ASSUME NEW e \in Emails, CreateInvitation(e) PROVE InvitationsInv'
    BY <2>1, CreateKeeps
  <2>2. ASSUME NEW i \in DOMAIN invitation, AcceptInvitation(i) PROVE InvitationsInv'
    <3>1. PICK made \in {0, 1} :
            invitation' = [invitation EXCEPT ![i].used = TRUE, ![i].accepted = @ + made]
      BY <2>2 DEF AcceptInvitation
    <3>2. invitation[i] \in Invitation
      BY InvitationIds
    <3> DEFINE r == [invitation[i] EXCEPT !.used = TRUE]
               q == [r EXCEPT !.accepted = @ + made]
    <3>3. r \in Invitation /\ r.used /\ r.email = invitation[i].email
          /\ r.expires = invitation[i].expires /\ r.accepted \in Int
      BY <3>2 DEF Invitation
    <3>7. invitation' = [invitation EXCEPT ![i] = q]
      BY <3>1, <3>2 DEF Invitation
    <3> HIDE DEF r
    <3>9. r.accepted + made \in Int
      BY <3>3
    <3>8. q \in Invitation /\ q.used = r.used /\ q.email = r.email /\ q.expires = r.expires
      BY <3>3, <3>9 DEF Invitation
    <3> HIDE DEF q
    <3>4. invitation' \in Seq(Invitation) /\ DOMAIN invitation' = DOMAIN invitation
      BY <3>7, <3>8, ExceptSeq DEF InvitationsInv
    <3>5. \A j \in DOMAIN invitation : j # i => invitation'[j] = invitation[j]
      BY <3>7
    <3>6. /\ invitation'[i].used /\ invitation'[i].email = invitation[i].email
          /\ invitation'[i].expires = invitation[i].expires
      BY <3>3, <3>7, <3>8
    <3> QED
      BY <2>2, <3>4, <3>5, <3>6, NothingActivated DEF AcceptInvitation, InvitationsInv
  <2>3. ASSUME NEW i \in DOMAIN invitation, RevokeInvitation(i) PROVE InvitationsInv'
    <3>1. /\ invitation[i] \in Invitation
          /\ invitation' = [invitation EXCEPT ![i] = [invitation[i] EXCEPT !.used = TRUE]]
          /\ [invitation[i] EXCEPT !.used = TRUE] \in Invitation
      BY <2>3, InvitationIds DEF RevokeInvitation, Invitation
    <3>2. invitation' \in Seq(Invitation) /\ DOMAIN invitation' = DOMAIN invitation
      BY <3>1, ExceptSeq DEF InvitationsInv
    <3>3. \A j \in DOMAIN invitation : j # i => invitation'[j] = invitation[j]
      BY <3>1
    <3>4. /\ invitation'[i].used /\ invitation'[i].email = invitation[i].email
          /\ invitation'[i].expires = invitation[i].expires
      BY <3>1 DEF Invitation
    <3> QED
      BY <2>3, <3>2, <3>3, <3>4, NothingActivated DEF RevokeInvitation, InvitationsInv
  <2>4. CASE CleanupExpiredInvitations
    BY <2>4, CleanupKeeps
  <2>5. CASE UITick
    BY <2>5, NothingActivated DEF UITick, InvitationsInv
  <2>6. CASE UNCHANGED uiVars
    BY <2>6, NothingActivated DEF uiVars, InvitationsInv
  <2> QED
    BY <2>1, <2>2, <2>3, <2>4, <2>5, <2>6 DEF UINext
<1>3. InvitationsInv => OneActiveInvitation
  <2> SUFFICES ASSUME InvitationsInv, NEW e \in Emails \ forgotten
               PROVE  Cardinality({i \in DOMAIN invitation :
                                     Active(i) /\ invitation[i].email = e}) <= 1
    BY DEF OneActiveInvitation
  <2> DEFINE mine == {i \in DOMAIN invitation : Active(i) /\ invitation[i].email = e}
  <2>1. mine \subseteq {byEmail[e]}
    BY DEF InvitationsInv, Active
  <2>2. IsFiniteSet({byEmail[e]}) /\ Cardinality({byEmail[e]}) = 1
    BY FS_Singleton
  <2> HIDE DEF mine
  <2>3. Cardinality(mine) <= 1
    BY <2>1, <2>2, FS_Subset
  <2> QED
    BY <2>3 DEF mine
<1> QED
  BY <1>1, <1>2, <1>3, PTL DEF UISpec

-----------------------------------------------------------------------------
(* The sessions of the PIN manager.                                        *)

PinSession == [type : PinTypes, active : BOOLEAN, operations : Nat, expires : Int]

\* What a validation knows: a type of PIN, and the session it found, 0 for none.
ValidationPlaces ==
    {Idle} \cup [pc : {"fetch", "count"}, type : PinTypes]
           \cup [pc : {"oldest", "add"}, type : PinTypes, victim : Nat]

-----------------------------------------------------------------------------
(* The operations a session authorizes.                                    *)

SessionsInv ==
    /\ pmTime \in Nat
    /\ pinSessions \in Seq(PinSession)
    /\ validation \in [Validations -> ValidationPlaces]
    /\ authorization \in [Authorizations -> {Idle} \cup [pc : {"read"}, session : SessionIds]]
    /\ OperationsWithinLimit

LEMMA SessionIdsAre ==
    ASSUME SessionsInv
    PROVE  /\ SessionIds = 1..Len(pinSessions) /\ Len(pinSessions) \in Nat
           /\ \A i \in SessionIds : pinSessions[i] \in PinSession
BY DEF SessionsInv, SessionIds

LEMMA EndedRow ==
    ASSUME NEW r \in PinSession, NEW b \in BOOLEAN
    PROVE  /\ [r EXCEPT !.active = b] \in PinSession
           /\ [r EXCEPT !.active = b].type = r.type
           /\ [r EXCEPT !.active = b].operations = r.operations
BY DEF PinSession

\* Sessions of the same types, none of which authorized more than it may.
LEMMA SessionsMoveOn ==
    ASSUME SessionsInv, pmTime' \in Nat,
           validation' \in [Validations -> ValidationPlaces],
           authorization' \in [Authorizations -> {Idle} \cup [pc : {"read"}, session : SessionIds]],
           pinSessions' = [i \in SessionIds |-> pinSessions'[i]],
           \A i \in SessionIds :
             /\ pinSessions'[i] \in PinSession
             /\ pinSessions'[i].type = pinSessions[i].type
             /\ \/ pinSessions'[i].operations = pinSessions[i].operations
                \/ OperationLimit(pinSessions[i].type) = 0
                \/ pinSessions'[i].operations <= OperationLimit(pinSessions[i].type)
    PROVE  SessionsInv'
<1>1. SessionIds = 1..Len(pinSessions) /\ Len(pinSessions) \in Nat
  BY SessionIdsAre
<1>2. pinSessions' \in Seq(PinSession)
  BY <1>1, IsASeq
<1>3. SessionIds' = SessionIds
  BY DEF SessionIds
<1>4. OperationsWithinLimit'
  <2> SUFFICES ASSUME NEW i \in SessionIds, OperationLimit(pinSessions'[i].type) > 0
               PROVE  pinSessions'[i].operations <= OperationLimit(pinSessions'[i].type)
    BY <1>3 DEF OperationsWithinLimit, OperationLimit
  <2> QED
    BY DEF SessionsInv, OperationsWithinLimit
<1> QED
  BY <1>2, <1>3, <1>4 DEF SessionsInv

\* A step that leaves the sessions alone.
LEMMA SessionsAlone ==
    ASSUME SessionsInv, UNCHANGED pinSessions, pmTime' \in Nat,
           validation' \in [Validations -> ValidationPlaces],
           authorization' \in [Authorizations -> {Idle} \cup [pc : {"read"}, session : SessionIds]]
    PROVE  SessionsInv'
BY SessionIdsAre, SessionsMoveOn DEF SessionsInv, SessionIds

\* Sessions that end.
LEMMA SessionsEnd ==
    ASSUME SessionsInv, UNCHANGED <<pmTime, authorization>>,
           validation' \in [Validations -> ValidationPlaces],
           NEW b \in [SessionIds -> BOOLEAN],
           pinSessions' = [i \in SessionIds |-> [pinSessions[i] EXCEPT !.active = b[i]]]
    PROVE  SessionsInv'
<1>1. ASSUME NEW i \in SessionIds
      PROVE  /\ pinSessions'[i] \in PinSession /\ pinSessions'[i].type = pinSessions[i].type
             /\ pinSessions'[i].operations = pinSessions[i].operations
  <2>1. pinSessions[i] \in PinSession /\ b[i] \in BOOLEAN
    BY SessionIdsAre
  <2> QED
    BY <2>1, EndedRow
<1>2. pinSessions' = [i \in SessionIds |-> pinSessions'[i]]
  OBVIOUS
<1> QED
  BY <1>1, <1>2, SessionsMoveOn DEF SessionsInv

LEMMA CleanedUpEnds ==
    ASSUME SessionsInv, UNCHANGED <<pmTime, authorization>>, pinSessions' = CleanedUp,
           validation' \in [Validations -> ValidationPlaces]
    PROVE  SessionsInv'
<1> DEFINE b == [i \in SessionIds |-> pinSessions[i].active /\ pinSessions[i].expires > pmTime]
<1>1. b \in [SessionIds -> BOOLEAN]
  OBVIOUS
<1>2. \A i \in SessionIds : b[i] = (pinSessions[i].active /\ pinSessions[i].expires > pmTime)
  OBVIOUS
<1> HIDE DEF b
<1>3. pinSessions' = [i \in SessionIds |-> [pinSessions[i] EXCEPT !.active = b[i]]]
  BY <1>2 DEF CleanedUp
<1> QED
  BY <1>1, <1>3, SessionsEnd

LEMMA AddKeepsSessions ==
    ASSUME SessionsInv, NEW v \in Validations, AddSession(v)
    PROVE  SessionsInv'
<1> USE PINManagerAssumption
<1> DEFINE rest == [s \in SessionIds |->
                       [pinSessions[s] EXCEPT !.active = @ /\ s # validation[v].victim]]
           new == [type |-> validation[v].type, active |-> TRUE, operations |-> 0,
                   expires |-> pmTime + ExpiresAfter(validation[v].type)]
           n == Len(pinSessions)
<1>1. n \in Nat /\ SessionIds = 1..n /\ \A i \in SessionIds : pinSessions[i] \in PinSession
  BY SessionIdsAre
<1>2. new \in PinSession
  <2>1. validation[v].type \in PinTypes
    BY DEF AddSession, SessionsInv, ValidationPlaces, Idle
  <2>2. ExpiresAfter(validation[v].type) \in Nat
    BY DEF ExpiresAfter
  <2> QED
    BY <2>1, <2>2 DEF PinSession, SessionsInv
<1>3. ASSUME NEW i \in SessionIds
      PROVE  rest[i] \in PinSession /\ rest[i].type = pinSessions[i].type
             /\ rest[i].operations = pinSessions[i].operations
  <2>1. (pinSessions[i].active /\ i # validation[v].victim) \in BOOLEAN
    OBVIOUS
  <2> QED
    BY <2>1, <1>1, EndedRow
<1>4. rest \in Seq(PinSession) /\ DOMAIN rest = 1..n /\ Len(rest) = n
  <2>1. rest = [i \in 1..n |-> rest[i]]
    BY <1>1
  <2> HIDE DEF rest
  <2> QED
    BY <2>1, <1>1, <1>3, IsASeq
<1>5. pinSessions' = Append(rest, new) /\ validation' = [validation EXCEPT ![v] = Idle]
      /\ UNCHANGED <<pmTime, authorization>>
  BY DEF AddSession
<1>10. new.type \in PinTypes /\ new.operations = 0
  BY <1>2 DEF PinSession
<1> HIDE DEF rest, new, n
<1>6. /\ pinSessions' \in Seq(PinSession) /\ SessionIds' = 1..(n + 1)
      /\ \A i \in SessionIds : pinSessions'[i] = rest[i]
      /\ pinSessions'[n + 1] = new
  BY <1>1, <1>2, <1>4, <1>5, AppendProperties DEF SessionIds
<1>7. validation' \in [Validations -> ValidationPlaces]
  BY <1>5 DEF SessionsInv, ValidationPlaces
<1>8. authorization' \in [Authorizations -> {Idle} \cup [pc : {"read"}, session : SessionIds']]
  <2>1. SessionIds \subseteq SessionIds'
    BY <1>1, <1>6
  <2>2. [pc : {"read"}, session : SessionIds] \subseteq [pc : {"read"}, session : SessionIds']
    BY <2>1
  <2> QED
    BY <2>2, <1>5 DEF SessionsInv
<1>9. OperationsWithinLimit'
  <2> SUFFICES ASSUME NEW i \in SessionIds', OperationLimit(pinSessions'[i].type) > 0
               PROVE  pinSessions'[i].operations <= OperationLimit(pinSessions'[i].type)
    BY DEF OperationsWithinLimit, OperationLimit
  <2>1. CASE i \in SessionIds
    BY <2>1, <1>3, <1>6 DEF SessionsInv, OperationsWithinLimit
  <2>2. CASE i = n + 1
    BY <2>2, <1>6, <1>10 DEF OperationLimit
  <2> QED
    BY <2>1, <2>2, <1>1, <1>6
<1> QED
  BY <1>5, <1>6, <1>7, <1>8, <1>9 DEF SessionsInv

LEMMA DecideKeepsSessions ==
    ASSUME SessionsInv, NEW a \in Authorizations, Decide(a)
    PROVE  SessionsInv'
<1> DEFINE s == authorization[a].session
           own == pinSessions[s]
           refused == [own EXCEPT !.active = FALSE]
           counted == [own EXCEPT !.operations = @ + 1,
                                  !.active = @ /\ OperationLimit(own.type) # 1]
<1>1. s \in SessionIds /\ own \in PinSession
  BY SessionIdsAre DEF Decide, SessionsInv, Idle
<1>2. pinSessions' = [pinSessions EXCEPT ![s] =
          IF pmTime > own.expires \/ UsedUp(s) THEN refused ELSE counted]
  BY DEF Decide
<1>3. refused \in PinSession /\ refused.type = own.type /\ refused.operations = own.operations
  BY <1>1, EndedRow
<1>4. counted \in PinSession /\ counted.type = own.type /\ counted.operations = own.operations + 1
  <2>1. (own.active /\ OperationLimit(own.type) # 1) \in BOOLEAN
    OBVIOUS
  <2>2. own.operations + 1 \in Nat
    BY <1>1 DEF PinSession
  <2> QED
    BY <2>1, <2>2, <1>1 DEF PinSession
<1>5. ~UsedUp(s) => OperationLimit(own.type) = 0 \/ own.operations + 1 <= OperationLimit(own.type)
  BY <1>1 DEF UsedUp, PinSession, OperationLimit
<1>6. /\ UNCHANGED <<pmTime, validation>>
      /\ authorization' \in [Authorizations -> {Idle} \cup [pc : {"read"}, session : SessionIds]]
  BY DEF Decide, SessionsInv
<1> HIDE DEF refused, counted
<1>7. /\ pinSessions' = [i \in SessionIds |-> pinSessions'[i]]
      /\ \A i \in SessionIds : i # s => pinSessions'[i] = pinSessions[i]
      /\ pinSessions'[s] \in {refused, counted} /\ (UsedUp(s) => pinSessions'[s] = refused)
  BY <1>1, <1>2 DEF SessionIds
<1> HIDE DEF s, own
<1>8. ASSUME NEW i \in SessionIds
      PROVE  /\ pinSessions'[i] \in PinSession
             /\ pinSessions'[i].type = pinSessions[i].type
             /\ \/ pinSessions'[i].operations = pinSessions[i].operations
                \/ OperationLimit(pinSessions[i].type) = 0
                \/ pinSessions'[i].operations <= OperationLimit(pinSessions[i].type)
  <2>1. CASE i # s
    BY <2>1, <1>7, SessionIdsAre
  <2>2. CASE i = s /\ pinSessions'[s] = refused
    BY <2>2, <1>3 DEF own
  <2>3. CASE i = s /\ pinSessions'[s] = counted
    <3>1. ~UsedUp(s) \/ refused = counted
      BY <2>3, <1>7
    <3> QED
      BY <3>1, <2>3, <1>3, <1>4, <1>5 DEF own
  <2> QED
    BY <2>1, <2>2, <2>3, <1>7
<1> QED
  BY <1>6, <1>7, <1>8, SessionsMoveOn DEF SessionsInv

LEMMA OldestIsNumber ==
    ASSUME SessionsInv PROVE OldestActive \in Nat
<1>1. ActiveSessions \in SUBSET Nat
  BY SessionIdsAre DEF ActiveSessions
<1>2. CASE ActiveSessions # {}
  <2>1. \E x \in ActiveSessions : \A y \in ActiveSessions : x <= y
    BY <1>1, <1>2, LeastElement
  <2> QED
    BY <2>1, <1>1, <1>2 DEF OldestActive, SmallestOf
<1> QED
  BY <1>2 DEF OldestActive

LEMMA SessionsAlways == PMSpec => []SessionsInv
<1> USE PINManagerAssumption
<1>1. PMInit => SessionsInv
  <2> SUFFICES ASSUME PMInit PROVE SessionsInv
    OBVIOUS
  <2>1. pinSessions = <<>> /\ SessionIds = {}
    BY DEF PMInit, SessionIds
  <2> QED
    BY <2>1 DEF PMInit, SessionsInv, OperationsWithinLimit, ValidationPlaces
<1>2. SessionsInv /\ [PMNext]_pmVars => SessionsInv'
  <2> SUFFICES ASSUME SessionsInv, [PMNext]_pmVars PROVE SessionsInv'
    OBVIOUS
  <2>1. ASSUME NEW v \in Validations, NEW t \in PinTypes, BeginValidation(v, t) PROVE SessionsInv'
    <3>1. validation' \in [Validations -> ValidationPlaces]
      BY <2>1 DEF BeginValidation, SessionsInv, ValidationPlaces
    <3> QED
      BY <2>1, <3>1, SessionsAlone DEF BeginValidation, SessionsInv
  <2>2. ASSUME NEW v \in Validations, PinNotFound(v) \/ WrongPin(v) PROVE SessionsInv'
    <3>1. validation' \in [Validations -> ValidationPlaces]
      BY <2>2 DEF PinNotFound, WrongPin, SessionsInv, ValidationPlaces
    <3> QED
      BY <2>2, <3>1, SessionsAlone DEF PinNotFound, WrongPin, SessionsInv
  <2>3. ASSUME NEW v \in Validations, RightPin(v) PROVE SessionsInv'
    <3>1. validation[v].type \in PinTypes
      BY <2>3 DEF RightPin, SessionsInv, ValidationPlaces, Idle
    <3>2. validation' \in [Validations -> ValidationPlaces]
      BY <2>3, <3>1 DEF RightPin, SessionsInv, ValidationPlaces
    <3> QED
      BY <2>3, <3>2, CleanedUpEnds DEF RightPin
  <2>4. ASSUME NEW v \in Validations, CountSessions(v) PROVE SessionsInv'
    <3>1. validation[v].type \in PinTypes
      BY <2>4 DEF CountSessions, SessionsInv, ValidationPlaces, Idle
    <3>2. validation' \in [Validations -> ValidationPlaces]
      BY <2>4, <3>1 DEF CountSessions, SessionsInv, ValidationPlaces
    <3> QED
      BY <2>4, <3>2, SessionsAlone DEF CountSessions, SessionsInv
  <2>5. ASSUME NEW v \in Validations, FindOldest(v) PROVE SessionsInv'
    <3>1. validation[v].type \in PinTypes
      BY <2>5 DEF FindOldest, SessionsInv, ValidationPlaces, Idle
    <3>2. validation' \in [Validations -> ValidationPlaces]
      BY <2>5, <3>1, OldestIsNumber DEF FindOldest, SessionsInv, ValidationPlaces
    <3> QED
      BY <2>5, <3>2, SessionsAlone DEF FindOldest, SessionsInv
  <2>6. ASSUME NEW v \in Validations, AddSession(v) PROVE SessionsInv'
    BY <2>6, AddKeepsSessions
  <2>7. ASSUME NEW a \in Authorizations, NEW s \in SessionIds, ReadSession(a, s) PROVE SessionsInv'
    BY <2>7, SessionsAlone DEF ReadSession, SessionsInv
  <2>8. ASSUME NEW a \in Authorizations, Decide(a) PROVE SessionsInv'
    BY <2>8, DecideKeepsSessions
  <2>9. ASSUME NEW a \in Authorizations, UserMismatch(a) PROVE SessionsInv'
    BY <2>9, SessionsAlone DEF UserMismatch, SessionsInv
  <2>10. ASSUME NEW s \in SessionIds, RevokeSession(s) PROVE SessionsInv'
    <3>1. \A i \in SessionIds : i # s => pinSessions'[i] = pinSessions[i]
      BY <2>10 DEF RevokeSession, SessionIds
    <3>2. pinSessions' = [pinSessions EXCEPT ![s] = [pinSessions[s] EXCEPT !.active = FALSE]]
      BY <2>10 DEF RevokeSession
    <3>3. pinSessions[s] \in PinSession /\ FALSE \in BOOLEAN
      BY SessionIdsAre
    <3>4. /\ pinSessions'[s] \in PinSession /\ pinSessions'[s].type = pinSessions[s].type
          /\ pinSessions'[s].operations = pinSessions[s].operations
          /\ pinSessions' = [i \in SessionIds |-> pinSessions'[i]]
      BY <3>2, <3>3, EndedRow DEF SessionIds
    <3>5. UNCHANGED <<pmTime, validation, authorization>>
      BY <2>10 DEF RevokeSession
    <3> QED
      BY <3>1, <3>4, <3>5, SessionIdsAre, SessionsMoveOn DEF SessionsInv
  <2>11. CASE RevokeAllUserSessions
    <3> DEFINE b == [i \in SessionIds |-> FALSE]
    <3>1. b \in [SessionIds -> BOOLEAN]
      OBVIOUS
    <3>2. pinSessions' = [i \in SessionIds |-> [pinSessions[i] EXCEPT !.active = b[i]]]
      BY <2>11 DEF RevokeAllUserSessions
    <3> QED
      BY <2>11, <3>1, <3>2, SessionsEnd DEF RevokeAllUserSessions, SessionsInv
  <2>12. CASE SystemStatus
    BY <2>12, CleanedUpEnds DEF SystemStatus, SessionsInv
  <2>13. CASE PMTick
    BY <2>13, SessionsAlone DEF PMTick, SessionsInv
  <2>14. CASE UNCHANGED pmVars
    BY <2>14, SessionsAlone DEF pmVars, SessionsInv
  <2> QED
    BY <2>1, <2>2, <2>3, <2>4, <2>5, <2>6, <2>7, <2>8, <2>9, <2>10, <2>11, <2>12, <2>13, <2>14
       DEF PMNext
<1> QED
  BY <1>1, <1>2, PTL DEF PMSpec

\* An emergency session authorizes one operation and an override session three, also
\* when authorizations overlap, sessions are revoked or cleaned up between the
\* query and the decision, or a validation makes room by ending the oldest.
THEOREM SessionsSpareTheirLimit == PMSpec => []OperationsWithinLimit
<1>1. SessionsInv => OperationsWithinLimit
  BY DEF SessionsInv
<1> QED
  BY <1>1, SessionsAlways, PTL

-----------------------------------------------------------------------------
(* The wrong PINs a lockout lets through.                                  *)

\* The validations that passed the lockout check and compare a PIN next.
Guessing(t) == {v \in Validations : validation[v].pc = "fetch" /\ validation[v].type = t}

Window == pmTime - LockoutDuration
GuessLimit == MaxFailedAttempts + Cardinality(Validations) - 1

\* The positions of the guesses that count together with the i-th.
Together(q, i) == {j \in DOMAIN q : q[j] <= q[i] /\ q[j] > q[i] - LockoutDuration}

\* Every guess is also a failure, no time is to come, and the last failure is the
\* latest; so who passes the check finds fewer recent guesses than the limit, and
\* each that has passed may add one.
GuessesInv ==
    /\ failures \in [PinTypes -> Seq(Int)]
    /\ guesses \in [PinTypes -> Seq(Int)]
    /\ \A t \in PinTypes :
         /\ LastIsLatest(failures[t]) /\ NoneAfter(failures[t], pmTime)
         /\ NoneAfter(guesses[t], pmTime)
         /\ \A x \in Int : HowMany(guesses[t], x) <= HowMany(failures[t], x)
         /\ HowMany(guesses[t], Window) + Cardinality(Guessing(t)) <= GuessLimit
    /\ GuessesBounded

LEMMA GuessingType ==
    ASSUME NEW t
    PROVE  /\ IsFiniteSet(Guessing(t)) /\ Cardinality(Guessing(t)) \in Nat
           /\ Cardinality(Validations) \in Nat
           /\ Cardinality(Guessing(t)) <= Cardinality(Validations)
<1>1. Guessing(t) \subseteq Validations /\ IsFiniteSet(Validations)
  BY PINManagerAssumption DEF Guessing
<1> QED
  BY <1>1, FS_Subset, FS_CardinalityType

LEMMA WindowType ==
    ASSUME SessionsInv
    PROVE  Window \in Int /\ GuessLimit \in Int /\ LockoutDuration \in Nat \ {0}
           /\ MaxFailedAttempts \in Nat \ {0} /\ pmTime \in Nat
<1>1. LockoutDuration \in Nat \ {0} /\ MaxFailedAttempts \in Nat \ {0}
  BY PINManagerAssumption
<1>2. Cardinality(Validations) \in Nat
  BY GuessingType
<1>3. pmTime \in Nat
  BY DEF SessionsInv
<1> QED
  BY <1>1, <1>2, <1>3 DEF Window, GuessLimit

\* A check that lets a validation through has seen too few guesses.
LEMMA CheckPassed ==
    ASSUME SessionsInv, GuessesInv, NEW t \in PinTypes, ~LockedOut(t)
    PROVE  HowMany(guesses[t], Window) < MaxFailedAttempts
<1>1. failures[t] \in Seq(Int) /\ Window \in Int
  BY WindowType DEF GuessesInv
<1>2. HowMany(failures[t], Window) = Cardinality(Recent(failures[t]))
  BY DEF HowMany, After, Recent, Window
<1>3. HowMany(guesses[t], Window) <= HowMany(failures[t], Window)
  BY <1>1 DEF GuessesInv
<1>4. HowMany(guesses[t], Window) \in Nat /\ HowMany(failures[t], Window) \in Nat
  BY <1>1, HowManyType DEF GuessesInv
<1>5. CASE After(failures[t], Window) = {}
  BY <1>3, <1>4, <1>5, FS_EmptySet, WindowType DEF HowMany
<1>6. CASE After(failures[t], Window) # {}
  <2>1. PICK i \in DOMAIN failures[t] : failures[t][i] > Window
    BY <1>6 DEF After
  <2>2. failures[t][i] <= failures[t][Len(failures[t])]
    BY DEF GuessesInv, LastIsLatest
  <2>3. failures[t][i] \in Int /\ failures[t][Len(failures[t])] \in Int
    BY <1>1
  <2>4. pmTime < failures[t][Len(failures[t])] + LockoutDuration
    BY <2>1, <2>2, <2>3, WindowType DEF Window
  <2>5. Cardinality(Recent(failures[t])) < MaxFailedAttempts
    BY <2>4, <1>2, <1>4, WindowType DEF LockedOut
  <2> QED
    BY <2>5, <1>2, <1>3, <1>4, WindowType
<1> QED
  BY <1>5, <1>6

\* One more failure, which is no guess, changes nothing.
LEMMA FailureKeeps ==
    ASSUME SessionsInv, GuessesInv, NEW type \in PinTypes, RecordFailure(type),
           UNCHANGED <<pmTime, guesses>>,
           \A t \in PinTypes : HowMany(guesses[t], Window) + Cardinality(Guessing(t)') <= GuessLimit
    PROVE  GuessesInv'
<1>1. pmTime \in Int
  BY WindowType
<1>2. failures' = [failures EXCEPT ![type] = Append(failures[type], pmTime)]
  BY DEF RecordFailure
<1>3. failures[type] \in Seq(Int) /\ Append(failures[type], pmTime) \in Seq(Int)
  BY <1>1 DEF GuessesInv
<1>4. failures' \in [PinTypes -> Seq(Int)]
  BY <1>2, <1>3 DEF GuessesInv
<1>5. ASSUME NEW t \in PinTypes
      PROVE  /\ LastIsLatest(failures'[t]) /\ NoneAfter(failures'[t], pmTime)
             /\ \A x \in Int : HowMany(guesses[t], x) <= HowMany(failures'[t], x)
  <2>1. CASE t = type
    <3>1. failures'[t] = Append(failures[t], pmTime) /\ failures[t] \in Seq(Int)
      BY <2>1, <1>2, <1>3 DEF GuessesInv
    <3>2. LastIsLatest(failures'[t]) /\ NoneAfter(failures'[t], pmTime)
      BY <3>1, <1>1, NowAppended DEF GuessesInv
    <3>3. ASSUME NEW x \in Int PROVE HowMany(guesses[t], x) <= HowMany(failures'[t], x)
      <4>1. HowMany(failures'[t], x) = HowMany(failures[t], x) + (IF pmTime > x THEN 1 ELSE 0)
        BY <3>1, <1>1, HowManyAppended
      <4>2. HowMany(failures[t], x) \in Nat /\ HowMany(guesses[t], x) \in Nat
        BY <1>4, HowManyType DEF GuessesInv
      <4>3. HowMany(guesses[t], x) <= HowMany(failures[t], x)
        BY DEF GuessesInv
      <4> QED
        BY <4>1, <4>2, <4>3
    <3> QED
      BY <3>2, <3>3
  <2>2. CASE t # type
    <3>1. failures'[t] = failures[t]
      BY <2>2, <1>2 DEF GuessesInv
    <3> QED
      BY <3>1 DEF GuessesInv
  <2> QED
    BY <2>1, <2>2
<1>6. GuessesBounded' /\ Window' = Window /\ GuessLimit' = GuessLimit
  BY DEF GuessesInv, GuessesBounded, Window, GuessLimit
<1> QED
  BY <1>4, <1>5, <1>6 DEF GuessesInv

\* A guess is added by a validation that the check had let through.
LEMMA GuessKeeps ==
    ASSUME SessionsInv, GuessesInv, NEW v \in Validations, WrongPin(v)
    PROVE  GuessesInv'
<1>0. PICK type \in PinTypes : type = validation[v].type
  BY DEF WrongPin, SessionsInv, ValidationPlaces, Idle
<1>1. type \in PinTypes /\ pmTime \in Int /\ UNCHANGED pmTime
  BY WindowType DEF WrongPin
<1>2. /\ failures' = [failures EXCEPT ![type] = Append(failures[type], pmTime)]
      /\ guesses' = [guesses EXCEPT ![type] = Append(guesses[type], pmTime)]
      /\ validation' = [validation EXCEPT ![v] = Idle]
      /\ v \in Guessing(type)
  BY <1>0 DEF WrongPin, RecordFailure, Guessing
<1>3. failures[type] \in Seq(Int) /\ guesses[type] \in Seq(Int)
  BY <1>1 DEF GuessesInv
<1>4. failures' \in [PinTypes -> Seq(Int)] /\ guesses' \in [PinTypes -> Seq(Int)]
  <2>1. Append(failures[type], pmTime) \in Seq(Int) /\ Append(guesses[type], pmTime) \in Seq(Int)
    BY <1>1, <1>3
  <2> QED
    BY <2>1, <1>2 DEF GuessesInv
<1>5. Window' = Window /\ GuessLimit' = GuessLimit /\ Window \in Int /\ pmTime > Window
      /\ GuessLimit \in Int
  BY <1>1, WindowType DEF Window, GuessLimit
<1>6. ASSUME NEW t \in PinTypes, t # type
      PROVE  /\ LastIsLatest(failures'[t]) /\ NoneAfter(failures'[t], pmTime)
             /\ NoneAfter(guesses'[t], pmTime)
             /\ \A x \in Int : HowMany(guesses'[t], x) <= HowMany(failures'[t], x)
             /\ HowMany(guesses'[t], Window') + Cardinality(Guessing(t)') <= GuessLimit'
             /\ \A i \in DOMAIN guesses'[t] : Cardinality(Together(guesses'[t], i)) <= GuessLimit'
  <2>1. failures'[t] = failures[t] /\ guesses'[t] = guesses[t]
    BY <1>2, <1>6
  <2>2. Guessing(t)' = Guessing(t)
    <3>1. validation' = [validation EXCEPT ![v] = Idle] /\ validation[v].type # t
      BY <1>0, <1>2, <1>6
    <3>2. Idle.pc # "fetch"
      BY DEF Idle
    <3> QED
      BY <3>1, <3>2 DEF Guessing, SessionsInv
  <2> QED
    BY <2>1, <2>2, <1>1, <1>5 DEF GuessesInv, GuessesBounded, Together, GuessLimit
<1>7. /\ LastIsLatest(failures'[type]) /\ NoneAfter(failures'[type], pmTime)
      /\ NoneAfter(guesses'[type], pmTime)
  <2>1. failures'[type] = Append(failures[type], pmTime) /\ guesses'[type] = Append(guesses[type], pmTime)
    BY <1>1, <1>2 DEF GuessesInv
  <2>2. NoneAfter(failures[type], pmTime) /\ NoneAfter(guesses[type], pmTime)
    BY <1>1 DEF GuessesInv
  <2> QED
    BY <2>1, <2>2, <1>1, <1>3, NowAppended
<1> DEFINE q == guesses[type]
           n == Len(q)
<1>8. /\ guesses'[type] = Append(q, pmTime) /\ q \in Seq(Int) /\ n \in Nat
      /\ DOMAIN guesses'[type] = 1..(n + 1) /\ DOMAIN q = 1..n
      /\ guesses'[type][n + 1] = pmTime
      /\ \A i \in 1..n : guesses'[type][i] = q[i] /\ q[i] \in Int /\ q[i] <= pmTime
  <2>1. guesses'[type] = Append(q, pmTime)
    BY <1>1, <1>2 DEF GuessesInv
  <2>2. \A i \in 1..n : q[i] \in Int /\ q[i] <= pmTime
    BY <1>1, <1>3 DEF GuessesInv, NoneAfter
  <2> QED
    BY <2>1, <2>2, <1>1, <1>3, AppendProperties
<1>9. ASSUME NEW x \in Int
      PROVE  HowMany(guesses'[type], x) <= HowMany(failures'[type], x)
  <2>1. HowMany(q, x) <= HowMany(failures[type], x)
    BY <1>1, <1>9 DEF GuessesInv
  <2>2. /\ HowMany(guesses'[type], x) = HowMany(q, x) + (IF pmTime > x THEN 1 ELSE 0)
        /\ HowMany(failures'[type], x) = HowMany(failures[type], x) + (IF pmTime > x THEN 1 ELSE 0)
    <3>1. failures'[type] = Append(failures[type], pmTime)
      BY <1>1, <1>2 DEF GuessesInv
    <3> QED
      BY <3>1, <1>1, <1>3, <1>8, <1>9, HowManyAppended
  <2>3. HowMany(q, x) \in Nat /\ HowMany(failures[type], x) \in Nat
    BY <1>3, <1>8, <1>9, HowManyType
  <2> QED
    BY <2>1, <2>2, <2>3
<1>15. Guessing(type)' = Guessing(type) \ {v}
  <2>1. /\ validation'[v] = Idle
        /\ \A w \in Validations : w # v => validation'[w] = validation[w]
    BY <1>2 DEF SessionsInv
  <2>2. validation'[v].pc # "fetch"
    BY <2>1 DEF Idle
  <2> QED
    BY <2>1, <2>2 DEF Guessing
<1>10. HowMany(guesses'[type], Window) + Cardinality(Guessing(type)') <= GuessLimit
  <2>1. HowMany(guesses'[type], Window) = HowMany(q, Window) + 1
    BY <1>1, <1>5, <1>8, HowManyAppended
  <2>2. Guessing(type)' = Guessing(type) \ {v}
    BY <1>15
  <2>3. Cardinality(Guessing(type) \ {v}) = Cardinality(Guessing(type)) - 1
    BY <1>2, GuessingType, FS_RemoveElement
  <2>4. HowMany(q, Window) \in Nat /\ Cardinality(Guessing(type)) \in Nat
    BY <1>5, <1>8, GuessingType, HowManyType
  <2>5. HowMany(q, Window) + Cardinality(Guessing(type)) <= GuessLimit
    BY <1>1 DEF GuessesInv
  <2> QED
    BY <2>1, <2>2, <2>3, <2>4, <2>5, <1>5
<1>11. ASSUME NEW i \in DOMAIN guesses'[type]
       PROVE  Cardinality(Together(guesses'[type], i)) <= GuessLimit
  <2>1. CASE guesses'[type][i] = pmTime
    <3>1. guesses'[type] \in Seq(Int)
      BY <1>1, <1>4
    <3>2. Together(guesses'[type], i) \subseteq After(guesses'[type], Window)
      BY <2>1 DEF Together, After, Window
    <3>3. /\ Cardinality(Together(guesses'[type], i)) <= HowMany(guesses'[type], Window)
          /\ Cardinality(Together(guesses'[type], i)) \in Nat
      BY <3>1, <3>2, <1>5, HowManyOf
    <3>4. Cardinality(Guessing(type)') \in Nat /\ HowMany(guesses'[type], Window) \in Nat
      <4>1. Guessing(type)' \subseteq Guessing(type)
        BY <1>15
      <4> QED
        BY <4>1, <3>1, <1>5, GuessingType, FS_Subset, FS_CardinalityType, HowManyType
    <3> QED
      BY <3>3, <3>4, <1>5, <1>10
  <2>2. CASE guesses'[type][i] # pmTime
    <3>1. i \in 1..n
      BY <2>2, <1>8, <1>11
    <3>2. guesses'[type][i] = q[i] /\ q[i] < pmTime
      BY <2>2, <3>1, <1>1, <1>8
    <3>3. Together(guesses'[type], i) = Together(q, i)
      BY <3>1, <3>2, <1>1, <1>8 DEF Together
    <3>4. Cardinality(Together(q, i)) <= GuessLimit
      BY <3>1, <1>1, <1>8 DEF GuessesInv, GuessesBounded, Together, GuessLimit
    <3> QED
      BY <3>3, <3>4
  <2> QED
    BY <2>1, <2>2
<1> HIDE DEF q, n
<1>12. GuessesBounded'
  <2> SUFFICES ASSUME NEW t \in PinTypes, NEW i \in DOMAIN guesses'[t]
               PROVE  Cardinality(Together(guesses'[t], i)) <= GuessLimit
    BY DEF GuessesBounded, Together, GuessLimit
  <2>1. CASE t = type
    BY <2>1, <1>11
  <2>2. CASE t # type
    BY <2>2, <1>5, <1>6
  <2> QED
    BY <2>1, <2>2
<1>14. \A t \in PinTypes :
         /\ LastIsLatest(failures'[t]) /\ NoneAfter(failures'[t], pmTime)
         /\ NoneAfter(guesses'[t], pmTime)
         /\ \A x \in Int : HowMany(guesses'[t], x) <= HowMany(failures'[t], x)
         /\ HowMany(guesses'[t], Window) + Cardinality(Guessing(t)') <= GuessLimit
  <2> TAKE t \in PinTypes
  <2>1. CASE t # type
    BY <2>1, <1>5, <1>6
  <2>2. CASE t = type
    <3>1. \A x \in Int : HowMany(guesses'[type], x) <= HowMany(failures'[type], x)
      BY <1>9
    <3>2. Guessing(t)' = Guessing(type)'
      BY <2>2 DEF Guessing
    <3>3. HowMany(guesses'[t], Window) + Cardinality(Guessing(t)') <= GuessLimit
      BY <2>2, <3>2, <1>10
    <3> QED
      BY <2>2, <3>1, <3>3, <1>7
  <2> QED
    BY <2>1, <2>2
<1> QED
  BY <1>1, <1>4, <1>5, <1>12, <1>14 DEF GuessesInv

\* A step of the validations that does not begin one, fail or guess.
LEMMA FewerGuessing ==
    ASSUME SessionsInv, GuessesInv, UNCHANGED <<failures, guesses>>,
           pmTime' \in Nat, pmTime' >= pmTime,
           \A t \in PinTypes : Guessing(t)' \subseteq Guessing(t)
    PROVE  GuessesInv'
<1>1. Window \in Int /\ Window' \in Int /\ Window <= Window' /\ GuessLimit' = GuessLimit
      /\ GuessLimit \in Int
  BY WindowType DEF Window, GuessLimit
<1>2. ASSUME NEW t \in PinTypes
      PROVE  HowMany(guesses[t], Window') + Cardinality(Guessing(t)') <= GuessLimit
  <2>1. HowMany(guesses[t], Window') <= HowMany(guesses[t], Window)
        /\ HowMany(guesses[t], Window') \in Nat /\ HowMany(guesses[t], Window) \in Nat
    BY <1>1, HowManyFewer, HowManyType DEF GuessesInv
  <2>2. /\ Cardinality(Guessing(t)') <= Cardinality(Guessing(t))
        /\ Cardinality(Guessing(t)') \in Nat /\ Cardinality(Guessing(t)) \in Nat
    BY GuessingType, FS_Subset, FS_CardinalityType
  <2>3. HowMany(guesses[t], Window) + Cardinality(Guessing(t)) <= GuessLimit
    BY DEF GuessesInv
  <2> QED
    BY <2>1, <2>2, <2>3, <1>1
<1>3. \A t \in PinTypes : NoneAfter(failures[t], pmTime') /\ NoneAfter(guesses[t], pmTime')
  <2> TAKE t \in PinTypes
  <2>1. failures[t] \in Seq(Int) /\ guesses[t] \in Seq(Int) /\ pmTime \in Int
    BY WindowType DEF GuessesInv
  <2> QED
    BY <2>1, NoneAfterLater DEF GuessesInv
<1>4. GuessesBounded'
  BY DEF GuessesInv, GuessesBounded
<1> QED
  BY <1>1, <1>2, <1>3, <1>4 DEF GuessesInv

LEMMA BeginKeepsGuesses ==
    ASSUME SessionsInv, GuessesInv, NEW v \in Validations, NEW type \in PinTypes,
           BeginValidation(v, type)
    PROVE  GuessesInv'
<1>1. CASE LockedOut(type)
  <2>1. RecordFailure(type) /\ UNCHANGED <<validation, pmTime, guesses>>
    BY <1>1 DEF BeginValidation
  <2>2. \A t \in PinTypes : Guessing(t)' = Guessing(t)
    BY <2>1 DEF Guessing
  <2> QED
    BY <2>1, <2>2, FailureKeeps DEF GuessesInv
<1>2. CASE ~LockedOut(type)
  <2>1. /\ UNCHANGED <<failures, pmTime, guesses>>
        /\ validation' = [validation EXCEPT ![v] = [pc |-> "fetch", type |-> type]]
    BY <1>2 DEF BeginValidation
  <2>2. \A t \in PinTypes \ {type} : Guessing(t)' \subseteq Guessing(t)
    BY <2>1 DEF Guessing, SessionsInv
  <2>3. Window' = Window /\ GuessLimit' = GuessLimit /\ GuessLimit \in Int /\ Window \in Int
    BY <2>1, WindowType DEF Window, GuessLimit
  <2>4. ASSUME NEW t \in PinTypes
        PROVE  HowMany(guesses[t], Window) + Cardinality(Guessing(t)') <= GuessLimit
    <3>0. HowMany(guesses[t], Window) \in Nat /\ Cardinality(Guessing(t)) \in Nat
      BY <2>3, HowManyType, GuessingType DEF GuessesInv
    <3>1. CASE t = type
      <4>1. HowMany(guesses[t], Window) < MaxFailedAttempts
        BY <3>1, <1>2, CheckPassed
      <4>2. Guessing(t)' \subseteq Validations /\ IsFiniteSet(Validations)
        BY PINManagerAssumption DEF Guessing
      <4>3. Cardinality(Guessing(t)') <= Cardinality(Validations)
            /\ Cardinality(Guessing(t)') \in Nat /\ Cardinality(Validations) \in Nat
        BY <4>2, FS_Subset, FS_CardinalityType
      <4> QED
        BY <4>1, <4>3, <3>0, WindowType DEF GuessLimit
    <3>2. CASE t # type
      <4>1. Cardinality(Guessing(t)') <= Cardinality(Guessing(t))
            /\ Cardinality(Guessing(t)') \in Nat
        BY <3>2, <2>2, GuessingType, FS_Subset, FS_CardinalityType
      <4>2. HowMany(guesses[t], Window) + Cardinality(Guessing(t)) <= GuessLimit
        BY DEF GuessesInv
      <4> QED
        BY <4>1, <4>2, <3>0, <2>3
    <3> QED
      BY <3>1, <3>2
  <2> QED
    BY <2>1, <2>3, <2>4 DEF GuessesInv, GuessesBounded
<1> QED
  BY <1>1, <1>2

\* However validations overlap, the wrong PINs within one lockout are no more than
\* the limit and one for each other validation that passed the check before.
THEOREM LockoutBoundsGuesses == PMSpec => []GuessesBounded
<1>1. PMInit => GuessesInv
  <2> SUFFICES ASSUME PMInit PROVE GuessesInv
    OBVIOUS
  <2>1. /\ \A t \in PinTypes : failures[t] = <<>> /\ guesses[t] = <<>> /\ Guessing(t) = {}
        /\ failures \in [PinTypes -> Seq(Int)] /\ guesses \in [PinTypes -> Seq(Int)]
        /\ pmTime = 0
    BY DEF PMInit, Guessing, Idle
  <2>2. \A x : After(<<>>, x) = {}
    BY DEF After
  <2>3. \A x : HowMany(<<>>, x) = 0
    BY <2>2, FS_EmptySet DEF HowMany
  <2>4. GuessLimit \in Nat
    BY GuessingType, PINManagerAssumption DEF GuessLimit
  <2>5. Cardinality({}) = 0
    BY FS_EmptySet
  <2>6. GuessesBounded
    BY <2>1 DEF GuessesBounded
  <2>7. ASSUME NEW t \in PinTypes
        PROVE  /\ LastIsLatest(failures[t]) /\ NoneAfter(failures[t], pmTime)
               /\ NoneAfter(guesses[t], pmTime)
               /\ \A x \in Int : HowMany(guesses[t], x) <= HowMany(failures[t], x)
               /\ HowMany(guesses[t], Window) + Cardinality(Guessing(t)) <= GuessLimit
    <3>1. failures[t] = <<>> /\ guesses[t] = <<>> /\ Guessing(t) = {}
      BY <2>1
    <3>2. HowMany(guesses[t], Window) = 0 /\ Cardinality(Guessing(t)) = 0
      BY <3>1, <2>3, <2>5
    <3>3. \A x \in Int : HowMany(guesses[t], x) <= HowMany(failures[t], x)
      BY <3>1, <2>3
    <3>4. LastIsLatest(<<>>) /\ NoneAfter(<<>>, pmTime)
      BY DEF LastIsLatest, NoneAfter
    <3> QED
      BY <3>1, <3>2, <3>3, <3>4, <2>4
  <2> QED
    BY <2>1, <2>6, <2>7 DEF GuessesInv
<1>2. SessionsInv /\ GuessesInv /\ [PMNext]_pmVars => GuessesInv'
  <2> SUFFICES ASSUME SessionsInv, GuessesInv, [PMNext]_pmVars PROVE GuessesInv'
    OBVIOUS
  <2>0. pmTime \in Nat
    BY WindowType
  <2>1. ASSUME NEW v \in Validations, NEW t \in PinTypes, BeginValidation(v, t) PROVE GuessesInv'
    BY <2>1, BeginKeepsGuesses
  <2>2. ASSUME NEW v \in Validations, PinNotFound(v) PROVE GuessesInv'
    <3>1. validation[v].type \in PinTypes
      BY <2>2 DEF PinNotFound, SessionsInv, ValidationPlaces, Idle
    <3>2. /\ RecordFailure(validation[v].type) /\ UNCHANGED <<pmTime, guesses>>
          /\ \A t \in PinTypes : Guessing(t)' \subseteq Guessing(t)
      BY <2>2 DEF PinNotFound, Guessing, Idle, SessionsInv
    <3>3. ASSUME NEW t \in PinTypes
          PROVE  HowMany(guesses[t], Window) + Cardinality(Guessing(t)') <= GuessLimit
      <4>1. Cardinality(Guessing(t)') <= Cardinality(Guessing(t))
            /\ Cardinality(Guessing(t)') \in Nat /\ Cardinality(Guessing(t)) \in Nat
        BY <3>2, GuessingType, FS_Subset, FS_CardinalityType
      <4>2. HowMany(guesses[t], Window) \in Nat
        BY WindowType, HowManyType DEF GuessesInv
      <4> QED
        BY <4>1, <4>2, WindowType DEF GuessesInv
    <3> QED
      BY <3>1, <3>2, <3>3, FailureKeeps
  <2>3. ASSUME NEW v \in Validations, WrongPin(v) PROVE GuessesInv'
    BY <2>3, GuessKeeps
  <2>4. ASSUME NEW v \in Validations, RightPin(v) \/ CountSessions(v) \/ FindOldest(v) \/ AddSession(v)
        PROVE  GuessesInv'
    <3>1. /\ UNCHANGED <<failures, guesses, pmTime>>
          /\ \A t \in PinTypes : Guessing(t)' \subseteq Guessing(t)
      BY <2>4 DEF RightPin, CountSessions, FindOldest, AddSession, Guessing, Idle, SessionsInv
    <3> QED
      BY <3>1, <2>0, FewerGuessing
  <2>5. ASSUME UNCHANGED <<failures, guesses, validation>>, pmTime' \in {pmTime, pmTime + 1}
        PROVE  GuessesInv'
    <3>1. \A t \in PinTypes : Guessing(t)' = Guessing(t)
      BY <2>5 DEF Guessing
    <3> QED
      BY <3>1, <2>5, <2>0, FewerGuessing
  <2>6. ASSUME NEW a \in Authorizations,
               (\E s \in SessionIds : ReadSession(a, s)) \/ Decide(a) \/ UserMismatch(a)
        PROVE  GuessesInv'
    BY <2>6, <2>5 DEF ReadSession, Decide, UserMismatch
  <2>7. CASE (\E s \in SessionIds : RevokeSession(s)) \/ RevokeAllUserSessions \/ SystemStatus
    BY <2>7, <2>5 DEF RevokeSession, RevokeAllUserSessions, SystemStatus
  <2>8. CASE PMTick
    BY <2>8, <2>5 DEF PMTick
  <2>9. CASE UNCHANGED pmVars
    BY <2>9, <2>5 DEF pmVars
  <2> QED
    BY <2>1, <2>2, <2>3, <2>4, <2>6, <2>7, <2>8, <2>9 DEF PMNext
<1>3. GuessesInv => GuessesBounded
  BY DEF GuessesInv
<1> QED
  BY <1>1, <1>2, <1>3, SessionsAlways, PTL DEF PMSpec

-----------------------------------------------------------------------------
(* The wrong passwords an account's lockout lets through.                  *)

LoginWindow == loginTime - BaseLockout
WrongPasswordLimit == MaxFailedLogins + Cardinality(Logins) - 1

\* The guesses that count together with the i-th.
TogetherWith(q, i) == {j \in 1..i : q[j] > q[i] - BaseLockout}

\* All but databaseFailures of the guesses are stored, the last failure is the
\* latest; each login that passed the check may add one guess.
LoginsInv ==
    /\ loginTime \in Nat /\ databaseFailures \in Nat /\ checked \subseteq Logins
    /\ failedLogins \in Seq(Int) /\ guessTimes \in Seq(Int)
    /\ Len(failedLogins) <= Len(guessTimes) /\ Len(guessTimes) <= MaxGuesses
    /\ LastIsLatest(failedLogins)
    /\ NoneAfter(failedLogins, loginTime) /\ NoneAfter(guessTimes, loginTime)
    /\ \A x \in Int : HowMany(guessTimes, x) <= HowMany(failedLogins, x) + databaseFailures
    /\ HowMany(guessTimes, LoginWindow) + Cardinality(checked)
         <= WrongPasswordLimit + databaseFailures
    /\ WrongPasswordsBounded

LEMMA LockoutConstants ==
    /\ MaxFailedLogins \in Nat \ {0} /\ BaseLockout \in Nat \ {0}
    /\ EscalationFactor \in Nat \ {0} /\ MaxGuesses \in Nat
    /\ LongestLockout \in Nat /\ BaseLockout <= LongestLockout
    /\ IsFiniteSet(Logins) /\ Cardinality(Logins) \in Nat /\ WrongPasswordLimit \in Nat
<1>1. /\ MaxFailedLogins \in Nat \ {0} /\ BaseLockout \in Nat \ {0}
      /\ EscalationFactor \in Nat \ {0} /\ MaxGuesses \in Nat
      /\ LongestLockout \in Nat /\ BaseLockout <= LongestLockout /\ IsFiniteSet(Logins)
  BY AccountLockoutAssumption
<1>2. Cardinality(Logins) \in Nat
  BY <1>1, FS_CardinalityType
<1> QED
  BY <1>1, <1>2 DEF WrongPasswordLimit

\* Escalation never makes a lockout shorter.
LEMMA EscalationGrows == \A level \in 0..MaxGuesses : Escalation[level] \in Nat \ {0}
<1> DEFINE T == Nat \ {0}
           g == [p \in (1..MaxGuesses) \X T |-> EscalationFactor * p[2]]
           Is(f) == f = [level \in 0..MaxGuesses |->
                           IF level = 0 THEN 1 ELSE EscalationFactor * f[level - 1]]
<1>1. MaxGuesses \in Nat /\ EscalationFactor \in Nat \ {0}
  BY LockoutConstants
<1>2. \A a, b \in Nat \ {0} : a * b \in Nat \ {0}
  OBVIOUS
<1>3. g \in Steps(MaxGuesses, T) /\ 1 \in T
  BY <1>1, <1>2 DEF Steps
<1>4. PICK f \in [0..MaxGuesses -> T] : f[0] = 1 /\ \A i \in 1..MaxGuesses : f[i] = g[<<i, f[i - 1]>>]
  <2>1. Recursion(MaxGuesses, T, 1, g) # {}
    <3> HIDE DEF g, T
    <3> QED
      BY <1>1, <1>3, RecursionExists
  <2> QED
    BY <2>1 DEF Recursion
<1>5. \A i \in 1..MaxGuesses : f[i] = EscalationFactor * f[i - 1]
  <2> TAKE i \in 1..MaxGuesses
  <2>1. i - 1 \in 0..MaxGuesses
    BY <1>1
  <2>2. <<i, f[i - 1]>> \in (1..MaxGuesses) \X T
    BY <2>1, <1>4
  <2> QED
    BY <2>2, <1>4
<1>6. Is(f)
  BY <1>1, <1>4, <1>5
<1>7. Is(CHOOSE h : Is(h))
  <2> HIDE DEF Is
  <2> QED
    BY <1>6
<1>8. Is(Escalation)
  BY <1>7 DEF Escalation
<1> DEFINE Bad == {i \in 0..MaxGuesses : Escalation[i] \notin T}
<1> SUFFICES ASSUME Bad # {} PROVE FALSE
  OBVIOUS
<1>9. PICK i \in Bad : \A j \in Bad : i <= j
  <2>1. Bad \in SUBSET Nat
    OBVIOUS
  <2> HIDE DEF Bad
  <2> QED
    BY <2>1, LeastElement
<1>10. CASE i = 0
  BY <1>8, <1>9, <1>10
<1>11. CASE i # 0
  <2>1. i - 1 \in 0..MaxGuesses /\ ~(i <= i - 1) /\ i \in 0..MaxGuesses
    BY <1>1, <1>9, <1>11
  <2>2. Escalation[i - 1] \in T
    BY <1>9, <2>1
  <2>3. Escalation[i] = EscalationFactor * Escalation[i - 1]
    BY <1>8, <1>11, <2>1
  <2> QED
    BY <2>2, <2>3, <1>1, <1>2, <1>9
<1> QED
  BY <1>10, <1>11

LEMMA LockoutNotShorter ==
    ASSUME LoginsInv
    PROVE  LockoutDurationNow \in Nat /\ LockoutDurationNow >= BaseLockout
<1>1. Cardinality(RecentLogins) \in Nat /\ Cardinality(RecentLogins) <= Len(failedLogins)
  <2>1. RecentLogins \subseteq 1..Len(failedLogins) /\ Len(failedLogins) \in Nat
    BY DEF RecentLogins, LoginsInv
  <2>2. IsFiniteSet(1..Len(failedLogins)) /\ Cardinality(1..Len(failedLogins)) = Len(failedLogins)
    BY <2>1, FS_Interval
  <2> QED
    BY <2>1, <2>2, FS_Subset, FS_CardinalityType
<1>2. EscalationLevel \in 0..MaxGuesses
  <2>0. Len(failedLogins) \in Nat /\ Len(guessTimes) \in Nat
    BY DEF LoginsInv
  <2>1. Cardinality(RecentLogins) <= MaxGuesses
    BY <2>0, <1>1, LockoutConstants DEF LoginsInv
  <2>2. \A c \in Nat, m \in Nat \ {0} : c \div m \in Nat /\ c \div m <= c
    BY Z3
  <2>3. Cardinality(RecentLogins) \div MaxFailedLogins \in Nat
        /\ Cardinality(RecentLogins) \div MaxFailedLogins <= Cardinality(RecentLogins)
    BY <1>1, <2>2, LockoutConstants
  <2> QED
    BY <2>1, <2>3, <1>1, LockoutConstants DEF EscalationLevel
<1>3. Escalation[EscalationLevel] \in Nat \ {0}
  BY <1>2, EscalationGrows
<1>4. \A a, b \in Nat \ {0} : a * b \in Nat /\ a * b >= a
  OBVIOUS
<1>5. BaseLockout * Escalation[EscalationLevel] \in Nat
      /\ BaseLockout * Escalation[EscalationLevel] >= BaseLockout
  BY <1>3, <1>4, LockoutConstants
<1> QED
  BY <1>5, LockoutConstants DEF LockoutDurationNow

\* A check that lets a login through has seen too few stored failures.
LEMMA CheckSawFew ==
    ASSUME LoginsInv, ~AccountLocked
    PROVE  HowMany(failedLogins, LoginWindow) < MaxFailedLogins
<1>1. failedLogins \in Seq(Int) /\ LoginWindow \in Int /\ loginTime \in Nat
  BY LockoutConstants DEF LoginsInv, LoginWindow
<1>2. \A i \in DOMAIN failedLogins : failedLogins[i] \in Int
  BY <1>1
<1>3. CASE After(failedLogins, LoginWindow) = {}
  BY <1>3, FS_EmptySet, LockoutConstants DEF HowMany
<1>4. CASE After(failedLogins, LoginWindow) # {}
  <2>1. PICK i \in DOMAIN failedLogins : failedLogins[i] > LoginWindow
    BY <1>4 DEF After
  <2>2. failedLogins[Len(failedLogins)] > LoginWindow
        /\ failedLogins[Len(failedLogins)] \in Int
    <3>1. failedLogins[i] <= failedLogins[Len(failedLogins)] /\ Len(failedLogins) \in DOMAIN failedLogins
      BY <1>1 DEF LoginsInv, LastIsLatest
    <3> QED
      BY <2>1, <3>1, <1>1, <1>2
  <2>3. loginTime < failedLogins[Len(failedLogins)] + LockoutDurationNow
    BY <2>2, <1>1, LockoutNotShorter, LockoutConstants DEF LoginWindow
  <2>4. ~(Cardinality(RecentLogins) >= MaxFailedLogins)
    BY <2>3 DEF AccountLocked
  <2>5. After(failedLogins, LoginWindow) \subseteq RecentLogins
    BY <1>1, <1>2, LockoutConstants DEF After, LoginWindow, RecentLogins
  <2>6. IsFiniteSet(RecentLogins) /\ Cardinality(RecentLogins) \in Nat
    BY <1>1, PositionsFinite DEF RecentLogins
  <2>7. Cardinality(After(failedLogins, LoginWindow)) <= Cardinality(RecentLogins)
        /\ Cardinality(After(failedLogins, LoginWindow)) \in Nat
    BY <2>5, <2>6, FS_Subset, FS_CardinalityType
  <2> QED
    BY <2>4, <2>6, <2>7, LockoutConstants DEF HowMany
<1> QED
  BY <1>3, <1>4

LEMMA CheckedType ==
    ASSUME LoginsInv
    PROVE  /\ IsFiniteSet(checked) /\ Cardinality(checked) \in Nat
           /\ loginTime \in Nat /\ LoginWindow \in Int /\ databaseFailures \in Nat
           /\ HowMany(guessTimes, LoginWindow) \in Nat
           /\ HowMany(failedLogins, LoginWindow) \in Nat
           /\ Len(guessTimes) \in Nat /\ Len(failedLogins) \in Nat
<1>1. IsFiniteSet(checked)
  BY FS_Subset, LockoutConstants DEF LoginsInv
<1>2. loginTime \in Nat /\ LoginWindow \in Int /\ databaseFailures \in Nat
  BY LockoutConstants DEF LoginsInv, LoginWindow
<1>3. guessTimes \in Seq(Int) /\ failedLogins \in Seq(Int)
  BY DEF LoginsInv
<1>4. HowMany(guessTimes, LoginWindow) \in Nat /\ HowMany(failedLogins, LoginWindow) \in Nat
  BY <1>2, <1>3, HowManyType
<1>5. Cardinality(checked) \in Nat
  BY <1>1, FS_CardinalityType
<1>6. Len(guessTimes) \in Nat /\ Len(failedLogins) \in Nat
  BY <1>3
<1> QED
  BY <1>1, <1>2, <1>4, <1>5, <1>6

LEMMA CheckKeepsLogins ==
    ASSUME LoginsInv, NEW l \in Logins, CheckLockout(l)
    PROVE  LoginsInv'
<1>1. /\ UNCHANGED <<loginTime, failedLogins, guessTimes>> /\ checked' = checked \cup {l}
      /\ l \notin checked
  BY DEF CheckLockout
<1>2. checked' \subseteq Logins
  BY <1>1 DEF LoginsInv
<1>3. LoginWindow' = LoginWindow /\ WrongPasswordLimit' = WrongPasswordLimit
  BY <1>1 DEF LoginWindow, WrongPasswordLimit
<1>4. databaseFailures' \in Nat /\ databaseFailures <= databaseFailures'
      /\ databaseFailures' <= databaseFailures + 1
  BY CheckedType DEF CheckLockout, DatabaseFails
<1>5. /\ Cardinality(checked') \in Nat /\ Cardinality(checked') <= Cardinality(Logins)
      /\ Cardinality(checked') = Cardinality(checked) + 1
  BY <1>1, <1>2, CheckedType, LockoutConstants, FS_Subset, FS_CardinalityType, FS_AddElement
<1>6. HowMany(guessTimes, LoginWindow) + Cardinality(checked')
        <= WrongPasswordLimit + databaseFailures'
  <2>1. CASE ~AccountLocked
    <3>1. HowMany(failedLogins, LoginWindow) < MaxFailedLogins
      BY <2>1, CheckSawFew
    <3>2. HowMany(guessTimes, LoginWindow)
            <= HowMany(failedLogins, LoginWindow) + databaseFailures
      BY CheckedType DEF LoginsInv
    <3> QED
      <4>1. /\ HowMany(failedLogins, LoginWindow) \in Nat /\ HowMany(guessTimes, LoginWindow) \in Nat
            /\ databaseFailures \in Nat
        BY CheckedType
      <4>2. MaxFailedLogins \in Nat /\ Cardinality(Logins) \in Nat
        BY LockoutConstants
      <4> QED
        BY <3>1, <3>2, <4>1, <4>2, <1>4, <1>5 DEF WrongPasswordLimit
  <2>2. CASE DatabaseFails
    <3>1. databaseFailures' = databaseFailures + 1
      BY <2>2 DEF DatabaseFails
    <3>2. HowMany(guessTimes, LoginWindow) + Cardinality(checked)
            <= WrongPasswordLimit + databaseFailures
      BY DEF LoginsInv
    <3> QED
      BY <3>1, <3>2, <1>5, CheckedType, LockoutConstants
  <2> QED
    BY <2>1, <2>2 DEF CheckLockout
<1>7. \A x \in Int : HowMany(guessTimes, x) <= HowMany(failedLogins, x) + databaseFailures'
  <2> TAKE x \in Int
  <2>1. HowMany(guessTimes, x) \in Nat /\ HowMany(failedLogins, x) \in Nat
    BY HowManyType DEF LoginsInv
  <2>2. HowMany(guessTimes, x) <= HowMany(failedLogins, x) + databaseFailures
    BY DEF LoginsInv
  <2> QED
    BY <2>1, <2>2, <1>4, CheckedType
<1>8. WrongPasswordsBounded'
  <2> SUFFICES ASSUME NEW i \in DOMAIN guessTimes
               PROVE  Cardinality(TogetherWith(guessTimes, i)) <= WrongPasswordLimit + databaseFailures'
    BY <1>1 DEF WrongPasswordsBounded, TogetherWith, WrongPasswordLimit
  <2>1. Cardinality(TogetherWith(guessTimes, i)) <= WrongPasswordLimit + databaseFailures
    BY DEF LoginsInv, WrongPasswordsBounded, TogetherWith, WrongPasswordLimit
  <2>2. Cardinality(TogetherWith(guessTimes, i)) \in Nat
    <3>1. guessTimes \in Seq(Int) /\ TogetherWith(guessTimes, i) \subseteq DOMAIN guessTimes
      BY DEF TogetherWith, LoginsInv
    <3> QED
      BY <3>1, PositionsFinite
  <2> QED
    BY <2>1, <2>2, <1>4, CheckedType, LockoutConstants
<1> QED
  BY <1>1, <1>2, <1>3, <1>4, <1>6, <1>7, <1>8 DEF LoginsInv

LEMMA WrongPasswordKeepsLogins ==
    ASSUME LoginsInv, NEW l \in Logins, WrongPassword(l)
    PROVE  LoginsInv'
<1> DEFINE n == Len(guessTimes)
<1>1. /\ loginTime' = loginTime /\ checked' = checked \ {l} /\ l \in checked
      /\ guessTimes' = Append(guessTimes, loginTime)
      /\ n < MaxGuesses
  BY DEF WrongPassword
<1>2. guessTimes \in Seq(Int) /\ failedLogins \in Seq(Int) /\ n \in Nat /\ Len(failedLogins) \in Nat
      /\ loginTime \in Int /\ LoginWindow \in Int /\ loginTime > LoginWindow
  BY CheckedType, LockoutConstants DEF LoginsInv, LoginWindow
<1>3. LoginWindow' = LoginWindow /\ WrongPasswordLimit' = WrongPasswordLimit
  BY <1>1 DEF LoginWindow, WrongPasswordLimit
<1>4. /\ guessTimes' \in Seq(Int) /\ Len(guessTimes') = n + 1
      /\ NoneAfter(guessTimes', loginTime)
      /\ DOMAIN guessTimes' = 1..(n + 1) /\ DOMAIN guessTimes = 1..n
      /\ guessTimes'[n + 1] = loginTime
      /\ \A i \in 1..n : guessTimes'[i] = guessTimes[i]
  BY <1>1, <1>2, NowAppended, AppendProperties DEF LoginsInv
<1>5. /\ failedLogins' \in Seq(Int) /\ Len(failedLogins') <= Len(failedLogins) + 1
      /\ Len(failedLogins') \in Nat
      /\ LastIsLatest(failedLogins') /\ NoneAfter(failedLogins', loginTime)
      /\ databaseFailures' \in Nat /\ databaseFailures <= databaseFailures'
      /\ \/ failedLogins' = Append(failedLogins, loginTime) /\ databaseFailures' = databaseFailures
         \/ failedLogins' = failedLogins /\ databaseFailures' = databaseFailures + 1
  <2>1. CASE failedLogins' = Append(failedLogins, loginTime) /\ UNCHANGED databaseFailures
    BY <2>1, <1>2, NowAppended, AppendProperties, CheckedType DEF LoginsInv
  <2>2. CASE DatabaseFails /\ UNCHANGED failedLogins
    BY <2>2, <1>2, CheckedType DEF LoginsInv, DatabaseFails
  <2> QED
    BY <2>1, <2>2 DEF WrongPassword
<1>6. ASSUME NEW x \in Int
      PROVE  HowMany(guessTimes', x) <= HowMany(failedLogins', x) + databaseFailures'
  <2>1. HowMany(guessTimes, x) \in Nat /\ HowMany(failedLogins, x) \in Nat
    BY <1>2, HowManyType
  <2>2. HowMany(guessTimes', x) = HowMany(guessTimes, x) + (IF loginTime > x THEN 1 ELSE 0)
    BY <1>1, <1>2, HowManyAppended
  <2>3. HowMany(guessTimes, x) <= HowMany(failedLogins, x) + databaseFailures
    BY DEF LoginsInv
  <2>4. CASE failedLogins' = Append(failedLogins, loginTime) /\ databaseFailures' = databaseFailures
    <3>1. HowMany(failedLogins', x) = HowMany(failedLogins, x) + (IF loginTime > x THEN 1 ELSE 0)
      BY <2>4, <1>2, HowManyAppended
    <3> QED
      BY <2>1, <2>2, <2>3, <2>4, <3>1, CheckedType
  <2>5. CASE failedLogins' = failedLogins /\ databaseFailures' = databaseFailures + 1
    BY <2>1, <2>2, <2>3, <2>5, CheckedType
  <2> QED
    BY <2>4, <2>5, <1>5
<1>7. /\ Cardinality(checked') = Cardinality(checked) - 1
      /\ HowMany(guessTimes', LoginWindow) = HowMany(guessTimes, LoginWindow) + 1
      /\ Cardinality(checked') \in Nat /\ HowMany(guessTimes', LoginWindow) \in Nat
  <2>1. HowMany(guessTimes', LoginWindow) = HowMany(guessTimes, LoginWindow) + 1
    BY <1>1, <1>2, HowManyAppended
  <2>2. IsFiniteSet(checked') /\ Cardinality(checked') = Cardinality(checked) - 1
    BY <1>1, CheckedType, FS_RemoveElement
  <2> QED
    BY <2>1, <2>2, FS_CardinalityType, CheckedType
<1>8. HowMany(guessTimes', LoginWindow) + Cardinality(checked')
        <= WrongPasswordLimit + databaseFailures'
  <2>1. HowMany(guessTimes, LoginWindow) + Cardinality(checked)
          <= WrongPasswordLimit + databaseFailures
    BY DEF LoginsInv
  <2>2. /\ HowMany(guessTimes, LoginWindow) \in Nat /\ Cardinality(checked) \in Nat
        /\ databaseFailures \in Nat /\ databaseFailures' \in Nat /\ WrongPasswordLimit \in Nat
        /\ databaseFailures <= databaseFailures'
    BY <1>5, CheckedType, LockoutConstants
  <2> QED
    BY <2>1, <2>2, <1>7
<1>9. ASSUME NEW i \in 1..(n + 1)
      PROVE  Cardinality(TogetherWith(guessTimes', i)) <= WrongPasswordLimit + databaseFailures'
  <2>1. CASE i = n + 1
    <3>1. TogetherWith(guessTimes', i) \subseteq After(guessTimes', LoginWindow)
      BY <2>1, <1>2, <1>4 DEF TogetherWith, After, LoginWindow
    <3>2. Cardinality(TogetherWith(guessTimes', i)) <= HowMany(guessTimes', LoginWindow)
          /\ Cardinality(TogetherWith(guessTimes', i)) \in Nat
      BY <3>1, <1>2, <1>4, HowManyOf
    <3> QED
      BY <3>2, <1>5, <1>7, <1>8, LockoutConstants
  <2>2. CASE i # n + 1
    <3>1. i \in 1..n /\ 1..i \subseteq 1..n
      BY <2>2, <1>2
    <3>2. TogetherWith(guessTimes', i) = TogetherWith(guessTimes, i)
      BY <3>1, <1>4 DEF TogetherWith
    <3>3. Cardinality(TogetherWith(guessTimes, i)) <= WrongPasswordLimit + databaseFailures
      BY <3>1, <1>4 DEF LoginsInv, WrongPasswordsBounded, TogetherWith, WrongPasswordLimit
    <3>4. Cardinality(TogetherWith(guessTimes, i)) \in Nat
      <4>1. TogetherWith(guessTimes, i) \in SUBSET DOMAIN guessTimes
        BY <3>1, <1>4 DEF TogetherWith
      <4> QED
        BY <4>1, <1>2, PositionsFinite
    <3>5. /\ WrongPasswordLimit \in Nat /\ databaseFailures \in Nat
          /\ databaseFailures' \in Nat /\ databaseFailures <= databaseFailures'
      BY <1>5, CheckedType, LockoutConstants
    <3> HIDE DEF n
    <3> QED
      BY <3>2, <3>3, <3>4, <3>5
  <2> QED
    BY <2>1, <2>2
<1>10. WrongPasswordsBounded'
  BY <1>4, <1>9 DEF WrongPasswordsBounded, TogetherWith, WrongPasswordLimit
<1>11. checked' \subseteq Logins /\ Len(failedLogins') <= Len(guessTimes')
       /\ Len(guessTimes') <= MaxGuesses
  BY <1>1, <1>2, <1>4, <1>5, LockoutConstants DEF LoginsInv
<1> QED
  BY <1>1, <1>3, <1>4, <1>5, <1>6, <1>8, <1>10, <1>11 DEF LoginsInv

\* A step that at most lets time pass or a login end.
LEMMA LoginsWait ==
    ASSUME LoginsInv, UNCHANGED <<failedLogins, guessTimes, databaseFailures>>,
           loginTime' \in Nat, loginTime <= loginTime', checked' \subseteq checked
    PROVE  LoginsInv'
<1>1. LoginWindow \in Int /\ LoginWindow' \in Int /\ LoginWindow <= LoginWindow'
      /\ loginTime \in Nat
  BY CheckedType, LockoutConstants DEF LoginWindow
<1>2. guessTimes \in Seq(Int) /\ failedLogins \in Seq(Int)
  BY DEF LoginsInv
<1>3. NoneAfter(failedLogins, loginTime') /\ NoneAfter(guessTimes, loginTime')
  BY <1>1, <1>2, NoneAfterLater DEF LoginsInv
<1>4. HowMany(guessTimes, LoginWindow') <= HowMany(guessTimes, LoginWindow)
      /\ HowMany(guessTimes, LoginWindow') \in Nat
  BY <1>1, <1>2, HowManyFewer, HowManyType
<1>5. Cardinality(checked') <= Cardinality(checked) /\ Cardinality(checked') \in Nat
  BY CheckedType, FS_Subset, FS_CardinalityType
<1>6. HowMany(guessTimes, LoginWindow') + Cardinality(checked')
        <= WrongPasswordLimit + databaseFailures
  <2>1. HowMany(guessTimes, LoginWindow) + Cardinality(checked)
          <= WrongPasswordLimit + databaseFailures
    BY DEF LoginsInv
  <2> QED
    BY <2>1, <1>4, <1>5, CheckedType, LockoutConstants
<1>7. WrongPasswordsBounded' /\ checked' \subseteq Logins
      /\ WrongPasswordLimit' = WrongPasswordLimit
  BY DEF LoginsInv, WrongPasswordsBounded, WrongPasswordLimit
<1> QED
  BY <1>3, <1>6, <1>7 DEF LoginsInv

\* However logins overlap and whichever calls of the database fail, the wrong
\* passwords within one lockout are no more than the limit, one for each other
\* login that had passed the check, and one for each failing call; however far
\* the lockout has escalated.
THEOREM LockoutBoundsPasswords == ALSpec => []WrongPasswordsBounded
<1>1. ALInit => LoginsInv
  <2> SUFFICES ASSUME ALInit PROVE LoginsInv
    OBVIOUS
  <2>1. /\ loginTime = 0 /\ failedLogins = <<>> /\ guessTimes = <<>> /\ checked = {}
        /\ databaseFailures = 0
    BY DEF ALInit
  <2>2. \A x : After(<<>>, x) = {}
    BY DEF After
  <2>3. \A x : HowMany(<<>>, x) = 0
    BY <2>2, FS_EmptySet DEF HowMany
  <2>4. LastIsLatest(<<>>) /\ NoneAfter(<<>>, 0)
    BY DEF LastIsLatest, NoneAfter
  <2>5. WrongPasswordsBounded
    BY <2>1 DEF WrongPasswordsBounded
  <2>6. HowMany(guessTimes, LoginWindow) = 0 /\ Cardinality(checked) = 0
    BY <2>1, <2>3, FS_EmptySet
  <2>7. /\ <<>> \in Seq(Int) /\ Len(<<>>) = 0 /\ MaxGuesses \in Nat /\ WrongPasswordLimit \in Nat
    BY LockoutConstants
  <2>8. Len(failedLogins) <= Len(guessTimes) /\ Len(guessTimes) <= MaxGuesses
    BY <2>1, <2>7
  <2>9. \A x \in Int : HowMany(guessTimes, x) <= HowMany(failedLogins, x) + databaseFailures
    BY <2>1, <2>3
  <2> QED
    BY <2>1, <2>4, <2>5, <2>6, <2>7, <2>8, <2>9 DEF LoginsInv
<1>2. LoginsInv /\ [ALNext]_alVars => LoginsInv'
  <2> SUFFICES ASSUME LoginsInv, [ALNext]_alVars PROVE LoginsInv'
    OBVIOUS
  <2>0. loginTime \in Nat
    BY CheckedType
  <2>1. ASSUME NEW l \in Logins, CheckLockout(l) PROVE LoginsInv'
    BY <2>1, CheckKeepsLogins
  <2>2. ASSUME NEW l \in Logins, WrongPassword(l) PROVE LoginsInv'
    BY <2>2, WrongPasswordKeepsLogins
  <2>3. ASSUME NEW l \in Logins, RightPassword(l) PROVE LoginsInv'
    BY <2>0, <2>3, LoginsWait DEF RightPassword
  <2>4. CASE ALTick
    BY <2>0, <2>4, LoginsWait DEF ALTick
  <2>5. CASE UNCHANGED alVars
    BY <2>0, <2>5, LoginsWait DEF alVars
  <2> QED
    BY <2>1, <2>2, <2>3, <2>4, <2>5 DEF ALNext
<1>3. LoginsInv => WrongPasswordsBounded
  BY DEF LoginsInv
<1> QED
  BY <1>1, <1>2, <1>3, PTL DEF ALSpec

-----------------------------------------------------------------------------
(* The requests of a burst.                                                *)

Request == [category : Categories, at : Int]

\* The entry holds the last of the allowed requests, and those it has forgotten
\* are older than the shortest window.
Forgotten == Len(allowed) - Len(entry.requests)

RemembersLast(q) ==
    /\ q \in Seq(Int) /\ Len(q) <= Len(allowed)
    /\ \A i \in 1..Len(q) : q[i] = allowed[Len(allowed) - Len(q) + i].at
    /\ \A j \in 1..(Len(allowed) - Len(q)) : allowed[j].at < requestTime - ShortestWindow

RequestsInv ==
    /\ requestTime \in Nat
    /\ entry \in [requests : Seq(Int), blockedUntil : Int]
    /\ allowed \in Seq(Request)
    /\ \A j \in 1..Len(allowed) : allowed[j].at <= requestTime
    /\ \A j, k \in 1..Len(allowed) : j <= k => allowed[j].at <= allowed[k].at
    /\ RemembersLast(entry.requests)
    /\ BurstWithinLimit

LEMMA AllowedTimes ==
    ASSUME RequestsInv
    PROVE  /\ Len(allowed) \in Nat /\ requestTime \in Nat
           /\ \A j \in 1..Len(allowed) : allowed[j].at \in Int /\ allowed[j].at <= requestTime
<1>1. Len(allowed) \in Nat /\ \A j \in 1..Len(allowed) : allowed[j] \in Request
  BY DEF RequestsInv
<1>2. \A j \in 1..Len(allowed) : allowed[j].at \in Int
  BY <1>1 DEF Request
<1> QED
  BY <1>1, <1>2 DEF RequestsInv

LEMMA WindowsType ==
    ASSUME NEW c \in Categories
    PROVE  /\ ShortestWindow \in Nat /\ ShortestWindow <= TimeWindows[c]
           /\ TimeWindows[c] \in Nat \ {0} /\ ShortestWindow > 0
           /\ TimeWindows[c] <= InactiveAfter /\ InactiveAfter \in Nat
           /\ RateLimits[c] \in Nat \ {0}
<1> DEFINE W == {TimeWindows[d] : d \in Categories}
<1>1. W \in SUBSET Nat /\ W # {} /\ \A d \in Categories : TimeWindows[d] \in Nat \ {0}
  BY RateLimitAssumption
<1>2. \E w \in W : \A y \in W : w <= y
  <2> HIDE DEF W
  <2> QED
    BY <1>1, LeastElement
<1>3. \E w \in W : \A d \in Categories : w <= TimeWindows[d]
  BY <1>2
<1>4. ShortestWindow \in W /\ \A d \in Categories : ShortestWindow <= TimeWindows[d]
  BY <1>3 DEF ShortestWindow
<1> QED
  BY <1>1, <1>4, RateLimitAssumption

\* What a check looks at still is the last of the allowed requests.
LEMMA KeptRemembers ==
    ASSUME RequestsInv, NEW c \in Categories, NEW q, RemembersLast(q)
    PROVE  RemembersLast(Kept(q, c))
<1> DEFINE cutoff == requestTime - TimeWindows[c]
           n == Outdated(q, c)
           S == {i \in 1..Len(q) : q[i] < cutoff}
           m == Len(q) - n
<1>1. q \in Seq(Int) /\ Len(q) \in Nat /\ requestTime \in Nat /\ Len(allowed) \in Nat
      /\ Len(q) <= Len(allowed) /\ DOMAIN q = 1..Len(q)
  BY DEF RequestsInv, RemembersLast
<1>2. PICK k \in 0..Len(q) : (\A i \in 1..k : i \in S) /\ (k < Len(q) => k + 1 \notin S)
  BY <1>1, LongestPrefix
<1>3. \A i \in 1..k : q[i] < cutoff
  BY <1>2
<1>4. k < Len(q) => q[k + 1] >= cutoff
  <2>1. k < Len(q) => k + 1 \in 1..Len(q) /\ q[k + 1] \in Int
    BY <1>1, <1>2
  <2> QED
    BY <2>1, <1>1, <1>2, WindowsType
<1>5. n \in 0..Len(q) /\ \A i \in 1..n : q[i] < cutoff
  BY <1>3, <1>4 DEF Outdated
<1> HIDE DEF n
<1>6. /\ Kept(q, c) \in Seq(Int) /\ Len(Kept(q, c)) = m
      /\ \A i \in 1..m : Kept(q, c)[i] = q[n + i]
  <2>1. Kept(q, c) = SubSeq(q, n + 1, Len(q))
    BY DEF Kept, n
  <2>2. n + 1 \in 1..(Len(q) + 1) /\ Len(q) - (n + 1) + 1 = m /\ m \in Nat
    BY <1>1, <1>5
  <2>3. /\ SubSeq(q, n + 1, Len(q)) \in Seq(Int) /\ Len(SubSeq(q, n + 1, Len(q))) = m
        /\ \A i \in 1..m : SubSeq(q, n + 1, Len(q))[i] = q[n + 1 + i - 1]
    <3>1. \A i \in (n + 1)..Len(q) : q[i] \in Int
      BY <1>1, <1>5
    <3>2. n + 1 \in Int /\ Len(q) \in Int
      BY <1>1, <1>5
    <3>3. Len(q) \in Nat /\ n \in 0..Len(q)
      BY <1>1, <1>5
    <3>4. n + 1 <= Len(q) => Len(q) - (n + 1) + 1 = m
      BY <3>3
    <3>5. ~(n + 1 <= Len(q)) => m = 0
      BY <3>3
    <3> HIDE DEF m
    <3> QED
      BY <3>1, <3>2, <3>4, <3>5, <2>2, SubSeqProperties
  <2>4. \A i \in 1..m : n + 1 + i - 1 = n + i
    BY <1>5, <2>2
  <2> QED
    BY <2>1, <2>3, <2>4
<1>7. \A i \in 1..m : Kept(q, c)[i] = allowed[Len(allowed) - m + i].at
  <2> TAKE i \in 1..m
  <2>1. n + i \in 1..Len(q) /\ Len(allowed) - Len(q) + (n + i) = Len(allowed) - m + i
    BY <1>1, <1>5
  <2> QED
    BY <2>1, <1>6 DEF RemembersLast
<1>8. ASSUME NEW j \in 1..(Len(allowed) - m)
      PROVE  allowed[j].at < requestTime - ShortestWindow
  <2>1. CASE j \in 1..(Len(allowed) - Len(q))
    BY <2>1 DEF RemembersLast
  <2>2. CASE j \notin 1..(Len(allowed) - Len(q))
    <3> DEFINE i == j - (Len(allowed) - Len(q))
    <3>1. i \in 1..n /\ i \in 1..Len(q) /\ Len(allowed) - Len(q) + i = j
      BY <2>2, <1>1, <1>5
    <3>2. allowed[j].at = q[i] /\ q[i] < cutoff /\ q[i] \in Int
      BY <3>1, <1>1, <1>5 DEF RemembersLast
    <3> QED
      BY <3>2, <1>1, WindowsType
  <2> QED
    BY <2>1, <2>2
<1>9. m \in Nat /\ m <= Len(allowed)
  BY <1>1, <1>5
<1> QED
  BY <1>6, <1>7, <1>8, <1>9 DEF RemembersLast

\* An entry is deleted only when all it holds is older than any window.
LEMMA FoundRemembers ==
    ASSUME RequestsInv, NEW c \in Categories, NEW e \in Found
    PROVE  e \in [requests : Seq(Int), blockedUntil : Int] /\ RemembersLast(e.requests)
<1>1. CASE e = entry
  BY <1>1 DEF RequestsInv
<1>2. CASE e = NoEntry /\ Inactive
  <2> DEFINE q == entry.requests
  <2>0. <<>> \in Seq(Int) /\ Len(<<>>) = 0
    OBVIOUS
  <2>1. e \in [requests : Seq(Int), blockedUntil : Int] /\ e.requests = <<>>
    BY <1>2, <2>0 DEF NoEntry
  <2>2. /\ q \in Seq(Int) /\ Len(q) \in Nat /\ requestTime \in Nat /\ Len(allowed) \in Nat
        /\ Len(q) <= Len(allowed)
    BY DEF RequestsInv, RemembersLast
  <2>3. ASSUME NEW j \in 1..Len(allowed) PROVE allowed[j].at < requestTime - ShortestWindow
    <3>1. CASE j \in 1..(Len(allowed) - Len(q))
      BY <3>1 DEF RequestsInv, RemembersLast
    <3>2. CASE j \notin 1..(Len(allowed) - Len(q))
      <4>1. Len(q) # 0 /\ Len(q) \in 1..Len(q) /\ Len(allowed) \in 1..Len(allowed)
            /\ Len(allowed) - Len(q) + Len(q) = Len(allowed)
        BY <3>2, <2>2
      <4>2. q[Len(q)] < requestTime - InactiveAfter /\ q[Len(q)] \in Int
        BY <4>1, <2>2, <1>2 DEF Inactive
      <4>3. q[Len(q)] = allowed[Len(allowed)].at
        BY <4>1 DEF RequestsInv, RemembersLast
      <4>4. allowed[j].at <= allowed[Len(allowed)].at /\ allowed[j].at \in Int
        BY <4>1, AllowedTimes DEF RequestsInv
      <4>5. ShortestWindow \in Nat /\ InactiveAfter \in Nat /\ ShortestWindow <= InactiveAfter
        BY WindowsType
      <4>6. allowed[j].at <= q[Len(q)]
        BY <4>3, <4>4
      <4> HIDE DEF q
      <4> QED
        BY <4>2, <4>4, <4>5, <4>6, <2>2
    <3> QED
      BY <3>1, <3>2
  <2> QED
    BY <2>0, <2>1, <2>2, <2>3 DEF RemembersLast
<1> QED
  BY <1>1, <1>2 DEF Found

\* A check that refuses.
LEMMA RefusalKeeps ==
    ASSUME RequestsInv, UNCHANGED <<requestTime, allowed>>,
           entry' \in [requests : Seq(Int), blockedUntil : Int],
           RemembersLast(entry'.requests)
    PROVE  RequestsInv'
BY DEF RequestsInv, RemembersLast, BurstWithinLimit, AllowedWithin, ShortestWindow

\* A check that lets one more request through.
LEMMA AllowKeeps ==
    ASSUME RequestsInv, NEW c \in Categories, NEW q, RemembersLast(q),
           ~OverLimit(q, c),
           entry' \in [requests : Seq(Int), blockedUntil : Int],
           entry'.requests = Append(q, requestTime),
           allowed' = Append(allowed, [category |-> c, at |-> requestTime]),
           UNCHANGED requestTime
    PROVE  RequestsInv'
<1> DEFINE n == Len(allowed)
           r == [category |-> c, at |-> requestTime]
<1>1. /\ q \in Seq(Int) /\ Len(q) \in Nat /\ Len(q) <= n /\ n \in Nat
      /\ requestTime \in Int /\ allowed \in Seq(Request) /\ r \in Request
  BY DEF RequestsInv, RemembersLast, Request
<1>2. /\ allowed' \in Seq(Request) /\ Len(allowed') = n + 1 /\ allowed'[n + 1] = r
      /\ \A j \in 1..n : allowed'[j] = allowed[j]
      /\ DOMAIN allowed' = 1..(n + 1) /\ DOMAIN allowed = 1..n
  BY <1>1, AppendProperties
<1>3. \A j \in 1..n : allowed[j].at \in Int /\ allowed[j].at <= requestTime
  BY AllowedTimes
<1>4. r.category = c /\ r.at = requestTime
  OBVIOUS
<1> HIDE DEF n, r
<1>20. Len(q) \in Nat /\ n \in Nat /\ Len(q) <= n /\ requestTime \in Int
       /\ ShortestWindow \in Int /\ ShortestWindow' = ShortestWindow
  <2>1. ShortestWindow' = ShortestWindow
    BY DEF ShortestWindow
  <2>2. ShortestWindow \in Int
    BY WindowsType
  <2> QED
    BY <1>1, <2>1, <2>2
<1>5. \A j \in 1..(n + 1) : allowed'[j].at <= requestTime
  BY <1>1, <1>2, <1>3, <1>4
<1>6. ASSUME NEW j \in 1..(n + 1), NEW k \in 1..(n + 1), j <= k
      PROVE  allowed'[j].at <= allowed'[k].at
  <2>1. CASE k = n + 1
    BY <2>1, <1>2, <1>4, <1>5
  <2>2. CASE k # n + 1
    <3>1. j \in 1..n /\ k \in 1..n
      BY <2>2, <1>1, <1>6
    <3> QED
      BY <3>1, <1>2, <1>6 DEF RequestsInv, n
  <2> QED
    BY <2>1, <2>2
<1> DEFINE s == Append(q, requestTime)
<1>7. /\ s \in Seq(Int) /\ Len(s) = Len(q) + 1 /\ s[Len(q) + 1] = requestTime
      /\ \A i \in 1..Len(q) : s[i] = q[i]
  BY <1>1, AppendProperties
<1> HIDE DEF s
<1>8. \A i \in 1..(Len(q) + 1) : s[i] = allowed'[(n + 1) - (Len(q) + 1) + i].at
  <2> TAKE i \in 1..(Len(q) + 1)
  <2>1. CASE i = Len(q) + 1
    <3>1. (n + 1) - (Len(q) + 1) + i = n + 1
      BY <2>1, <1>1
    <3> QED
      BY <3>1, <2>1, <1>2, <1>4, <1>7
  <2>2. CASE i # Len(q) + 1
    <3>1. i \in 1..Len(q) /\ (n + 1) - (Len(q) + 1) + i = n - Len(q) + i /\ n - Len(q) + i \in 1..n
      BY <2>2, <1>1
    <3> QED
      BY <3>1, <1>2, <1>7 DEF RemembersLast, n
  <2> QED
    BY <2>1, <2>2
<1>9. \A j \in 1..((n + 1) - (Len(q) + 1)) : allowed'[j].at < requestTime - ShortestWindow
  <2> TAKE j \in 1..((n + 1) - (Len(q) + 1))
  <2>1. j \in 1..n /\ j \in 1..(n - Len(q))
    BY <1>1
  <2> QED
    BY <2>1, <1>2 DEF RemembersLast, n
<1>10. RemembersLast(entry.requests)'
  <2>1. entry'.requests = s
    BY DEF s
  <2> QED
    <3>1. Len(s) <= n + 1 /\ Len(s) = Len(q) + 1
      BY <1>1, <1>7
    <3>2. /\ \A i \in 1..Len(s) : s[i] = allowed'[(n + 1) - Len(s) + i].at
          /\ \A j \in 1..((n + 1) - Len(s)) : allowed'[j].at < requestTime - ShortestWindow
      BY <3>1, <1>8, <1>9
    <3>3. requestTime' = requestTime /\ Len(allowed') = n + 1
      BY <1>2
    <3> QED
      <4>1. Len(s) <= Len(allowed') /\ s \in Seq(Int)
        BY <3>1, <3>3, <1>7
      <4>2. \A i \in 1..Len(s) : s[i] = allowed'[Len(allowed') - Len(s) + i].at
        <5> TAKE i \in 1..Len(s)
        <5>1. s[i] = allowed'[(n + 1) - Len(s) + i].at
          BY <3>2
        <5>2. n + 1 = Len(allowed')
          BY <3>3
        <5> QED
          BY <5>1, <5>2
      <4>3. \A j \in 1..(Len(allowed') - Len(s)) : allowed'[j].at < requestTime' - ShortestWindow'
        BY <3>2, <3>3, <1>20
      <4> QED
        BY <2>1, <4>1, <4>2, <4>3 DEF RemembersLast
<1>11. BurstWithinLimit'
  <2> SUFFICES ASSUME NEW i \in 1..(n + 1)
               PROVE  AllowedWithin(allowed[i].category, i, ShortestWindow)'
                        <= RateLimits[allowed'[i].category]
    BY <1>2 DEF BurstWithinLimit
  <2>1. CASE i = n + 1
    <3> DEFINE K == {j \in 1..i : /\ allowed'[j].category = allowed'[i].category
                                  /\ allowed'[j].at > allowed'[i].at - ShortestWindow}
    <3>1. K \subseteq (n - Len(q) + 1)..(n + 1)
      <4> SUFFICES ASSUME NEW j \in K PROVE j \in (n - Len(q) + 1)..(n + 1)
        OBVIOUS
      <4>1. j \in 1..(n + 1) /\ allowed'[j].at > requestTime - ShortestWindow
        BY <2>1, <1>2, <1>4
      <4>2. ShortestWindow \in Int /\ allowed'[j].at \in Int
        BY <4>1, <1>1, <1>2, <1>3, <1>4, WindowsType
      <4>4. j \in 1..((n + 1) - (Len(q) + 1)) => allowed'[j].at < requestTime - ShortestWindow
        BY <1>9
      <4>3. j \notin 1..((n + 1) - (Len(q) + 1))
        <5> DEFINE x == allowed'[j].at
                   y == requestTime - ShortestWindow
        <5>1. x \in Int /\ y \in Int /\ x > y
          <6>1. x \in Int
            BY <4>2
          <6>2. y \in Int
            BY <1>20
          <6>3. x > y
            BY <4>1
          <6> QED
            BY <6>1, <6>2, <6>3
        <5>2. ~(x < y)
          <6> HIDE DEF x, y
          <6> QED
            BY <5>1
        <5> QED
          BY <4>4, <5>2
      <4> QED
        <5> HIDE DEF K
        <5> QED
          BY <4>1, <4>3, <1>20
    <3>2. IsFiniteSet((n - Len(q) + 1)..(n + 1)) /\ Cardinality((n - Len(q) + 1)..(n + 1)) = Len(q) + 1
      <4>1. (n + 1) - (n - Len(q) + 1) + 1 = Len(q) + 1 /\ n - Len(q) + 1 <= n + 1
            /\ n - Len(q) + 1 \in Int /\ n + 1 \in Int
        BY <1>1
      <4> QED
        BY <4>1, FS_Interval
    <3>3. Cardinality(K) <= Len(q) + 1 /\ Cardinality(K) \in Nat
      <4> DEFINE I == (n - Len(q) + 1)..(n + 1)
      <4>2. K \subseteq I /\ IsFiniteSet(I) /\ Cardinality(I) = Len(q) + 1
        BY <3>1, <3>2
      <4> HIDE DEF K, I
      <4>1. IsFiniteSet(K) /\ Cardinality(K) <= Len(q) + 1
        BY <4>2, FS_Subset
      <4> QED
        BY <4>1, FS_CardinalityType
    <3>4. Len(q) + 1 <= RateLimits[c] /\ RateLimits[c] \in Nat
      BY <1>1, WindowsType DEF OverLimit
    <3>5. AllowedWithin(allowed[i].category, i, ShortestWindow)' = Cardinality(K)
      BY DEF AllowedWithin, ShortestWindow
    <3>6. allowed'[i].category = c
      BY <2>1, <1>2, <1>4
    <3> HIDE DEF K
    <3>7. Cardinality(K) <= RateLimits[c]
      BY <3>3, <3>4, <1>20
    <3> QED
      BY <3>5, <3>6, <3>7
  <2>2. CASE i # n + 1
    <3>1. i \in 1..n /\ 1..i \subseteq 1..n
      BY <2>2, <1>1
    <3>2. AllowedWithin(allowed[i].category, i, ShortestWindow)'
            = AllowedWithin(allowed[i].category, i, ShortestWindow)
      <4>1. {j \in 1..i : /\ allowed'[j].category = allowed'[i].category
                          /\ allowed'[j].at > allowed'[i].at - ShortestWindow}
            = {j \in 1..i : /\ allowed[j].category = allowed[i].category
                            /\ allowed[j].at > allowed[i].at - ShortestWindow}
        BY <3>1, <1>2
      <4> QED
        BY <4>1 DEF AllowedWithin, ShortestWindow
    <3> QED
      BY <3>1, <3>2, <1>2 DEF RequestsInv, BurstWithinLimit
  <2> QED
    BY <2>1, <2>2
<1> QED
  BY <1>2, <1>5, <1>6, <1>10, <1>11 DEF RequestsInv

LEMMA CheckKeepsRequests ==
    ASSUME RequestsInv, NEW c \in Categories, SafetyRequest(c)
    PROVE  RequestsInv'
<1>1. UNCHANGED requestTime
  BY DEF SafetyRequest
<1>2. requestTime \in Int /\ TimeWindows[c] \in Int
  BY WindowsType DEF RequestsInv
<1> SUFFICES ASSUME NEW e \in Found,
        \/ e.blockedUntil > requestTime /\ entry' = e /\ UNCHANGED allowed
        \/ /\ OverLimit(Kept(e.requests, c), c)
           /\ entry' = [requests |-> Kept(e.requests, c),
                        blockedUntil |-> requestTime + TimeWindows[c]]
           /\ UNCHANGED allowed
        \/ /\ ~OverLimit(Kept(e.requests, c), c)
           /\ entry' = [e EXCEPT !.requests = Append(Kept(@, c), requestTime)]
           /\ allowed' = Append(allowed, [category |-> c, at |-> requestTime])
               PROVE RequestsInv'
  BY DEF SafetyRequest, CheckRateLimit
<1>3. e \in [requests : Seq(Int), blockedUntil : Int] /\ RemembersLast(e.requests)
  BY FoundRemembers
<1> DEFINE q == Kept(e.requests, c)
<1>4. RemembersLast(q) /\ q \in Seq(Int)
  BY <1>3, KeptRemembers DEF RemembersLast
<1> HIDE DEF q
<1>5. CASE entry' = e /\ UNCHANGED allowed
  BY <1>1, <1>3, <1>5, RefusalKeeps
<1>6. CASE entry' = [requests |-> q, blockedUntil |-> requestTime + TimeWindows[c]] /\ UNCHANGED allowed
  <2>1. entry' \in [requests : Seq(Int), blockedUntil : Int] /\ entry'.requests = q
    BY <1>2, <1>4, <1>6
  <2> QED
    BY <1>1, <1>4, <1>6, <2>1, RefusalKeeps
<1>7. CASE /\ ~OverLimit(q, c)
           /\ entry' = [e EXCEPT !.requests = Append(q, requestTime)]
           /\ allowed' = Append(allowed, [category |-> c, at |-> requestTime])
  <2>1. Append(q, requestTime) \in Seq(Int)
    BY <1>2, <1>4
  <2>2. entry' \in [requests : Seq(Int), blockedUntil : Int]
        /\ entry'.requests = Append(q, requestTime)
    BY <1>3, <1>7, <2>1
  <2> QED
    BY <1>1, <1>4, <1>7, <2>2, AllowKeeps
<1> QED
  BY <1>5, <1>6, <1>7 DEF q

\* Whatever the mix of categories, blocks and clean-ups of idle entries, no category
\* is allowed more than its limit within the shortest of the windows.
THEOREM BurstsLimited == RLSpec => []BurstWithinLimit
<1>1. RLInit => RequestsInv
  <2> SUFFICES ASSUME RLInit PROVE RequestsInv
    OBVIOUS
  <2>1. requestTime = 0 /\ entry = NoEntry /\ allowed = <<>>
    BY DEF RLInit
  <2>2. entry \in [requests : Seq(Int), blockedUntil : Int] /\ entry.requests = <<>>
    BY <2>1 DEF NoEntry
  <2>3. Len(allowed) = 0 /\ DOMAIN allowed = {} /\ allowed \in Seq(Request)
    BY <2>1
  <2>4. RemembersLast(entry.requests)
    BY <2>2, <2>3 DEF RemembersLast
  <2>5. BurstWithinLimit
    BY <2>3 DEF BurstWithinLimit
  <2> QED
    BY <2>1, <2>2, <2>3, <2>4, <2>5 DEF RequestsInv
<1>2. RequestsInv /\ [RLNext]_rlVars => RequestsInv'
  <2> SUFFICES ASSUME RequestsInv, [RLNext]_rlVars PROVE RequestsInv'
    OBVIOUS
  <2>1. ASSUME NEW c \in Categories, SafetyRequest(c) PROVE RequestsInv'
    BY <2>1, CheckKeepsRequests
  <2>2. CASE RLTick
    <3>1. requestTime \in Nat /\ requestTime' = requestTime + 1 /\ UNCHANGED <<entry, allowed>>
      BY <2>2 DEF RLTick, RequestsInv
    <3>2. \A j \in 1..Len(allowed) : allowed[j].at \in Int /\ allowed[j].at <= requestTime'
      <4> TAKE j \in 1..Len(allowed)
      <4>1. allowed[j].at \in Int /\ allowed[j].at <= requestTime
        BY AllowedTimes
      <4> QED
        BY <3>1, <4>1
    <3>3. ASSUME NEW j \in 1..Forgotten PROVE allowed[j].at < requestTime' - ShortestWindow
      <4>1. allowed[j].at < requestTime - ShortestWindow
        BY DEF RequestsInv, RemembersLast, Forgotten
      <4>2. Len(allowed) \in Nat /\ Len(entry.requests) \in Nat
        BY DEF RequestsInv
      <4>3. j \in 1..Len(allowed)
        BY <4>2 DEF Forgotten
      <4>4. allowed[j] \in Request
        BY <4>3 DEF RequestsInv
      <4>5. allowed[j].at \in Int /\ ShortestWindow \in Int
        BY <4>4, WindowsType DEF Request
      <4> QED
        BY <3>1, <4>1, <4>5
    <3>4. RemembersLast(entry.requests)'
      BY <3>1, <3>3 DEF RequestsInv, RemembersLast, Forgotten, ShortestWindow
    <3>5. BurstWithinLimit'
      BY <3>1 DEF RequestsInv, BurstWithinLimit, AllowedWithin, ShortestWindow
    <3> QED
      BY <3>1, <3>2, <3>4, <3>5 DEF RequestsInv
  <2>3. CASE UNCHANGED rlVars
    BY <2>3 DEF rlVars, RequestsInv, RemembersLast, BurstWithinLimit, AllowedWithin, ShortestWindow
  <2> QED
    BY <2>1, <2>2, <2>3 DEF RLNext
<1>3. RequestsInv => BurstWithinLimit
  BY DEF RequestsInv
<1> QED
  BY <1>1, <1>2, <1>3, PTL DEF RLSpec

-----------------------------------------------------------------------------
(* The broadcasts of the data stream.                                      *)

CastFields == DOMAIN NoCast

\* A listener: it is up, and its handler receives or awaits its own broadcast.
Listens(c) == handler[c] \in {"receiving", "echoing"} /\ link[c] = "up"

\* A broadcast under way goes over the set it began with unless it is disturbed, has
\* found gone only those that are, and keeps the handler that echoes from leaving;
\* one that is over and was not disturbed has been to everybody.
CastWell(b, r) ==
    /\ DOMAIN r = CastFields
    /\ r.pc = "sending" =>
         /\ ~r.disturbed => r.members = data_clients
         /\ b \in Connections => handler[b] = "echoing"
    /\ \A c \in r.failed \cap Connections : link[c] # "up"
    /\ r.pc = "idle" /\ ~r.disturbed => r.outcome # "raised" /\ r.missed = {}

ServedInv ==
    /\ DOMAIN cast = Casters
    /\ DOMAIN handler = Connections
    /\ DOMAIN link = Connections
    /\ \A b \in Casters : CastWell(b, cast[b])
    /\ \A c \in Connections : Listens(c) /\ stopping.pc # "stopped" => c \in data_clients

LEMMA Fields ==
    CastFields = {"pc", "members", "to", "failed", "met", "twice", "disturbed", "outcome",
                  "missed"}
BY DEF CastFields, NoCast

\* The broadcasts c, of which the ones under way that the set changes under are then
\* disturbed.
LEMMA BecomeCasts ==
    ASSUME NEW clients, NEW casts, ClientsBecome(clients, casts), NEW b \in Casters,
           DOMAIN casts[b] = CastFields
    PROVE  /\ DOMAIN cast' = Casters
           /\ DOMAIN cast'[b] = CastFields
           /\ cast'[b].pc = casts[b].pc /\ cast'[b].members = casts[b].members
           /\ cast'[b].failed = casts[b].failed /\ cast'[b].outcome = casts[b].outcome
           /\ cast'[b].missed = casts[b].missed
           /\ casts[b].pc # "sending" => cast'[b].disturbed = casts[b].disturbed
           /\ casts[b].pc = "sending" /\ clients # data_clients => cast'[b].disturbed
           /\ clients = data_clients => cast'[b].disturbed = casts[b].disturbed
<1>1. DOMAIN cast' = Casters
      /\ cast'[b] = IF casts[b].pc = "sending" /\ clients # data_clients
                    THEN [casts[b] EXCEPT !.disturbed = TRUE] ELSE casts[b]
  BY DEF ClientsBecome
<1> QED
  BY <1>1, Fields

\* Links only go down, and a handler whose broadcast is under way stays with it.
LEMMA CastKept ==
    ASSUME NEW b \in Casters, NEW r, CastWell(b, r),
           NEW e, DOMAIN e = CastFields,
           e.pc = r.pc, e.members = r.members, e.failed = r.failed, e.outcome = r.outcome,
           e.missed = r.missed,
           r.pc # "sending" => e.disturbed = r.disturbed,
           r.pc = "sending" /\ data_clients' # data_clients => e.disturbed,
           data_clients' = data_clients => e.disturbed = r.disturbed,
           \A c \in Connections : link[c] # "up" => link'[c] # "up",
           r.pc = "sending" /\ b \in Connections => handler'[b] = handler[b]
    PROVE  CastWell(b, e)'
BY DEF CastWell, CastFields

\* The changes that handlers and stop() make to the set and the links.
LEMMA OthersKeep ==
    ASSUME ServedInv,
           \/ UNCHANGED <<cast, data_clients>>
           \/ \E clients : ClientsBecome(clients, cast) /\ data_clients' = clients,
           DOMAIN handler' = Connections, DOMAIN link' = Connections,
           \A c \in Connections : link[c] # "up" => link'[c] # "up",
           \A c \in Connections : handler[c] = "echoing" => handler'[c] = handler[c],
           \A c \in Connections : Listens(c)' /\ stopping'.pc # "stopped" => c \in data_clients'
    PROVE  ServedInv'
<1>1. ASSUME NEW b \in Casters PROVE CastWell(b, cast[b])'
  <2>1. /\ CastWell(b, cast[b]) /\ DOMAIN cast[b] = CastFields
        /\ cast[b].pc = "sending" /\ b \in Connections => handler'[b] = handler[b]
    BY DEF ServedInv, CastWell
  <2>2. CASE UNCHANGED <<cast, data_clients>>
    BY <2>1, <2>2, CastKept
  <2>3. ASSUME NEW clients, ClientsBecome(clients, cast), data_clients' = clients
        PROVE  CastWell(b, cast[b])'
    <3> DEFINE e == cast'[b]
    <3>1. /\ DOMAIN e = CastFields
          /\ e.pc = cast[b].pc /\ e.members = cast[b].members /\ e.failed = cast[b].failed
          /\ e.outcome = cast[b].outcome /\ e.missed = cast[b].missed
          /\ cast[b].pc # "sending" => e.disturbed = cast[b].disturbed
          /\ cast[b].pc = "sending" /\ data_clients' # data_clients => e.disturbed
          /\ data_clients' = data_clients => e.disturbed = cast[b].disturbed
      BY <2>1, <2>3, BecomeCasts
    <3> HIDE DEF e
    <3>2. CastFields' = CastFields
      BY DEF CastFields, NoCast
    <3>3. /\ e.pc = "sending" => /\ ~e.disturbed => e.members = data_clients'
                                 /\ b \in Connections => handler'[b] = "echoing"
          /\ \A c \in e.failed \cap Connections : link'[c] # "up"
          /\ e.pc = "idle" /\ ~e.disturbed => e.outcome # "raised" /\ e.missed = {}
      BY <2>1, <3>1 DEF CastWell
    <3> QED
      BY <3>1, <3>2, <3>3 DEF CastWell, e
  <2> QED
    BY <2>2, <2>3
<1>2. DOMAIN cast' = Casters
  BY DEF ServedInv, ClientsBecome
<1> QED
  BY <1>1, <1>2 DEF ServedInv

\* The head of the loop of b, whose broadcast is now r.
LEMMA LoopKeeps ==
    ASSUME ServedInv, NEW b \in Casters, NEW r, DOMAIN r = CastFields, Loop(b, r),
           ~r.disturbed => r.members = data_clients,
           \A c \in r.failed \cap Connections : link[c] # "up",
           b \in Connections => handler[b] \in {"receiving", "echoing"},
           b \in Connections /\ handler[b] = "receiving" => link[b] = "up",
           UNCHANGED <<link, stopping>>
    PROVE  ServedInv'
<1>1. ASSUME NEW outcome, NEW clients, Ended(b, r, outcome, clients),
             clients = data_clients \/ clients = Pruned(r),
             outcome = "raised" => r.disturbed,
             ~r.disturbed => r.members \ r.met = {}
      PROVE  ServedInv'
  <2> DEFINE e == [NoCast EXCEPT !.disturbed = r.disturbed, !.outcome = outcome,
                                 !.missed = r.members \ r.met]
             casts == [cast EXCEPT ![b] = e]
  <2>1. /\ ClientsBecome(clients, casts) /\ data_clients' = clients
        /\ handler' = IF b \in Connections THEN [handler EXCEPT ![b] = "receiving"] ELSE handler
    BY <1>1 DEF Ended, ClientsBecome
  <2>2. /\ DOMAIN e = CastFields /\ e.pc = "idle" /\ e.failed = {}
        /\ e.disturbed = r.disturbed /\ e.outcome = outcome /\ e.missed = r.members \ r.met
    BY DEF CastFields, NoCast
  <2> HIDE DEF e
  <2>3. casts[b] = e /\ \A q \in Casters : q # b => casts[q] = cast[q]
    BY DEF ServedInv
  <2> HIDE DEF casts
  <2>4. DOMAIN handler' = Connections /\ \A c \in Connections : c # b => handler'[c] = handler[c]
    BY <2>1 DEF ServedInv
  <2>5. ASSUME NEW q \in Casters PROVE CastWell(q, cast[q])'
    <3> DEFINE d == cast'[q]
    <3>1. DOMAIN casts[q] = CastFields
      BY <2>2, <2>3 DEF ServedInv, CastWell
    <3>2. /\ DOMAIN d = CastFields
          /\ d.pc = casts[q].pc /\ d.members = casts[q].members /\ d.failed = casts[q].failed
          /\ d.outcome = casts[q].outcome /\ d.missed = casts[q].missed
          /\ casts[q].pc # "sending" => d.disturbed = casts[q].disturbed
          /\ casts[q].pc = "sending" /\ clients # data_clients => d.disturbed
          /\ clients = data_clients => d.disturbed = casts[q].disturbed
      BY <2>1, <3>1, BecomeCasts
    <3> HIDE DEF d
    <3>3. CastFields' = CastFields
      BY DEF CastFields, NoCast
    <3>4. CASE q = b
      <4>1. /\ d.pc = "idle" /\ d.failed = {} /\ d.disturbed = r.disturbed
            /\ d.outcome = outcome /\ d.missed = r.members \ r.met
        BY <2>2, <2>3, <3>2, <3>4
      <4>2. d.pc = "idle" /\ ~d.disturbed => d.outcome # "raised" /\ d.missed = {}
        BY <1>1, <4>1
      <4> QED
        BY <3>2, <3>3, <4>1, <4>2 DEF CastWell, d
    <3>5. CASE q # b
      <4>1. casts[q] = cast[q] /\ CastWell(q, cast[q])
            /\ (cast[q].pc = "sending" /\ q \in Connections => handler'[q] = "echoing")
        BY <2>3, <2>4, <3>5 DEF ServedInv, CastWell
      <4>2. /\ d.pc = "sending" => /\ ~d.disturbed => d.members = data_clients'
                                   /\ q \in Connections => handler'[q] = "echoing"
            /\ \A c \in d.failed \cap Connections : link'[c] # "up"
            /\ d.pc = "idle" /\ ~d.disturbed => d.outcome # "raised" /\ d.missed = {}
        BY <2>1, <3>2, <4>1 DEF CastWell
      <4> QED
        BY <3>2, <3>3, <4>2 DEF CastWell, d
    <3> QED
      BY <3>4, <3>5
  <2>6. ASSUME NEW c \in Connections, Listens(c)', stopping'.pc # "stopped" PROVE c \in data_clients'
    <3>1. Listens(c)
      BY <2>4, <2>6 DEF Listens
    <3>2. c \in data_clients /\ c \notin r.failed
      BY <2>6, <3>1 DEF ServedInv, Listens
    <3> QED
      BY <1>1, <2>1, <3>2 DEF Pruned
  <2>7. DOMAIN cast' = Casters /\ DOMAIN link' = Connections
    BY <2>1 DEF ClientsBecome, ServedInv
  <2> QED
    BY <2>4, <2>5, <2>6, <2>7 DEF ServedInv
<1>2. CASE Cardinality(data_clients) # Cardinality(r.members)
  <2>1. Ended(b, r, "raised", data_clients)
    BY <1>2 DEF Loop
  <2>2. r.disturbed
    BY <1>2
  <2> QED
    BY <1>1, <2>1, <2>2
<1>3. CASE /\ Ahead(r) = {} \/ MaySkip(r)
           /\ Ended(b, r, "returned", Pruned(r))
  <2>1. ~r.disturbed => r.members \ r.met = {}
    BY <1>3 DEF Ahead, MaySkip
  <2> QED
    BY <1>1, <1>3, <2>1
<1>4. ASSUME NEW c,
             cast' = [cast EXCEPT ![b] =
                        [r EXCEPT !.pc = "sending", !.to = {c}, !.met = @ \cup {c},
                                  !.twice = @ \cup (r.met \cap {c})]],
             handler' = IF b \in Connections THEN [handler EXCEPT ![b] = "echoing"] ELSE handler,
             UNCHANGED data_clients
      PROVE  ServedInv'
  <2> DEFINE e == [r EXCEPT !.pc = "sending", !.to = {c}, !.met = @ \cup {c},
                            !.twice = @ \cup (r.met \cap {c})]
  <2>1. /\ DOMAIN e = CastFields /\ e.pc = "sending" /\ e.members = r.members
        /\ e.failed = r.failed /\ e.disturbed = r.disturbed
    BY Fields
  <2>2. DOMAIN cast' = Casters /\ cast'[b] = e /\ \A q \in Casters : q # b => cast'[q] = cast[q]
    BY <1>4 DEF ServedInv
  <2> HIDE DEF e
  <2>3. /\ DOMAIN handler' = Connections /\ DOMAIN link' = Connections
        /\ \A q \in Connections : handler'[q] = IF q = b THEN "echoing" ELSE handler[q]
    BY <1>4 DEF ServedInv
  <2>4. ASSUME NEW q \in Casters PROVE CastWell(q, cast[q])'
    <3>1. CastFields' = CastFields
      BY DEF CastFields, NoCast
    <3>2. CASE q = b
      <4>1. cast'[q] = e /\ (q \in Connections => handler'[q] = "echoing")
        BY <2>2, <2>3, <3>2
      <4> QED
        BY <1>4, <2>1, <3>1, <4>1 DEF CastWell
    <3>3. CASE q # b
      <4>1. cast'[q] = cast[q] /\ CastWell(q, cast[q])
            /\ (q \in Connections => handler'[q] = handler[q])
        BY <2>2, <2>3, <3>3 DEF ServedInv
      <4> QED
        BY <1>4, <3>1, <4>1 DEF CastWell
    <3> QED
      BY <3>2, <3>3
  <2>5. ASSUME NEW q \in Connections, Listens(q)', stopping'.pc # "stopped" PROVE q \in data_clients'
    <3>1. Listens(q)
      BY <2>3, <2>5 DEF Listens
    <3> QED
      BY <1>4, <2>5, <3>1 DEF ServedInv
  <2> QED
    BY <2>2, <2>3, <2>4, <2>5 DEF ServedInv
<1> QED
  BY <1>2, <1>3, <1>4 DEF Loop

\* However connections come, go and are pruned: a listener stays in the set until the
\* service stops, and a broadcast that no change of the set disturbed has been to every
\* client it began with.
THEOREM ListenersAreServed == WSSpec => []ListeningClientsServed
<1>1. WSInit => ServedInv
  <2> SUFFICES ASSUME WSInit PROVE ServedInv
    OBVIOUS
  <2>1. /\ DOMAIN NoCast = CastFields /\ NoCast.pc = "idle" /\ NoCast.failed = {}
        /\ NoCast.outcome = "none" /\ NoCast.missed = {}
    BY DEF CastFields, NoCast
  <2> QED
    BY <2>1 DEF WSInit, ServedInv, CastWell, Listens
<1>2. ServedInv /\ [WSNext]_wsVars => ServedInv'
  <2> SUFFICES ASSUME ServedInv, [WSNext]_wsVars PROVE ServedInv'
    OBVIOUS
  <2> USE DEF ServedInv, Listens
  <2>1. ASSUME NEW c \in Connections, Authenticate(c) \/ Refuse(c) \/ LinkLost(c) \/ TokenExpires(c)
        PROVE  ServedInv'
    <3>1. /\ UNCHANGED <<cast, data_clients, stopping>>
          /\ DOMAIN handler' = Connections /\ DOMAIN link' = Connections
          /\ \A q \in Connections : link[q] # "up" => link'[q] # "up"
          /\ \A q \in Connections : handler[q] = "echoing" => handler'[q] = handler[q]
          /\ \A q \in Connections : Listens(q)' => Listens(q)
      BY <2>1 DEF Authenticate, Refuse, LinkLost, TokenExpires
    <3> QED
      BY <3>1, OthersKeep
  <2>2. ASSUME NEW c \in Connections, Join(c) PROVE ServedInv'
    <3>1. /\ ClientsBecome(data_clients \cup {c}, cast) /\ data_clients' = data_clients \cup {c}
          /\ UNCHANGED <<link, stopping>> /\ DOMAIN handler' = Connections
          /\ \A q \in Connections : handler[q] = "echoing" => handler'[q] = handler[q]
          /\ \A q \in Connections : q # c => handler'[q] = handler[q]
      BY <2>2 DEF Join, ClientsBecome
    <3> QED
      BY <3>1, OthersKeep
  <2>3. ASSUME NEW c \in Connections, Disconnect(c) PROVE ServedInv'
    <3>1. /\ ClientsBecome(data_clients \ {c}, cast) /\ data_clients' = data_clients \ {c}
          /\ UNCHANGED <<link, stopping>> /\ DOMAIN handler' = Connections
          /\ \A q \in Connections : handler[q] = "echoing" => handler'[q] = handler[q]
          /\ \A q \in Connections : q # c => handler'[q] = handler[q]
          /\ handler'[c] = "ended"
      BY <2>3 DEF Disconnect, ClientsBecome
    <3> QED
      BY <3>1, OthersKeep
  <2>4. ASSUME NEW c \in Connections, StopCloses(c) PROVE ServedInv'
    <3>1. /\ UNCHANGED <<cast, data_clients, handler>> /\ DOMAIN link' = Connections
          /\ \A q \in Connections : link'[q] = "up" => link[q] = "up"
          /\ stopping.pc = "closing"
      BY <2>4 DEF StopCloses
    <3> QED
      BY <3>1, OthersKeep
  <2>5. ASSUME NEW b \in Casters, Broadcast(b) PROVE ServedInv'
    <3> DEFINE r == [NoCast EXCEPT !.members = data_clients]
    <3>1. DOMAIN r = CastFields /\ r.members = data_clients /\ r.failed = {}
      BY DEF CastFields, NoCast
    <3>2. Loop(b, r) /\ UNCHANGED <<link, stopping>>
          /\ (b \in Connections => handler[b] = "receiving" /\ link[b] = "up")
      BY <2>5 DEF Broadcast
    <3> HIDE DEF r
    <3> QED
      BY <3>1, <3>2, LoopKeeps
  <2>6. ASSUME NEW b \in Casters, SendReturns(b) PROVE ServedInv'
    <3>1. PICK failed \in SUBSET cast[b].to :
             /\ \A c \in cast[b].to : link[c] = "up" => c \notin failed
             /\ Loop(b, [cast[b] EXCEPT !.failed = @ \cup failed])
      BY <2>6 DEF SendReturns
    <3> DEFINE r == [cast[b] EXCEPT !.failed = @ \cup failed]
    <3>2. /\ CastWell(b, cast[b]) /\ cast[b].pc = "sending" /\ UNCHANGED <<link, stopping>>
      BY <2>6 DEF SendReturns
    <3>3. /\ DOMAIN r = CastFields /\ r.members = cast[b].members
          /\ r.disturbed = cast[b].disturbed /\ r.failed = cast[b].failed \cup failed
      BY <3>2, Fields DEF CastWell
    <3>4. Loop(b, r)
      BY <3>1
    <3> HIDE DEF r
    <3>5. /\ ~r.disturbed => r.members = data_clients
          /\ \A c \in r.failed \cap Connections : link[c] # "up"
          /\ b \in Connections => handler[b] = "echoing"
      BY <3>1, <3>2, <3>3 DEF CastWell
    <3> QED
      BY <3>2, <3>3, <3>4, <3>5, LoopKeeps
  <2>7. CASE CheckExpiry \/ CloseReturns
    <3>1. PICK q : Round(q)
      BY <2>7 DEF CheckExpiry, CloseReturns
    <3>2. link' = link \/ \E c : link' = [link EXCEPT ![c] = "closed"]
      BY <3>1 DEF Round
    <3>3. /\ UNCHANGED <<cast, data_clients, handler, stopping>>
          /\ DOMAIN link' = Connections
          /\ \A c \in Connections : link'[c] = "up" => link[c] = "up"
      BY <2>7, <3>2 DEF CheckExpiry, CloseReturns
    <3> QED
      BY <3>3, OthersKeep
  <2>10. CASE Stop
    <3>1. /\ UNCHANGED <<cast, data_clients, handler, link>>
          /\ stopping.pc = "no" /\ stopping'.pc = "closing"
      BY <2>10 DEF Stop
    <3> QED
      BY <3>1, OthersKeep
  <2>8. CASE StopClears
    <3>1. /\ ClientsBecome({}, cast) /\ data_clients' = {}
          /\ UNCHANGED <<link, handler>> /\ stopping'.pc = "stopped"
      BY <2>8 DEF StopClears, ClientsBecome
    <3> QED
      BY <3>1, OthersKeep
  <2>9. CASE UNCHANGED wsVars
    <3>1. UNCHANGED <<cast, data_clients, handler, link, stopping>>
      BY <2>9 DEF wsVars
    <3> QED
      BY <3>1, OthersKeep
  <2> QED
    BY <2>1, <2>2, <2>3, <2>4, <2>5, <2>6, <2>7, <2>8, <2>9, <2>10 DEF WSNext
<1>3. ServedInv => ListeningClientsServed
  BY DEF ServedInv, CastWell, Listens, ListeningClientsServed
<1> QED
  BY <1>1, <1>2, <1>3, PTL DEF WSSpec
=============================================================================
