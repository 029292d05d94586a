--------------------------- MODULE TokenGrantsProofs ---------------------------
(***************************************************************************)
(* Theorems about TokenGrants for any number of clients, codes, rows,      *)
(* families and concurrent requests.  One step lemma per subject shows     *)
(* that its inductive invariant survives every action; the theorems        *)
(* combine them.                                                           *)
(***************************************************************************)
EXTENDS TokenGrants, TLAPS

USE NoneAssumption, RefreshClientAssumption, LegacyCodeAssumption, DistinctAssumption
USE DEF codeTable, tokenTable, locals, history


\* Tables and locals keep their shape: in particular a request past validation
\* always carries the code or row it validated.
LEMMA ShapeStep == ShapeInv /\ [Next]_vars => ShapeInv'
<1> SUFFICES ASSUME ShapeInv, [Next]_vars PROVE ShapeInv'
  OBVIOUS
<1> USE DEF ShapeInv, TypeOK, RequestShape, UnsavedUnlinked, Step, Kind
<1>1. ASSUME NEW r \in Request, CodeGrantStep(r) PROVE ShapeInv'
  <2>1. ASSUME NEW cl \in Client, NEW c \in Code, NEW ok \in BOOLEAN, BeginCodeGrant(r, cl, c, ok) PROVE ShapeInv'
    BY <2>1 DEF BeginCodeGrant, Enter
  <2>2. CASE ValidateAuthorizationCode(r)
    BY <2>2 DEF ValidateAuthorizationCode, NoteRace, CodeAccepted
  <2>3. CASE RefuseAuthorizationCode(r)
    BY <2>3 DEF RefuseAuthorizationCode
  <2>4. CASE LookupAuthorizationCode(r)
    BY SMTT(30), <2>4 DEF LookupAuthorizationCode, Replay, Finish
  <2>5. CASE MarkAuthorizationCodeUsed(r)
    BY <2>5 DEF MarkAuthorizationCodeUsed
  <2>6. ASSUME NEW t \in Token, NEW f \in Family \cup {None}, CreateTokenFromCode(r, t, f) PROVE ShapeInv'
    BY <2>6 DEF CreateTokenFromCode, CodeTokenFamily, SaveToken, Finish
  <2> QED
    BY <1>1, <2>1, <2>2, <2>3, <2>4, <2>5, <2>6 DEF CodeGrantStep
<1>2. ASSUME NEW r \in Request, RefreshGrantStep(r) PROVE ShapeInv'
  <2>1. ASSUME NEW cl \in Client, NEW t \in Token, BeginRefreshGrant(r, cl, t) PROVE ShapeInv'
    BY <2>1 DEF BeginRefreshGrant, Enter
  <2>2. CASE ValidateRefreshToken(r)
    BY <2>2 DEF ValidateRefreshToken, Rotate, NoteRace
  <2>3. CASE RefuseRefreshToken(r)
    BY <2>3 DEF RefuseRefreshToken, Replay, Finish
  <2>4. ASSUME NEW f \in Family, NEW stored \in BOOLEAN, SetTokenFamily(r, f, stored) PROVE ShapeInv'
    BY <2>4 DEF SetTokenFamily, AdoptFamily
  <2>5. ASSUME NEW t \in Token, CreateTokenFromRefresh(r, t) PROVE ShapeInv'
    BY <2>5 DEF CreateTokenFromRefresh, SaveToken, Finish
  <2> QED
    BY <1>2, <2>1, <2>2, <2>3, <2>4, <2>5 DEF RefreshGrantStep
<1>3. ASSUME NEW r \in Request, RevocationStep(r) PROVE ShapeInv'
  <2>1. ASSUME NEW cl \in Client, NEW t \in Token, BeginRevoke(r, cl, t) PROVE ShapeInv'
    BY <2>1 DEF BeginRevoke, Enter
  <2>2. CASE ReadTokenToRevoke(r)
    BY <2>2 DEF ReadTokenToRevoke
  <2>3. CASE RevokeTokenRow(r)
    BY <2>3 DEF RevokeTokenRow, AfterRow, AfterRevocation, Finish
  <2>4. CASE RevokeTokenFamily(r)
    BY <2>4 DEF RevokeTokenFamily, AfterRevocation, Finish
  <2>5. CASE LoseCascade(r)
    BY <2>5 DEF LoseCascade, AfterRevocation, Finish
  <2> QED
    BY <1>3, <2>1, <2>2, <2>3, <2>4, <2>5 DEF RevocationStep
<1>4. ASSUME NEW r \in Request, Abort(r) PROVE ShapeInv'
  BY <1>4 DEF Abort, Finish
<1>5. CASE Environment
  <2>1. ASSUME NEW c \in Code, NEW cl \in Client, NEW f \in Family, CreateAuthorizationCode(c, cl, f) PROVE ShapeInv'
    BY <2>1 DEF CreateAuthorizationCode
  <2>2. ASSUME NEW c \in Code, ExpireCode(c) PROVE ShapeInv'
    BY <2>2 DEF ExpireCode
  <2>3. ASSUME NEW t \in Token, NEW cl \in Client, NEW refresh \in BOOLEAN, CreateTokenFromOtherGrant(t, cl, refresh) PROVE ShapeInv'
    BY <2>3 DEF CreateTokenFromOtherGrant, SaveToken
  <2>4. ASSUME NEW rows, AdminRevoke(rows) PROVE ShapeInv'
    BY <2>4 DEF AdminRevoke
  <2>5. CASE \E t \in Token, cl \in Client, refresh \in BOOLEAN : CreateTokenFromOtherGrant(t, cl, refresh)
    BY <2>3, <2>5
  <2> QED
    BY <1>5, <2>1, <2>2, <2>4, <2>5 DEF Environment
<1>6. CASE UNCHANGED vars
  BY <1>6 DEF vars
<1> QED
  BY <1>1, <1>2, <1>3, <1>4, <1>5, <1>6 DEF Next

\* A grant is burned before a token is minted from it, and while nobody races
\* for it the one request that holds it is the only one that can mint.
LEMMA SingleUseStep == ShapeInv /\ SingleUseInv /\ [Next]_vars => SingleUseInv'
<1> SUFFICES ASSUME ShapeInv, SingleUseInv, [Next]_vars PROVE SingleUseInv'
  OBVIOUS
<1> USE DEF ShapeInv, TypeOK, RequestShape, UnsavedUnlinked, SingleUseInv, MintAfterBurn, MintedFromBurned, UnracedHeldOnce, SingleUseUnlessRaced, Holds, Minting, Children
<1>1. ASSUME NEW r \in Request, CodeGrantStep(r) PROVE SingleUseInv'
  <2>1. ASSUME NEW cl \in Client, NEW c \in Code, NEW ok \in BOOLEAN, BeginCodeGrant(r, cl, c, ok) PROVE SingleUseInv'
    BY <2>1 DEF BeginCodeGrant, Enter
  <2>2. CASE ValidateAuthorizationCode(r)
    BY <2>2 DEF ValidateAuthorizationCode, NoteRace, CodeAccepted
  <2>3. CASE RefuseAuthorizationCode(r)
    BY <2>3 DEF RefuseAuthorizationCode
  <2>4. CASE LookupAuthorizationCode(r)
    BY <2>4 DEF LookupAuthorizationCode, Replay, Finish
  <2>5. CASE MarkAuthorizationCodeUsed(r)
    BY <2>5 DEF MarkAuthorizationCodeUsed
  <2>6. ASSUME NEW t \in Token, NEW f \in Family \cup {None}, CreateTokenFromCode(r, t, f) PROVE SingleUseInv'
    BY <2>6 DEF CreateTokenFromCode, CodeTokenFamily, SaveToken, Finish
  <2> QED
    BY <1>1, <2>1, <2>2, <2>3, <2>4, <2>5, <2>6 DEF CodeGrantStep
<1>2. ASSUME NEW r \in Request, RefreshGrantStep(r) PROVE SingleUseInv'
  <2>1. ASSUME NEW cl \in Client, NEW t \in Token, BeginRefreshGrant(r, cl, t) PROVE SingleUseInv'
    BY <2>1 DEF BeginRefreshGrant, Enter
  <2>2. CASE ValidateRefreshToken(r)
    BY <2>2 DEF ValidateRefreshToken, Rotate, NoteRace
  <2>3. CASE RefuseRefreshToken(r)
    BY <2>3 DEF RefuseRefreshToken, Replay, Finish
  <2>4. ASSUME NEW f \in Family, NEW stored \in BOOLEAN, SetTokenFamily(r, f, stored) PROVE SingleUseInv'
    BY <2>4 DEF SetTokenFamily, AdoptFamily
  <2>5. ASSUME NEW t \in Token, CreateTokenFromRefresh(r, t) PROVE SingleUseInv'
    BY <2>5 DEF CreateTokenFromRefresh, SaveToken, Finish
  <2> QED
    BY <1>2, <2>1, <2>2, <2>3, <2>4, <2>5 DEF RefreshGrantStep
<1>3. ASSUME NEW r \in Request, RevocationStep(r) PROVE SingleUseInv'
  <2>1. ASSUME NEW cl \in Client, NEW t \in Token, BeginRevoke(r, cl, t) PROVE SingleUseInv'
    BY <2>1 DEF BeginRevoke, Enter
  <2>2. CASE ReadTokenToRevoke(r)
    BY <2>2 DEF ReadTokenToRevoke
  <2>3. CASE RevokeTokenRow(r)
    BY <2>3 DEF RevokeTokenRow, AfterRow, AfterRevocation, Finish
  <2>4. CASE RevokeTokenFamily(r)
    BY <2>4 DEF RevokeTokenFamily, AfterRevocation, Finish
  <2>5. CASE LoseCascade(r)
    BY <2>5 DEF LoseCascade, AfterRevocation, Finish
  <2> QED
    BY <1>3, <2>1, <2>2, <2>3, <2>4, <2>5 DEF RevocationStep
<1>4. ASSUME NEW r \in Request, Abort(r) PROVE SingleUseInv'
  BY <1>4 DEF Abort, Finish
<1>5. CASE Environment
  <2>1. ASSUME NEW c \in Code, NEW cl \in Client, NEW f \in Family, CreateAuthorizationCode(c, cl, f) PROVE SingleUseInv'
    BY <2>1 DEF CreateAuthorizationCode
  <2>2. ASSUME NEW c \in Code, ExpireCode(c) PROVE SingleUseInv'
    BY <2>2 DEF ExpireCode
  <2>3. ASSUME NEW t \in Token, NEW cl \in Client, NEW refresh \in BOOLEAN, CreateTokenFromOtherGrant(t, cl, refresh) PROVE SingleUseInv'
    BY <2>3 DEF CreateTokenFromOtherGrant, SaveToken
  <2>4. ASSUME NEW rows, AdminRevoke(rows) PROVE SingleUseInv'
    BY <2>4 DEF AdminRevoke
  <2>5. CASE \E t \in Token, cl \in Client, refresh \in BOOLEAN : CreateTokenFromOtherGrant(t, cl, refresh)
    BY <2>3, <2>5
  <2> QED
    BY <1>5, <2>1, <2>2, <2>4, <2>5 DEF Environment
<1>6. CASE UNCHANGED vars
  BY <1>6 DEF vars
<1> QED
  BY <1>1, <1>2, <1>3, <1>4, <1>5, <1>6 DEF Next

\* A sealed family is never entered again: its code is burned, its rows are
\* revoked, and every other family a step brings in is fresh.
LEMMA FamilyStep == ShapeInv /\ MintAfterBurn /\ FamilyInv /\ [Next]_vars => FamilyInv'
<1> SUFFICES ASSUME ShapeInv, MintAfterBurn, FamilyInv, [Next]_vars PROVE FamilyInv'
  OBVIOUS
<1> USE DEF ShapeInv, TypeOK, RequestShape, UnsavedUnlinked, MintAfterBurn, FamilyInv, FamilyInUse, FamilyOfOneCode, FreshCodeFamily, SealedFamilyDead, HoldsFamily, Minting
<1>1. ASSUME NEW r \in Request, CodeGrantStep(r) PROVE FamilyInv'
  <2>1. ASSUME NEW cl \in Client, NEW c \in Code, NEW ok \in BOOLEAN, BeginCodeGrant(r, cl, c, ok) PROVE FamilyInv'
    BY <2>1 DEF BeginCodeGrant, Enter
  <2>2. CASE ValidateAuthorizationCode(r)
    BY <2>2 DEF ValidateAuthorizationCode, NoteRace, CodeAccepted
  <2>3. CASE RefuseAuthorizationCode(r)
    BY <2>3 DEF RefuseAuthorizationCode
  <2>4. CASE LookupAuthorizationCode(r)
    BY <2>4 DEF LookupAuthorizationCode, Replay, Finish
  <2>5. CASE MarkAuthorizationCodeUsed(r)
    BY <2>5 DEF MarkAuthorizationCodeUsed
  <2>6. ASSUME NEW t \in Token, NEW f \in Family \cup {None}, CreateTokenFromCode(r, t, f) PROVE FamilyInv'
    BY <2>6 DEF CreateTokenFromCode, CodeTokenFamily, SaveToken, Finish
  <2> QED
    BY <1>1, <2>1, <2>2, <2>3, <2>4, <2>5, <2>6 DEF CodeGrantStep
<1>2. ASSUME NEW r \in Request, RefreshGrantStep(r) PROVE FamilyInv'
  <2>1. ASSUME NEW cl \in Client, NEW t \in Token, BeginRefreshGrant(r, cl, t) PROVE FamilyInv'
    BY <2>1 DEF BeginRefreshGrant, Enter
  <2>2. CASE ValidateRefreshToken(r)
    BY <2>2 DEF ValidateRefreshToken, Rotate, NoteRace
  <2>3. CASE RefuseRefreshToken(r)
    BY <2>3 DEF RefuseRefreshToken, Replay, Finish
  <2>4. ASSUME NEW f \in Family, NEW stored \in BOOLEAN, SetTokenFamily(r, f, stored) PROVE FamilyInv'
    BY <2>4 DEF SetTokenFamily, AdoptFamily
  <2>5. ASSUME NEW t \in Token, CreateTokenFromRefresh(r, t) PROVE FamilyInv'
    BY <2>5 DEF CreateTokenFromRefresh, SaveToken, Finish
  <2> QED
    BY <1>2, <2>1, <2>2, <2>3, <2>4, <2>5 DEF RefreshGrantStep
<1>3. ASSUME NEW r \in Request, RevocationStep(r) PROVE FamilyInv'
  <2>1. ASSUME NEW cl \in Client, NEW t \in Token, BeginRevoke(r, cl, t) PROVE FamilyInv'
    BY <2>1 DEF BeginRevoke, Enter
  <2>2. CASE ReadTokenToRevoke(r)
    BY <2>2 DEF ReadTokenToRevoke
  <2>3. CASE RevokeTokenRow(r)
    BY <2>3 DEF RevokeTokenRow, AfterRow, AfterRevocation, Finish
  <2>4. CASE RevokeTokenFamily(r)
    BY <2>4 DEF RevokeTokenFamily, AfterRevocation, Finish
  <2>5. CASE LoseCascade(r)
    BY <2>5 DEF LoseCascade, AfterRevocation, Finish
  <2> QED
    BY <1>3, <2>1, <2>2, <2>3, <2>4, <2>5 DEF RevocationStep
<1>4. ASSUME NEW r \in Request, Abort(r) PROVE FamilyInv'
  BY <1>4 DEF Abort, Finish
<1>5. CASE Environment
  <2>1. ASSUME NEW c \in Code, NEW cl \in Client, NEW f \in Family, CreateAuthorizationCode(c, cl, f) PROVE FamilyInv'
    BY <2>1 DEF CreateAuthorizationCode
  <2>2. ASSUME NEW c \in Code, ExpireCode(c) PROVE FamilyInv'
    BY <2>2 DEF ExpireCode
  <2>3. ASSUME NEW t \in Token, NEW cl \in Client, NEW refresh \in BOOLEAN, CreateTokenFromOtherGrant(t, cl, refresh) PROVE FamilyInv'
    BY <2>3 DEF CreateTokenFromOtherGrant, SaveToken
  <2>4. ASSUME NEW rows, AdminRevoke(rows) PROVE FamilyInv'
    BY <2>4 DEF AdminRevoke
  <2>5. CASE \E t \in Token, cl \in Client, refresh \in BOOLEAN : CreateTokenFromOtherGrant(t, cl, refresh)
    BY <2>3, <2>5
  <2> QED
    BY <1>5, <2>1, <2>2, <2>4, <2>5 DEF Environment
<1>6. CASE UNCHANGED vars
  BY <1>6 DEF vars
<1> QED
  BY <1>1, <1>2, <1>3, <1>4, <1>5, <1>6 DEF Next

\* The ownership checks tie a request, and the row it mints, to the client of
\* what was presented; families are therefore of one client.
LEMMA OwnershipStep == ShapeInv /\ FamilyInUse /\ OwnershipInv /\ [Next]_vars => OwnershipInv'
<1> SUFFICES ASSUME ShapeInv, FamilyInUse, OwnershipInv, [Next]_vars PROVE OwnershipInv'
  OBVIOUS
<1> USE DEF ShapeInv, TypeOK, RequestShape, UnsavedUnlinked, FamilyInUse, OwnershipInv, CallerOwnsGrant, ClientBinding, FamilyOfOneClient, Claims, HoldsFamily, Minting
<1>1. ASSUME NEW r \in Request, CodeGrantStep(r) PROVE OwnershipInv'
  <2>1. ASSUME NEW cl \in Client, NEW c \in Code, NEW ok \in BOOLEAN, BeginCodeGrant(r, cl, c, ok) PROVE OwnershipInv'
    BY <2>1 DEF BeginCodeGrant, Enter
  <2>2. CASE ValidateAuthorizationCode(r)
    BY <2>2 DEF ValidateAuthorizationCode, NoteRace, CodeAccepted
  <2>3. CASE RefuseAuthorizationCode(r)
    BY <2>3 DEF RefuseAuthorizationCode
  <2>4. CASE LookupAuthorizationCode(r)
    <3>1. CallerOwnsGrant'
      BY <2>4 DEF LookupAuthorizationCode, Replay, Finish
    <3>2. ClientBinding'
      BY <2>4 DEF LookupAuthorizationCode, Replay, Finish
    <3>3. FamilyOfOneClient'
      <4>1. ASSUME NEW f \in Family, NEW a \in Client, Claims(a, f)' PROVE Claims(a, f)
        BY <2>4, <4>1 DEF LookupAuthorizationCode, Replay, Finish
      <4> QED
        BY <4>1
    <3> QED
      BY <3>1, <3>2, <3>3
  <2>5. CASE MarkAuthorizationCodeUsed(r)
    BY <2>5 DEF MarkAuthorizationCodeUsed
  <2>6. ASSUME NEW t \in Token, NEW f \in Family \cup {None}, CreateTokenFromCode(r, t, f) PROVE OwnershipInv'
    BY SMTT(30), <2>6 DEF CreateTokenFromCode, CodeTokenFamily, SaveToken, Finish
  <2> QED
    BY <1>1, <2>1, <2>2, <2>3, <2>4, <2>5, <2>6 DEF CodeGrantStep
<1>2. ASSUME NEW r \in Request, RefreshGrantStep(r) PROVE OwnershipInv'
  <2>1. ASSUME NEW cl \in Client, NEW t \in Token, BeginRefreshGrant(r, cl, t) PROVE OwnershipInv'
    BY <2>1 DEF BeginRefreshGrant, Enter
  <2>2. CASE ValidateRefreshToken(r)
    BY <2>2 DEF ValidateRefreshToken, Rotate, NoteRace
  <2>3. CASE RefuseRefreshToken(r)
    BY <2>3 DEF RefuseRefreshToken, Replay, Finish
  <2>4. ASSUME NEW f \in Family, NEW stored \in BOOLEAN, SetTokenFamily(r, f, stored) PROVE OwnershipInv'
    BY <2>4 DEF SetTokenFamily, AdoptFamily
  <2>5. ASSUME NEW t \in Token, CreateTokenFromRefresh(r, t) PROVE OwnershipInv'
    BY <2>5 DEF CreateTokenFromRefresh, SaveToken, Finish
  <2> QED
    BY <1>2, <2>1, <2>2, <2>3, <2>4, <2>5 DEF RefreshGrantStep
<1>3. ASSUME NEW r \in Request, RevocationStep(r) PROVE OwnershipInv'
  <2>1. ASSUME NEW cl \in Client, NEW t \in Token, BeginRevoke(r, cl, t) PROVE OwnershipInv'
    BY <2>1 DEF BeginRevoke, Enter
  <2>2. CASE ReadTokenToRevoke(r)
    BY <2>2 DEF ReadTokenToRevoke
  <2>3. CASE RevokeTokenRow(r)
    <3>1. CallerOwnsGrant'
      BY <2>3 DEF RevokeTokenRow, AfterRow, AfterRevocation, Finish
    <3>2. ClientBinding'
      BY <2>3 DEF RevokeTokenRow, AfterRow, AfterRevocation, Finish
    <3>3. FamilyOfOneClient'
      <4>1. ASSUME NEW f \in Family, NEW a \in Client, Claims(a, f)' PROVE Claims(a, f)
        BY <2>3, <4>1 DEF RevokeTokenRow, AfterRow, AfterRevocation, Finish
      <4> QED
        BY <4>1
    <3> QED
      BY <3>1, <3>2, <3>3
  <2>4. CASE RevokeTokenFamily(r)
    <3>1. CallerOwnsGrant'
      BY <2>4 DEF RevokeTokenFamily, AfterRevocation, Finish
    <3>2. ClientBinding'
      BY <2>4 DEF RevokeTokenFamily, AfterRevocation, Finish
    <3>3. FamilyOfOneClient'
      <4>1. ASSUME NEW f \in Family, NEW a \in Client, Claims(a, f)' PROVE Claims(a, f)
        BY <2>4, <4>1 DEF RevokeTokenFamily, AfterRevocation, Finish
      <4> QED
        BY <4>1
    <3> QED
      BY <3>1, <3>2, <3>3
  <2>5. CASE LoseCascade(r)
    BY <2>5 DEF LoseCascade, AfterRevocation, Finish
  <2> QED
    BY <1>3, <2>1, <2>2, <2>3, <2>4, <2>5 DEF RevocationStep
<1>4. ASSUME NEW r \in Request, Abort(r) PROVE OwnershipInv'
  BY <1>4 DEF Abort, Finish
<1>5. CASE Environment
  <2>1. ASSUME NEW c \in Code, NEW cl \in Client, NEW f \in Family, CreateAuthorizationCode(c, cl, f) PROVE OwnershipInv'
    BY <2>1 DEF CreateAuthorizationCode
  <2>2. ASSUME NEW c \in Code, ExpireCode(c) PROVE OwnershipInv'
    BY <2>2 DEF ExpireCode
  <2>3. ASSUME NEW t \in Token, NEW cl \in Client, NEW refresh \in BOOLEAN, CreateTokenFromOtherGrant(t, cl, refresh) PROVE OwnershipInv'
    BY <2>3 DEF CreateTokenFromOtherGrant, SaveToken
  <2>4. ASSUME NEW rows, AdminRevoke(rows) PROVE OwnershipInv'
    BY <2>4 DEF AdminRevoke
  <2>5. CASE \E t \in Token, cl \in Client, refresh \in BOOLEAN : CreateTokenFromOtherGrant(t, cl, refresh)
    BY <2>3, <2>5
  <2> QED
    BY <1>5, <2>1, <2>2, <2>4, <2>5 DEF Environment
<1>6. CASE UNCHANGED vars
  BY <1>6 DEF vars
<1> QED
  BY <1>1, <1>2, <1>3, <1>4, <1>5, <1>6 DEF Next

\* Rotation hands the family on unchanged.
LEMMA LineageStep == ShapeInv /\ FamilyInUse /\ CallerOwnsGrant /\ LineageInv /\ [Next]_vars => LineageInv'
<1> SUFFICES ASSUME ShapeInv, FamilyInUse, CallerOwnsGrant, LineageInv, [Next]_vars PROVE LineageInv'
  OBVIOUS
<1> USE DEF ShapeInv, TypeOK, RequestShape, UnsavedUnlinked, FamilyInUse, CallerOwnsGrant, LineageInv, RotationKeepsFamily, LineageKeepsFamily, Minting
<1>1. ASSUME NEW r \in Request, CodeGrantStep(r) PROVE LineageInv'
  <2>1. ASSUME NEW cl \in Client, NEW c \in Code, NEW ok \in BOOLEAN, BeginCodeGrant(r, cl, c, ok) PROVE LineageInv'
    BY <2>1 DEF BeginCodeGrant, Enter
  <2>2. CASE ValidateAuthorizationCode(r)
    BY <2>2 DEF ValidateAuthorizationCode, NoteRace, CodeAccepted
  <2>3. CASE RefuseAuthorizationCode(r)
    BY <2>3 DEF RefuseAuthorizationCode
  <2>4. CASE LookupAuthorizationCode(r)
    BY <2>4 DEF LookupAuthorizationCode, Replay, Finish
  <2>5. CASE MarkAuthorizationCodeUsed(r)
    BY <2>5 DEF MarkAuthorizationCodeUsed
  <2>6. ASSUME NEW t \in Token, NEW f \in Family \cup {None}, CreateTokenFromCode(r, t, f) PROVE LineageInv'
    BY <2>6 DEF CreateTokenFromCode, CodeTokenFamily, SaveToken, Finish
  <2> QED
    BY <1>1, <2>1, <2>2, <2>3, <2>4, <2>5, <2>6 DEF CodeGrantStep
<1>2. ASSUME NEW r \in Request, RefreshGrantStep(r) PROVE LineageInv'
  <2>1. ASSUME NEW cl \in Client, NEW t \in Token, BeginRefreshGrant(r, cl, t) PROVE LineageInv'
    BY <2>1 DEF BeginRefreshGrant, Enter
  <2>2. CASE ValidateRefreshToken(r)
    BY <2>2 DEF ValidateRefreshToken, Rotate, NoteRace
  <2>3. CASE RefuseRefreshToken(r)
    BY <2>3 DEF RefuseRefreshToken, Replay, Finish
  <2>4. ASSUME NEW f \in Family, NEW stored \in BOOLEAN, SetTokenFamily(r, f, stored) PROVE LineageInv'
    BY <2>4 DEF SetTokenFamily, AdoptFamily
  <2>5. ASSUME NEW t \in Token, CreateTokenFromRefresh(r, t) PROVE LineageInv'
    BY <2>5 DEF CreateTokenFromRefresh, SaveToken, Finish
  <2> QED
    BY <1>2, <2>1, <2>2, <2>3, <2>4, <2>5 DEF RefreshGrantStep
<1>3. ASSUME NEW r \in Request, RevocationStep(r) PROVE LineageInv'
  <2>1. ASSUME NEW cl \in Client, NEW t \in Token, BeginRevoke(r, cl, t) PROVE LineageInv'
    BY <2>1 DEF BeginRevoke, Enter
  <2>2. CASE ReadTokenToRevoke(r)
    BY <2>2 DEF ReadTokenToRevoke
  <2>3. CASE RevokeTokenRow(r)
    BY <2>3 DEF RevokeTokenRow, AfterRow, AfterRevocation, Finish
  <2>4. CASE RevokeTokenFamily(r)
    BY <2>4 DEF RevokeTokenFamily, AfterRevocation, Finish
  <2>5. CASE LoseCascade(r)
    BY <2>5 DEF LoseCascade, AfterRevocation, Finish
  <2> QED
    BY <1>3, <2>1, <2>2, <2>3, <2>4, <2>5 DEF RevocationStep
<1>4. ASSUME NEW r \in Request, Abort(r) PROVE LineageInv'
  BY <1>4 DEF Abort, Finish
<1>5. CASE Environment
  <2>1. ASSUME NEW c \in Code, NEW cl \in Client, NEW f \in Family, CreateAuthorizationCode(c, cl, f) PROVE LineageInv'
    BY <2>1 DEF CreateAuthorizationCode
  <2>2. ASSUME NEW c \in Code, ExpireCode(c) PROVE LineageInv'
    BY <2>2 DEF ExpireCode
  <2>3. ASSUME NEW t \in Token, NEW cl \in Client, NEW refresh \in BOOLEAN, CreateTokenFromOtherGrant(t, cl, refresh) PROVE LineageInv'
    BY <2>3 DEF CreateTokenFromOtherGrant, SaveToken
  <2>4. ASSUME NEW rows, AdminRevoke(rows) PROVE LineageInv'
    BY <2>4 DEF AdminRevoke
  <2>5. CASE \E t \in Token, cl \in Client, refresh \in BOOLEAN : CreateTokenFromOtherGrant(t, cl, refresh)
    BY <2>3, <2>5
  <2> QED
    BY <1>5, <2>1, <2>2, <2>4, <2>5 DEF Environment
<1>6. CASE UNCHANGED vars
  BY <1>6 DEF vars
<1> QED
  BY <1>1, <1>2, <1>3, <1>4, <1>5, <1>6 DEF Next

\* All inductive invariants hold in the initial state.
LEMMA InitInv ==
    Init => ShapeInv /\ SingleUseInv /\ FamilyInv /\ OwnershipInv /\ LineageInv
<1> SUFFICES ASSUME Init
             PROVE ShapeInv /\ SingleUseInv /\ FamilyInv /\ OwnershipInv /\ LineageInv
  OBVIOUS
<1> USE DEF Init
<1>1. ShapeInv
  BY DEF ShapeInv, TypeOK, RequestShape, UnsavedUnlinked, Step, Kind
<1>2. SingleUseInv
  BY DEF SingleUseInv, MintAfterBurn, MintedFromBurned, UnracedHeldOnce,
         SingleUseUnlessRaced, Holds, Children
<1>3. FamilyInv
  BY DEF FamilyInv, FamilyInUse, FamilyOfOneCode, FreshCodeFamily, SealedFamilyDead
<1>4. OwnershipInv
  BY DEF OwnershipInv, CallerOwnsGrant, ClientBinding, FamilyOfOneClient, Claims,
         HoldsFamily, Minting
<1>5. LineageInv
  BY DEF LineageInv, RotationKeepsFamily, LineageKeepsFamily
<1> QED
  BY <1>1, <1>2, <1>3, <1>4, <1>5

\* The conjunction of the inductive invariants is an invariant.
LEMMA GrantInvariant ==
    Spec => [](ShapeInv /\ SingleUseInv /\ FamilyInv /\ OwnershipInv /\ LineageInv)
<1> DEFINE Inv == ShapeInv /\ SingleUseInv /\ FamilyInv /\ OwnershipInv /\ LineageInv
<1>1. Init => Inv
  BY InitInv
<1>2. Inv /\ [Next]_vars => Inv'
  BY ShapeStep, SingleUseStep, FamilyStep, OwnershipStep, LineageStep
     DEF SingleUseInv, FamilyInv, OwnershipInv
<1> QED
  BY <1>1, <1>2, PTL DEF Spec

\* Every reachable state of the grant core has well-formed tables and requests.
THEOREM TypeCorrect == Spec => []TypeOK
BY GrantInvariant, PTL DEF ShapeInv

\* A code or refresh token yields one token at most unless two requests were
\* past its validation together, however many requests, crashes and lost
\* statements there are.
THEOREM SingleUse == Spec => []SingleUseUnlessRaced
BY GrantInvariant, PTL DEF SingleUseInv

\* A code or refresh token that has yielded a token is burned, wherever the
\* request that minted it was interrupted.
THEOREM BurnedBeforeMinted == Spec => []MintedFromBurned
BY GrantInvariant, PTL DEF SingleUseInv

\* A family cascaded while no request held it is dead for ever.
THEOREM SealedForEver == Spec => []SealedFamilyDead
BY GrantInvariant, PTL DEF FamilyInv

\* A row belongs to the client its root code was issued to.
THEOREM RowsStayWithClient == Spec => []ClientBinding
BY GrantInvariant, PTL DEF OwnershipInv

\* A refreshable row is in the family of its root code.
THEOREM RowsStayInFamily == Spec => []LineageKeepsFamily
BY GrantInvariant, PTL DEF LineageInv

\* No step writes revoked or used back to false.
THEOREM NothingIsUnrevoked == Spec => RevocationMonotone
<1>1. [Next]_vars => [revoked \subseteq revoked' /\ used \subseteq used']_vars
  <2> SUFFICES ASSUME [Next]_vars
               PROVE  revoked \subseteq revoked' /\ used \subseteq used'
    OBVIOUS
  <2>1. ASSUME NEW r \in Request, CodeGrantStep(r) PROVE revoked \subseteq revoked' /\ used \subseteq used'
    <3>1. ASSUME NEW cl \in Client, NEW c \in Code, NEW ok \in BOOLEAN, BeginCodeGrant(r, cl, c, ok) PROVE revoked \subseteq revoked' /\ used \subseteq used'
      BY <3>1 DEF BeginCodeGrant
    <3>2. CASE ValidateAuthorizationCode(r)
      BY <3>2 DEF ValidateAuthorizationCode
    <3>3. CASE RefuseAuthorizationCode(r)
      BY <3>3 DEF RefuseAuthorizationCode
    <3>4. CASE LookupAuthorizationCode(r)
      BY <3>4 DEF LookupAuthorizationCode
    <3>5. CASE MarkAuthorizationCodeUsed(r)
      BY <3>5 DEF MarkAuthorizationCodeUsed
    <3>6. ASSUME NEW t \in Token, NEW f \in Family \cup {None}, CreateTokenFromCode(r, t, f) PROVE revoked \subseteq revoked' /\ used \subseteq used'
      BY <3>6 DEF CreateTokenFromCode, SaveToken
    <3> QED
      BY <2>1, <3>1, <3>2, <3>3, <3>4, <3>5, <3>6 DEF CodeGrantStep
  <2>2. ASSUME NEW r \in Request, RefreshGrantStep(r) PROVE revoked \subseteq revoked' /\ used \subseteq used'
    <3>1. ASSUME NEW cl \in Client, NEW t \in Token, BeginRefreshGrant(r, cl, t) PROVE revoked \subseteq revoked' /\ used \subseteq used'
      BY <3>1 DEF BeginRefreshGrant
    <3>2. CASE ValidateRefreshToken(r)
      BY <3>2 DEF ValidateRefreshToken, Rotate
    <3>3. CASE RefuseRefreshToken(r)
      BY <3>3 DEF RefuseRefreshToken
    <3>4. ASSUME NEW f \in Family, NEW stored \in BOOLEAN, SetTokenFamily(r, f, stored) PROVE revoked \subseteq revoked' /\ used \subseteq used'
      BY <3>4 DEF SetTokenFamily, AdoptFamily
    <3>5. ASSUME NEW t \in Token, CreateTokenFromRefresh(r, t) PROVE revoked \subseteq revoked' /\ used \subseteq used'
      BY <3>5 DEF CreateTokenFromRefresh, SaveToken
    <3> QED
      BY <2>2, <3>1, <3>2, <3>3, <3>4, <3>5 DEF RefreshGrantStep
  <2>3. ASSUME NEW r \in Request, RevocationStep(r) PROVE revoked \subseteq revoked' /\ used \subseteq used'
    <3>1. ASSUME NEW cl \in Client, NEW t \in Token, BeginRevoke(r, cl, t) PROVE revoked \subseteq revoked' /\ used \subseteq used'
      BY <3>1 DEF BeginRevoke
    <3>2. CASE ReadTokenToRevoke(r)
      BY <3>2 DEF ReadTokenToRevoke
    <3>3. CASE RevokeTokenRow(r)
      BY <3>3 DEF RevokeTokenRow
    <3>4. CASE RevokeTokenFamily(r)
      BY <3>4 DEF RevokeTokenFamily
    <3>5. CASE LoseCascade(r)
      BY <3>5 DEF LoseCascade
    <3> QED
      BY <2>3, <3>1, <3>2, <3>3, <3>4, <3>5 DEF RevocationStep
  <2>4. ASSUME NEW r \in Request, Abort(r) PROVE revoked \subseteq revoked' /\ used \subseteq used'
    BY <2>4 DEF Abort
  <2>5. CASE Environment
    <3>1. ASSUME NEW c \in Code, NEW cl \in Client, NEW f \in Family, CreateAuthorizationCode(c, cl, f) PROVE revoked \subseteq revoked' /\ used \subseteq used'
      BY <3>1 DEF CreateAuthorizationCode
    <3>2. ASSUME NEW c \in Code, ExpireCode(c) PROVE revoked \subseteq revoked' /\ used \subseteq used'
      BY <3>2 DEF ExpireCode
    <3>3. ASSUME NEW t \in Token, NEW cl \in Client, NEW refresh \in BOOLEAN, CreateTokenFromOtherGrant(t, cl, refresh) PROVE revoked \subseteq revoked' /\ used \subseteq used'
      BY <3>3 DEF CreateTokenFromOtherGrant, SaveToken
    <3>4. ASSUME NEW rows, AdminRevoke(rows) PROVE revoked \subseteq revoked' /\ used \subseteq used'
      BY <3>4 DEF AdminRevoke
    <3> QED
      BY <2>5, <3>1, <3>2, <3>3, <3>4 DEF Environment
  <2>6. CASE UNCHANGED vars
    BY <2>6 DEF vars
  <2> QED
    BY <2>1, <2>2, <2>3, <2>4, <2>5, <2>6 DEF Next
<1>2. QED
  BY <1>1, PTL DEF Spec, RevocationMonotone

\* /oauth/revoke, its cascade included, revokes rows of its caller only.
THEOREM RevocationStaysWithCaller == Spec => RevokeOwnOnly
<1> DEFINE Inv == ShapeInv /\ OwnershipInv
           Own == \A r \in Request : kind[r] = "revoke" /\ pc'[r] # pc[r] =>
                    \A t \in revoked' \ revoked : tokenClient[t] = caller[r]
<1>1. Inv /\ [Next]_vars => [Own]_vars
  <2> SUFFICES ASSUME Inv, [Next]_vars, NEW r \in Request,
                      kind[r] = "revoke", pc'[r] # pc[r],
                      NEW t \in revoked' \ revoked
               PROVE  tokenClient[t] = caller[r]
    OBVIOUS
  <2> USE DEF ShapeInv, TypeOK, RequestShape, Step, OwnershipInv, CallerOwnsGrant, Minting
  <2>1. \/ \E s \in Request : \/ RevokeTokenRow(s) \/ RevokeTokenFamily(s)
        \/ revoked' = revoked
        \/ pc' = pc
    <3>1. ASSUME NEW s \in Request, CodeGrantStep(s) PROVE revoked' = revoked
      BY <3>1 DEF CodeGrantStep, BeginCodeGrant, ValidateAuthorizationCode,
                  RefuseAuthorizationCode, LookupAuthorizationCode,
                  MarkAuthorizationCodeUsed, CreateTokenFromCode, SaveToken
    <3>2. ASSUME NEW s \in Request, RefreshGrantStep(s) PROVE revoked' = revoked
      BY <3>2 DEF RefreshGrantStep, BeginRefreshGrant, ValidateRefreshToken, Rotate,
                  RefuseRefreshToken, SetTokenFamily, CreateTokenFromRefresh, SaveToken
    <3>3. ASSUME NEW s \in Request, RevocationStep(s)
          PROVE  RevokeTokenRow(s) \/ RevokeTokenFamily(s) \/ revoked' = revoked
      BY <3>3 DEF RevocationStep, BeginRevoke, ReadTokenToRevoke, LoseCascade
    <3>4. ASSUME Environment PROVE pc' = pc
      BY <3>4 DEF Environment, CreateAuthorizationCode, ExpireCode, CreateTokenFromOtherGrant,
                  AdminRevoke
    <3> QED
      BY <3>1, <3>2, <3>3, <3>4 DEF Next, Abort, vars
  <2>2. ASSUME NEW s \in Request, RevokeTokenRow(s) PROVE tokenClient[t] = caller[r]
    <3>1. s = r
      BY <2>2 DEF RevokeTokenRow, AfterRow, AfterRevocation, Finish
    <3> QED
      BY <2>2, <3>1 DEF RevokeTokenRow
  <2>3. ASSUME NEW s \in Request, RevokeTokenFamily(s) PROVE tokenClient[t] = caller[r]
    <3>1. s = r
      BY <2>3 DEF RevokeTokenFamily, AfterRevocation, Finish
    <3>2. tokenFamily[t] = cascade[r] /\ t \in tokens /\ cascade[r] \in Family
      BY <2>3, <3>1 DEF RevokeTokenFamily
    <3>3. Claims(tokenClient[t], cascade[r]) /\ Claims(caller[r], cascade[r])
      BY <3>2 DEF Claims
    <3> QED
      BY <3>2, <3>3 DEF FamilyOfOneClient
  <2> QED
    BY <2>1, <2>2, <2>3
<1>2. Spec => []Inv
  BY GrantInvariant, PTL
<1>3. QED
  BY <1>1, <1>2, PTL DEF Spec, RevokeOwnOnly
=============================================================================
