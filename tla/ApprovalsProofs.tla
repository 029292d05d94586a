--------------------------- MODULE ApprovalsProofs ---------------------------
(***************************************************************************)
(* Theorems about DeviceGrant, for any number of device codes, clients,    *)
(* users and requests and with or without a lagging replica, and about     *)
(* TxnAuthorization, for any number of challenges, rows, processes,        *)
(* browsers and requests.                                                  *)
(***************************************************************************)
EXTENDS DeviceGrant, TxnAuthorization, TLAPS

USE NoneAssumption
USE DEF table, locals, history, Redeeming, Deciding
USE ChallengeAssumption
USE DEF txnRows, guard, opening, copies, sessions, txnLocals, txnHistory

-----------------------------------------------------------------------------
(* Device authorizations: what the theorems rest on *)

\* A request that has started knows its row, and the user it acts for.
Known ==
    \A r \in Request : pc[r] # "idle" => device[r] \in Device /\ user[r] \in User

\* Only rows that were opened change: a device code is never opened twice.
Opened ==
    /\ \A d \in Device : ~Exists(rows[d]) =>
         /\ ~rows[d].approved /\ ~rows[d].denied /\ ~rows[d].used /\ rows[d].user = None
         /\ ~Exists(replica[d])
    /\ \A r \in Request : pc[r] # "idle" => Exists(rows[device[r]])

Shape == TypeOK /\ Known /\ Opened

\* Whoever got a token has marked the row, and while nobody raced for a row at
\* most one poll holds it, which found it unused and still does.
MarkedBeforeDelivered ==
    \A r \in delivered : pc[r] = "done" /\ rows[device[r]].used

HeldOnce ==
    \A r, s \in Request :
        pc[r] \in Redeeming /\ pc[s] \in Redeeming /\ device[r] = device[s] /\ device[r] \notin raced =>
            r = s /\ ~rows[device[r]].used

\* A refused row reads as denied, and nothing in flight can overtake that.
RefusalHolds ==
    \A d \in refused :
        /\ rows[d].denied /\ Read(d).denied
        /\ ~Overtakable(d)

\* A poll creates its token once, before the mark.
TokensFollowPolls ==
    /\ \A t \in tokens : pc[t[1]] \in {"mark", "done"}
    /\ \A r \in Request : pc[r] = "mark" => <<r, device[r], user[r]>> \in tokens

-----------------------------------------------------------------------------
\* What each UPDATE makes of a row is a row.
LEMMA RowWrites ==
    /\ \A row \in Row : /\ \A b \in BOOLEAN : [row EXCEPT !.expired = b] \in Row
                        /\ [row EXCEPT !.used = TRUE] \in Row
                        /\ [row EXCEPT !.approved = FALSE, !.denied = TRUE] \in Row
    /\ \A row \in Row, u \in User : [row EXCEPT !.approved = TRUE, !.denied = FALSE, !.user = u] \in Row
    /\ \A c \in Client : [NoRow EXCEPT !.client = c] \in Row
  BY DEF Row, NoRow

\* Rows and locals keep their shape: the writes set approved and denied together.
LEMMA TypeStep == TypeOK /\ Known /\ [Next]_vars => TypeOK'
<1> SUFFICES ASSUME TypeOK, Known, [Next]_vars PROVE TypeOK'
  OBVIOUS
<1> USE DEF TypeOK, Known
<1>1. ASSUME NEW d \in Device, Expire(d) PROVE TypeOK'
  <2> DEFINE new == [rows[d] EXCEPT !.expired = TRUE]
  <2>1. d \in Device /\ new \in Row
    BY <1>1, RowWrites DEF Expire
  <2>2. ~(new.approved /\ new.denied)
    BY <1>1, <2>1 DEF Expire, Row, NoRow
  <2>3. rows' = [rows EXCEPT ![d] = new]
    BY <1>1 DEF Expire
  <2>4. replica' \in [Device -> Row]
    BY <1>1, RowWrites, Exists(replica[d]) \in BOOLEAN DEF Expire, Exists
  <2> HIDE DEF new
  <2> QED
    BY ZenonT(20), <1>1, <2>1, <2>2, <2>3, <2>4 DEF Expire
<1>2. ASSUME NEW d \in Device, ExpireDeviceAuthorization(d) PROVE TypeOK'
  <2> DEFINE new == [rows[d] EXCEPT !.expired = TRUE]
  <2>1. d \in Device /\ new \in Row
    BY <1>2, RowWrites DEF ExpireDeviceAuthorization, Update
  <2>2. ~(new.approved /\ new.denied)
    BY <1>2, <2>1 DEF ExpireDeviceAuthorization, Update, Row, NoRow
  <2>3. rows' = [rows EXCEPT ![d] = new]
    BY <1>2 DEF ExpireDeviceAuthorization, Update
  <2> HIDE DEF new
  <2> QED
    BY <1>2, <2>1, <2>2, <2>3 DEF ExpireDeviceAuthorization, Update
<1>3. ASSUME NEW d \in Device, Replicate(d) PROVE TypeOK'
  BY <1>3 DEF Replicate
<1>4. ASSUME NEW d \in Device, NEW c \in Client, DeviceAuthorization(d, c) PROVE TypeOK'
  <2> DEFINE new == [NoRow EXCEPT !.client = c]
  <2>1. d \in Device /\ new \in Row
    BY <1>4, RowWrites DEF DeviceAuthorization, Update
  <2>2. ~(new.approved /\ new.denied)
    BY <1>4, <2>1 DEF DeviceAuthorization, Update, Row, NoRow
  <2>3. rows' = [rows EXCEPT ![d] = new]
    BY <1>4 DEF DeviceAuthorization, Update
  <2> HIDE DEF new
  <2> QED
    BY <1>4, <2>1, <2>2, <2>3 DEF DeviceAuthorization, Update
<1>5. ASSUME NEW r \in Request, NEW d \in Device, NEW u \in User, NEW action \in Deciding, BeginDecision(r, d, u, action) PROVE TypeOK'
  BY <1>5 DEF BeginDecision, Begin, Decidable, Read
<1>6. ASSUME NEW r \in Request, NEW d \in Device, NEW c \in Client, BeginPoll(r, d, c) PROVE TypeOK'
  BY <1>6 DEF BeginPoll, Begin, Redeemable, Read, InFlight, Row
<1>7. ASSUME NEW r \in Request, ApproveDeviceAuthorization(r) PROVE TypeOK'
  <2> DEFINE new == [rows[device[r]] EXCEPT !.approved = TRUE, !.denied = FALSE, !.user = user[r]]
  <2>1. device[r] \in Device /\ new \in Row
    BY <1>7, RowWrites DEF ApproveDeviceAuthorization, Update, Step
  <2>2. ~(new.approved /\ new.denied)
    BY <1>7, <2>1 DEF ApproveDeviceAuthorization, Update, Step, Row, NoRow
  <2>3. rows' = [rows EXCEPT ![device[r]] = new]
    BY <1>7 DEF ApproveDeviceAuthorization, Update, Step
  <2> HIDE DEF new
  <2> QED
    BY <1>7, <2>1, <2>2, <2>3 DEF ApproveDeviceAuthorization, Update, Step
<1>8. ASSUME NEW r \in Request, DenyDeviceAuthorization(r) PROVE TypeOK'
  <2> DEFINE new == [rows[device[r]] EXCEPT !.approved = FALSE, !.denied = TRUE]
  <2>1. device[r] \in Device /\ new \in Row
    BY <1>8, RowWrites DEF DenyDeviceAuthorization, Update, Step
  <2>2. ~(new.approved /\ new.denied)
    BY <1>8, <2>1 DEF DenyDeviceAuthorization, Update, Step, Row, NoRow
  <2>3. rows' = [rows EXCEPT ![device[r]] = new]
    BY <1>8 DEF DenyDeviceAuthorization, Update, Step
  <2> HIDE DEF new
  <2> QED
    BY <1>8, <2>1, <2>2, <2>3 DEF DenyDeviceAuthorization, Update, Step
<1>9. ASSUME NEW r \in Request, CreateToken(r) PROVE TypeOK'
  BY <1>9 DEF CreateToken, Step
<1>10. ASSUME NEW r \in Request, MarkDeviceAuthorizationUsed(r) PROVE TypeOK'
  <2> DEFINE new == [rows[device[r]] EXCEPT !.used = TRUE]
  <2>1. device[r] \in Device /\ new \in Row
    BY <1>10, RowWrites DEF MarkDeviceAuthorizationUsed, Update, Step
  <2>2. ~(new.approved /\ new.denied)
    BY <1>10, <2>1 DEF MarkDeviceAuthorizationUsed, Update, Step, Row, NoRow
  <2>3. rows' = [rows EXCEPT ![device[r]] = new]
    BY <1>10 DEF MarkDeviceAuthorizationUsed, Update, Step
  <2> HIDE DEF new
  <2> QED
    BY <1>10, <2>1, <2>2, <2>3 DEF MarkDeviceAuthorizationUsed, Update, Step
<1>11. ASSUME NEW r \in Request, Abort(r) PROVE TypeOK'
  BY <1>11 DEF Abort, Step
<1>12. CASE UNCHANGED vars
  BY <1>12 DEF vars
<1> QED
  BY <1>1, <1>2, <1>3, <1>4, <1>5, <1>6, <1>7, <1>8, <1>9, <1>10, <1>11, <1>12 DEF Next

\* A request takes its row and its user when it starts and keeps them.
LEMMA KnownStep == TypeOK /\ Known /\ [Next]_vars => Known'
<1> SUFFICES ASSUME TypeOK, Known, [Next]_vars PROVE Known'
  OBVIOUS
<1> USE DEF TypeOK, Known, Row, NoRow
<1>1. ASSUME NEW d \in Device, Expire(d) PROVE Known'
  BY <1>1 DEF Expire
<1>2. ASSUME NEW d \in Device, ExpireDeviceAuthorization(d) PROVE Known'
  BY <1>2 DEF ExpireDeviceAuthorization, Update
<1>3. ASSUME NEW d \in Device, Replicate(d) PROVE Known'
  BY <1>3 DEF Replicate
<1>4. ASSUME NEW d \in Device, NEW c \in Client, DeviceAuthorization(d, c) PROVE Known'
  BY <1>4 DEF DeviceAuthorization, Update
<1>5. ASSUME NEW r \in Request, NEW d \in Device, NEW u \in User, NEW action \in Deciding, BeginDecision(r, d, u, action) PROVE Known'
  BY <1>5 DEF BeginDecision, Begin, Decidable, Read
<1>6. ASSUME NEW r \in Request, NEW d \in Device, NEW c \in Client, BeginPoll(r, d, c) PROVE Known'
  BY <1>6 DEF BeginPoll, Begin, Redeemable, Read, InFlight
<1>7. ASSUME NEW r \in Request, ApproveDeviceAuthorization(r) PROVE Known'
  BY <1>7 DEF ApproveDeviceAuthorization, Update, Step
<1>8. ASSUME NEW r \in Request, DenyDeviceAuthorization(r) PROVE Known'
  BY <1>8 DEF DenyDeviceAuthorization, Update, Step
<1>9. ASSUME NEW r \in Request, CreateToken(r) PROVE Known'
  BY <1>9 DEF CreateToken, Step
<1>10. ASSUME NEW r \in Request, MarkDeviceAuthorizationUsed(r) PROVE Known'
  BY <1>10 DEF MarkDeviceAuthorizationUsed, Update, Step
<1>11. ASSUME NEW r \in Request, Abort(r) PROVE Known'
  BY <1>11 DEF Abort, Step
<1>12. CASE UNCHANGED vars
  BY <1>12 DEF vars
<1> QED
  BY <1>1, <1>2, <1>3, <1>4, <1>5, <1>6, <1>7, <1>8, <1>9, <1>10, <1>11, <1>12 DEF Next

\* A row is opened once, and only opened rows are read or written.
LEMMA OpenedStep == TypeOK /\ Known /\ Opened /\ [Next]_vars => Opened'
<1> SUFFICES ASSUME TypeOK, Known, Opened, [Next]_vars PROVE Opened'
  OBVIOUS
<1> USE DEF TypeOK, Known, Row, NoRow, Opened, Exists
<1>1. ASSUME NEW d \in Device, Expire(d) PROVE Opened'
  BY <1>1 DEF Expire
<1>2. ASSUME NEW d \in Device, ExpireDeviceAuthorization(d) PROVE Opened'
  BY <1>2 DEF ExpireDeviceAuthorization, Update
<1>3. ASSUME NEW d \in Device, Replicate(d) PROVE Opened'
  BY <1>3 DEF Replicate
<1>4. ASSUME NEW d \in Device, NEW c \in Client, DeviceAuthorization(d, c) PROVE Opened'
  BY <1>4 DEF DeviceAuthorization, Update
<1>5. ASSUME NEW r \in Request, NEW d \in Device, NEW u \in User, NEW action \in Deciding, BeginDecision(r, d, u, action) PROVE Opened'
  BY <1>5 DEF BeginDecision, Begin, Decidable, Read
<1>6. ASSUME NEW r \in Request, NEW d \in Device, NEW c \in Client, BeginPoll(r, d, c) PROVE Opened'
  BY <1>6 DEF BeginPoll, Begin, Redeemable, Read, InFlight
<1>7. ASSUME NEW r \in Request, ApproveDeviceAuthorization(r) PROVE Opened'
  BY <1>7 DEF ApproveDeviceAuthorization, Update, Step
<1>8. ASSUME NEW r \in Request, DenyDeviceAuthorization(r) PROVE Opened'
  BY <1>8 DEF DenyDeviceAuthorization, Update, Step
<1>9. ASSUME NEW r \in Request, CreateToken(r) PROVE Opened'
  BY <1>9 DEF CreateToken, Step
<1>10. ASSUME NEW r \in Request, MarkDeviceAuthorizationUsed(r) PROVE Opened'
  BY <1>10 DEF MarkDeviceAuthorizationUsed, Update, Step
<1>11. ASSUME NEW r \in Request, Abort(r) PROVE Opened'
  BY <1>11 DEF Abort, Step
<1>12. CASE UNCHANGED vars
  BY <1>12 DEF vars
<1> QED
  BY <1>1, <1>2, <1>3, <1>4, <1>5, <1>6, <1>7, <1>8, <1>9, <1>10, <1>11, <1>12 DEF Next

\* The mark is written before the response is sent, and nothing takes it back.
LEMMA MarkedStep == Shape /\ MarkedBeforeDelivered /\ [Next]_vars => MarkedBeforeDelivered'
<1> SUFFICES ASSUME Shape, MarkedBeforeDelivered, [Next]_vars PROVE MarkedBeforeDelivered'
  OBVIOUS
<1> USE DEF TypeOK, Known, Row, NoRow, Shape, Opened, Exists, MarkedBeforeDelivered
<1>1. ASSUME NEW d \in Device, Expire(d) PROVE MarkedBeforeDelivered'
  BY <1>1 DEF Expire
<1>2. ASSUME NEW d \in Device, ExpireDeviceAuthorization(d) PROVE MarkedBeforeDelivered'
  BY <1>2 DEF ExpireDeviceAuthorization, Update
<1>3. ASSUME NEW d \in Device, Replicate(d) PROVE MarkedBeforeDelivered'
  BY <1>3 DEF Replicate
<1>4. ASSUME NEW d \in Device, NEW c \in Client, DeviceAuthorization(d, c) PROVE MarkedBeforeDelivered'
  BY <1>4 DEF DeviceAuthorization, Update
<1>5. ASSUME NEW r \in Request, NEW d \in Device, NEW u \in User, NEW action \in Deciding, BeginDecision(r, d, u, action) PROVE MarkedBeforeDelivered'
  BY <1>5 DEF BeginDecision, Begin, Decidable, Read
<1>6. ASSUME NEW r \in Request, NEW d \in Device, NEW c \in Client, BeginPoll(r, d, c) PROVE MarkedBeforeDelivered'
  BY <1>6 DEF BeginPoll, Begin, Redeemable, Read, InFlight
<1>7. ASSUME NEW r \in Request, ApproveDeviceAuthorization(r) PROVE MarkedBeforeDelivered'
  BY <1>7 DEF ApproveDeviceAuthorization, Update, Step
<1>8. ASSUME NEW r \in Request, DenyDeviceAuthorization(r) PROVE MarkedBeforeDelivered'
  BY <1>8 DEF DenyDeviceAuthorization, Update, Step
<1>9. ASSUME NEW r \in Request, CreateToken(r) PROVE MarkedBeforeDelivered'
  BY <1>9 DEF CreateToken, Step
<1>10. ASSUME NEW r \in Request, MarkDeviceAuthorizationUsed(r) PROVE MarkedBeforeDelivered'
  BY <1>10 DEF MarkDeviceAuthorizationUsed, Update, Step
<1>11. ASSUME NEW r \in Request, Abort(r) PROVE MarkedBeforeDelivered'
  BY <1>11 DEF Abort, Step
<1>12. CASE UNCHANGED vars
  BY <1>12 DEF vars
<1> QED
  BY <1>1, <1>2, <1>3, <1>4, <1>5, <1>6, <1>7, <1>8, <1>9, <1>10, <1>11, <1>12 DEF Next

\* A poll that finds another one at its row, or reads a stale row, is a race.
LEMMA HeldOnceStep == Shape /\ HeldOnce /\ [Next]_vars => HeldOnce'
<1> SUFFICES ASSUME Shape, HeldOnce, [Next]_vars PROVE HeldOnce'
  OBVIOUS
<1> USE DEF TypeOK, Known, Row, NoRow, Shape, Opened, Exists, HeldOnce
<1>1. ASSUME NEW d \in Device, Expire(d) PROVE HeldOnce'
  BY <1>1 DEF Expire
<1>2. ASSUME NEW d \in Device, ExpireDeviceAuthorization(d) PROVE HeldOnce'
  BY <1>2 DEF ExpireDeviceAuthorization, Update
<1>3. ASSUME NEW d \in Device, Replicate(d) PROVE HeldOnce'
  BY <1>3 DEF Replicate
<1>4. ASSUME NEW d \in Device, NEW c \in Client, DeviceAuthorization(d, c) PROVE HeldOnce'
  BY <1>4 DEF DeviceAuthorization, Update
<1>5. ASSUME NEW r \in Request, NEW d \in Device, NEW u \in User, NEW action \in Deciding, BeginDecision(r, d, u, action) PROVE HeldOnce'
  BY <1>5 DEF BeginDecision, Begin, Decidable, Read
<1>6. ASSUME NEW r \in Request, NEW d \in Device, NEW c \in Client, BeginPoll(r, d, c) PROVE HeldOnce'
  BY <1>6 DEF BeginPoll, Begin, Redeemable, Read, InFlight
<1>7. ASSUME NEW r \in Request, ApproveDeviceAuthorization(r) PROVE HeldOnce'
  BY <1>7 DEF ApproveDeviceAuthorization, Update, Step
<1>8. ASSUME NEW r \in Request, DenyDeviceAuthorization(r) PROVE HeldOnce'
  BY <1>8 DEF DenyDeviceAuthorization, Update, Step
<1>9. ASSUME NEW r \in Request, CreateToken(r) PROVE HeldOnce'
  BY <1>9 DEF CreateToken, Step
<1>10. ASSUME NEW r \in Request, MarkDeviceAuthorizationUsed(r) PROVE HeldOnce'
  BY <1>10 DEF MarkDeviceAuthorizationUsed, Update, Step
<1>11. ASSUME NEW r \in Request, Abort(r) PROVE HeldOnce'
  BY <1>11 DEF Abort, Step
<1>12. CASE UNCHANGED vars
  BY <1>12 DEF vars
<1> QED
  BY <1>1, <1>2, <1>3, <1>4, <1>5, <1>6, <1>7, <1>8, <1>9, <1>10, <1>11, <1>12 DEF Next

\* Only a new approval lifts a refusal.
LEMMA RefusalStep == Shape /\ RefusalHolds /\ [Next]_vars => RefusalHolds'
<1> SUFFICES ASSUME Shape, RefusalHolds, [Next]_vars PROVE RefusalHolds'
  OBVIOUS
<1> USE DEF TypeOK, Known, Row, NoRow, Shape, Opened, Exists, RefusalHolds, Overtakable, InFlight, Read
<1>1. ASSUME NEW d \in Device, Expire(d) PROVE RefusalHolds'
  BY <1>1 DEF Expire
<1>2. ASSUME NEW d \in Device, ExpireDeviceAuthorization(d) PROVE RefusalHolds'
  BY <1>2 DEF ExpireDeviceAuthorization, Update
<1>3. ASSUME NEW d \in Device, Replicate(d) PROVE RefusalHolds'
  BY <1>3 DEF Replicate
<1>4. ASSUME NEW d \in Device, NEW c \in Client, DeviceAuthorization(d, c) PROVE RefusalHolds'
  BY <1>4 DEF DeviceAuthorization, Update
<1>5. ASSUME NEW r \in Request, NEW d \in Device, NEW u \in User, NEW action \in Deciding, BeginDecision(r, d, u, action) PROVE RefusalHolds'
  BY <1>5 DEF BeginDecision, Begin, Decidable, Read
<1>6. ASSUME NEW r \in Request, NEW d \in Device, NEW c \in Client, BeginPoll(r, d, c) PROVE RefusalHolds'
  BY <1>6 DEF BeginPoll, Begin, Redeemable, Read, InFlight
<1>7. ASSUME NEW r \in Request, ApproveDeviceAuthorization(r) PROVE RefusalHolds'
  BY <1>7 DEF ApproveDeviceAuthorization, Update, Step
<1>8. ASSUME NEW r \in Request, DenyDeviceAuthorization(r) PROVE RefusalHolds'
  BY <1>8 DEF DenyDeviceAuthorization, Update, Step
<1>9. ASSUME NEW r \in Request, CreateToken(r) PROVE RefusalHolds'
  BY <1>9 DEF CreateToken, Step
<1>10. ASSUME NEW r \in Request, MarkDeviceAuthorizationUsed(r) PROVE RefusalHolds'
  BY <1>10 DEF MarkDeviceAuthorizationUsed, Update, Step
<1>11. ASSUME NEW r \in Request, Abort(r) PROVE RefusalHolds'
  BY <1>11 DEF Abort, Step
<1>12. CASE UNCHANGED vars
  BY <1>12 DEF vars
<1> QED
  BY <1>1, <1>2, <1>3, <1>4, <1>5, <1>6, <1>7, <1>8, <1>9, <1>10, <1>11, <1>12 DEF Next

\* Tokens are created by polls, once each.
LEMMA TokensStep == Shape /\ TokensFollowPolls /\ [Next]_vars => TokensFollowPolls'
<1> SUFFICES ASSUME Shape, TokensFollowPolls, [Next]_vars PROVE TokensFollowPolls'
  OBVIOUS
<1> USE DEF TypeOK, Known, Row, NoRow, Shape, TokensFollowPolls
<1>1. ASSUME NEW d \in Device, Expire(d) PROVE TokensFollowPolls'
  BY <1>1 DEF Expire
<1>2. ASSUME NEW d \in Device, ExpireDeviceAuthorization(d) PROVE TokensFollowPolls'
  BY <1>2 DEF ExpireDeviceAuthorization, Update
<1>3. ASSUME NEW d \in Device, Replicate(d) PROVE TokensFollowPolls'
  BY <1>3 DEF Replicate
<1>4. ASSUME NEW d \in Device, NEW c \in Client, DeviceAuthorization(d, c) PROVE TokensFollowPolls'
  BY <1>4 DEF DeviceAuthorization, Update
<1>5. ASSUME NEW r \in Request, NEW d \in Device, NEW u \in User, NEW action \in Deciding, BeginDecision(r, d, u, action) PROVE TokensFollowPolls'
  BY <1>5 DEF BeginDecision, Begin, Decidable, Read
<1>6. ASSUME NEW r \in Request, NEW d \in Device, NEW c \in Client, BeginPoll(r, d, c) PROVE TokensFollowPolls'
  BY <1>6 DEF BeginPoll, Begin, Redeemable, Read, InFlight
<1>7. ASSUME NEW r \in Request, ApproveDeviceAuthorization(r) PROVE TokensFollowPolls'
  BY <1>7 DEF ApproveDeviceAuthorization, Update, Step
<1>8. ASSUME NEW r \in Request, DenyDeviceAuthorization(r) PROVE TokensFollowPolls'
  BY <1>8 DEF DenyDeviceAuthorization, Update, Step
<1>9. ASSUME NEW r \in Request, CreateToken(r) PROVE TokensFollowPolls'
  BY <1>9 DEF CreateToken, Step
<1>10. ASSUME NEW r \in Request, MarkDeviceAuthorizationUsed(r) PROVE TokensFollowPolls'
  BY <1>10 DEF MarkDeviceAuthorizationUsed, Update, Step
<1>11. ASSUME NEW r \in Request, Abort(r) PROVE TokensFollowPolls'
  BY <1>11 DEF Abort, Step
<1>12. CASE UNCHANGED vars
  BY <1>12 DEF vars
<1> QED
  BY <1>1, <1>2, <1>3, <1>4, <1>5, <1>6, <1>7, <1>8, <1>9, <1>10, <1>11, <1>12 DEF Next

-----------------------------------------------------------------------------
OnceInv == Shape /\ MarkedBeforeDelivered /\ HeldOnce

\* The shape of rows and locals is an invariant of the grant.
LEMMA ShapeInvariant == Spec => []Shape
<1>1. Init => Shape
  <2>1. /\ NoRow \in Row /\ ~NoRow.approved /\ ~NoRow.denied /\ ~NoRow.used
        /\ NoRow.user = None /\ NoRow.client = None
    BY DEF NoRow, Row
  <2> QED
    BY <2>1 DEF Init, Shape, TypeOK, Known, Opened, Exists
<1>2. Shape /\ [Next]_vars => Shape'
  BY TypeStep, KnownStep, OpenedStep DEF Shape
<1> QED
  BY <1>1, <1>2, PTL DEF Spec

\* Rows, locals and tokens keep their shape, and approve and deny, which set
\* both flags in one UPDATE, never leave a row approved and denied at once.
THEOREM TypeCorrect == Spec => []TypeOK
<1>1. Shape => TypeOK
  BY DEF Shape
<1> QED
  BY <1>1, ShapeInvariant, PTL

\* A device code yields one delivered token, whatever fails between the mint
\* and the mark, unless two polls overlapped or one read a stale row.
THEOREM DeliveredOnce == Spec => []DeliveredOnceUnlessRaced
<1>1. Init => MarkedBeforeDelivered /\ HeldOnce /\ DeliveredOnceUnlessRaced
  BY DEF Init, MarkedBeforeDelivered, HeldOnce, DeliveredOnceUnlessRaced
<1>2. OnceInv /\ [Next]_vars => OnceInv' /\ (DeliveredOnceUnlessRaced => DeliveredOnceUnlessRaced')
  <2> SUFFICES ASSUME OnceInv, [Next]_vars
               PROVE  OnceInv' /\ (DeliveredOnceUnlessRaced => DeliveredOnceUnlessRaced')
    OBVIOUS
  <2>1. OnceInv'
    BY TypeStep, KnownStep, OpenedStep, MarkedStep, HeldOnceStep DEF OnceInv, Shape
  <2>2. ASSUME NEW r \in Request, MarkDeviceAuthorizationUsed(r), DeliveredOnceUnlessRaced
        PROVE  DeliveredOnceUnlessRaced'
    <3>1. \A s \in delivered : device[s] = device[r] => device[r] \in raced
      BY <2>2 DEF OnceInv, Shape, TypeOK, Known, MarkedBeforeDelivered, HeldOnce, MarkDeviceAuthorizationUsed
    <3> QED
      BY <2>2, <3>1 DEF MarkDeviceAuthorizationUsed, Step, DeliveredOnceUnlessRaced
  <2>3. ASSUME NEW r \in Request, NEW d \in Device, NEW u, NEW next, Begin(r, next, d, u)
        PROVE  \A s \in delivered : device'[s] = device[s]
    BY <2>3 DEF Begin, OnceInv, Shape, TypeOK, MarkedBeforeDelivered
  <2>4. ASSUME \A s \in delivered : device'[s] = device[s], raced \subseteq raced', UNCHANGED delivered,
               DeliveredOnceUnlessRaced
        PROVE  DeliveredOnceUnlessRaced'
    BY <2>4 DEF DeliveredOnceUnlessRaced
  <2>5. \/ \E r \in Request : MarkDeviceAuthorizationUsed(r)
        \/ /\ UNCHANGED delivered /\ raced \subseteq raced'
           /\ \A s \in delivered : device'[s] = device[s]
    BY <2>3 DEF Next, vars, Expire, ExpireDeviceAuthorization, Replicate, DeviceAuthorization, BeginDecision,
                BeginPoll, ApproveDeviceAuthorization, DenyDeviceAuthorization, CreateToken, Abort, Step
  <2> QED
    BY <2>1, <2>2, <2>4, <2>5
<1> QED
  BY <1>1, <1>2, ShapeInvariant, PTL DEF Spec, OnceInv

\* After a denial that nothing in flight can overtake, and that has reached the
\* replica if there is one, no token is created until the user approves again.
THEOREM DenialFinal == Spec => DenialIsFinal
<1>1. Init => RefusalHolds
  BY DEF Init, RefusalHolds
<1>2. Shape /\ RefusalHolds /\ [Next]_vars => RefusalHolds'
  BY RefusalStep
<1>3. Shape /\ RefusalHolds /\ [Next]_vars => [\A t \in tokens' \ tokens : t[2] \notin refused]_vars
  <2> SUFFICES ASSUME Shape, RefusalHolds, Next, NEW t \in tokens' \ tokens PROVE t[2] \notin refused
    OBVIOUS
  <2>1. PICK r \in Request : CreateToken(r)
    BY DEF Next, Expire, ExpireDeviceAuthorization, Replicate, DeviceAuthorization, BeginDecision, BeginPoll,
           ApproveDeviceAuthorization, DenyDeviceAuthorization, MarkDeviceAuthorizationUsed, Abort
  <2>2. t[2] = device[r] /\ pc[r] = "mint"
    BY <2>1 DEF CreateToken
  <2> QED
    BY <2>2 DEF RefusalHolds, Overtakable, InFlight
<1> QED
  BY <1>1, <1>2, <1>3, ShapeInvariant, PTL DEF Spec, DenialIsFinal

-----------------------------------------------------------------------------
(* The grant implements the abstract approval *)

Claims == {<<r, device[r], user[r]>> : r \in {q \in Request : pc[q] = "mint"}}
Verdict(row) == IF row.approved THEN "approved" ELSE IF row.denied THEN "denied" ELSE "pending"

\* Without a replica every step of the grant is a step of the abstract approval
\* or leaves the abstract state alone: a poll claims when it reads the row,
\* issues when it creates the token, spends when it marks the row.
LEMMA ApprovalStep ==
    Shape /\ TokensFollowPolls /\ [Next]_vars => [lagging \/ Approval!Next]_(Approval!vars)
<1> SUFFICES ASSUME Shape, TokensFollowPolls, [Next]_vars, ~lagging
             PROVE  Approval!Next \/ UNCHANGED Approval!vars
  BY DEF Approval!vars
<1> USE DEF Shape, TypeOK, Known
<1>1. ASSUME NEW r \in Request, ApproveDeviceAuthorization(r) PROVE Approval!Next
  <2>0. PICK x \in Device, u \in User : device[r] = x /\ user[r] = u
    BY <1>1 DEF ApproveDeviceAuthorization
  <2>1. Claims' = Claims /\ UNCHANGED tokens
    BY <1>1 DEF ApproveDeviceAuthorization, Step, Claims
  <2>2. /\ rows'[x].approved /\ rows'[x].user = u
        /\ rows'[x].used = rows[x].used
        /\ \A d \in Device \ {x} : rows'[d] = rows[d]
    BY <1>1, <2>0 DEF ApproveDeviceAuthorization, Update, Row
  <2>3. [d \in Device |-> Verdict(rows'[d])] = [[d \in Device |-> Verdict(rows[d])] EXCEPT ![x] = "approved"]
    BY <2>2 DEF Verdict
  <2>4. [d \in Device |-> rows'[d].user] = [[d \in Device |-> rows[d].user] EXCEPT ![x] = u]
    BY <2>2
  <2>5. {d \in Device : rows'[d].used} = {d \in Device : rows[d].used}
    BY <2>2
  <2>7. Approval!Approve(x, u)
    BY <2>1, <2>3, <2>4, <2>5 DEF Approval!Approve, Claims, Verdict
  <2> QED
    BY <2>7 DEF Approval!Next
<1>2. ASSUME NEW r \in Request, DenyDeviceAuthorization(r) PROVE Approval!Next
  <2>0. PICK x \in Device, u \in User \cup {None} : device[r] = x /\ rows[x].user = u
    BY <1>2 DEF DenyDeviceAuthorization, Row
  <2>1. Claims' = Claims /\ UNCHANGED tokens
    BY <1>2 DEF DenyDeviceAuthorization, Step, Claims
  <2>2. /\ ~rows'[x].approved /\ rows'[x].denied
        /\ rows'[x].user = u /\ rows'[x].used = rows[x].used
        /\ \A d \in Device \ {x} : rows'[d] = rows[d]
    BY <1>2, <2>0 DEF DenyDeviceAuthorization, Update, Row
  <2>3. [d \in Device |-> Verdict(rows'[d])] = [[d \in Device |-> Verdict(rows[d])] EXCEPT ![x] = "denied"]
    BY <2>2 DEF Verdict
  <2>4. [d \in Device |-> rows'[d].user] =
            [[d \in Device |-> rows[d].user] EXCEPT ![x] = u]
    BY <2>0, <2>2
  <2>5. {d \in Device : rows'[d].used} = {d \in Device : rows[d].used}
    BY <2>2
  <2>7. Approval!Deny(x, u)
    BY <2>1, <2>3, <2>4, <2>5 DEF Approval!Deny, Claims, Verdict
  <2> QED
    BY <2>7 DEF Approval!Next
<1>3. ASSUME NEW r \in Request, NEW d \in Device, NEW c \in Client, BeginPoll(r, d, c) PROVE Approval!Next
  <2>1. Claims' = Claims \cup {<<r, d, rows[d].user>>}
    BY <1>3 DEF BeginPoll, Begin, Read, Claims
  <2>2. rows[d].approved /\ rows[d].user # None /\ ~rows[d].used
    BY <1>3 DEF BeginPoll, Redeemable, Read
  <2>3. \A k \in Claims \cup tokens : k[1] # r
    BY <1>3 DEF BeginPoll, Begin, Claims, TokensFollowPolls
  <2>4. UNCHANGED <<rows, tokens>>
    BY <1>3 DEF BeginPoll
  <2>7. Approval!Claim(r, d)
    BY <2>1, <2>2, <2>3, <2>4 DEF Approval!Claim, Claims
  <2> QED
    BY <2>7 DEF Approval!Next
<1>4. ASSUME NEW r \in Request, CreateToken(r) PROVE Approval!Next
  <2>0. PICK k \in Claims : k = <<r, device[r], user[r]>>
    BY <1>4 DEF CreateToken, Claims
  <2>1. Claims' = Claims \ {k}
    BY <1>4, <2>0 DEF CreateToken, Step, Claims
  <2>2. UNCHANGED rows /\ tokens' = tokens \cup {k}
    BY <1>4, <2>0 DEF CreateToken
  <2>7. Approval!Issue(k)
    BY <2>1, <2>2 DEF Approval!Issue, Claims
  <2> QED
    BY <2>7 DEF Approval!Next, Claims
<1>5. ASSUME NEW r \in Request, MarkDeviceAuthorizationUsed(r) PROVE Approval!Next
  <2>0. PICK x \in Device : device[r] = x
    BY <1>5 DEF MarkDeviceAuthorizationUsed
  <2>1. Claims' = Claims /\ UNCHANGED tokens
    BY <1>5, <2>0 DEF MarkDeviceAuthorizationUsed, Step, Claims
  <2>2. \E k \in tokens : k[2] = x
    BY <1>5, <2>0 DEF MarkDeviceAuthorizationUsed, TokensFollowPolls
  <2>3. /\ rows'[x].used /\ rows'[x].user = rows[x].user
        /\ rows'[x].approved = rows[x].approved
        /\ rows'[x].denied = rows[x].denied
        /\ \A d \in Device \ {x} : rows'[d] = rows[d]
    BY <1>5, <2>0 DEF MarkDeviceAuthorizationUsed, Update, Row
  <2>4. [d \in Device |-> Verdict(rows'[d])] = [d \in Device |-> Verdict(rows[d])]
    BY <2>3 DEF Verdict
  <2>5. [d \in Device |-> rows'[d].user] = [d \in Device |-> rows[d].user]
    BY <2>3
  <2>6. {d \in Device : rows'[d].used} = {d \in Device : rows[d].used} \cup {x}
    BY <2>3 DEF MarkDeviceAuthorizationUsed
  <2>7. Approval!Spend(x)
    BY <2>1, <2>2, <2>4, <2>5, <2>6 DEF Approval!Spend, Claims, Verdict
  <2> QED
    BY <2>7 DEF Approval!Next
<1>6. ASSUME NEW r \in Request, Abort(r)
      PROVE  Approval!Next \/ UNCHANGED Approval!vars
  <2>1. UNCHANGED <<rows, tokens>>
    BY <1>6 DEF Abort
  <2>2. \/ <<r, device[r], user[r]>> \in Claims /\ Claims' = Claims \ {<<r, device[r], user[r]>>}
        \/ Claims' = Claims
    BY <1>6 DEF Abort, Step, Claims
  <2> QED
    BY <2>1, <2>2 DEF Approval!Next, Approval!Withdraw, Approval!vars, Claims
<1>7. ASSUME NEW r \in Request, NEW d \in Device, NEW u \in User, NEW action \in Deciding,
             BeginDecision(r, d, u, action)
      PROVE  UNCHANGED Approval!vars
  <2>1. Claims' = Claims
    BY <1>7 DEF BeginDecision, Begin, Claims
  <2> QED
    BY <1>7, <2>1 DEF BeginDecision, Approval!vars, Claims
<1>8. ASSUME NEW d \in Device,
             \/ Expire(d) \/ ExpireDeviceAuthorization(d) \/ Replicate(d)
             \/ \E c \in Client : DeviceAuthorization(d, c)
      PROVE  UNCHANGED Approval!vars
  <2>1. UNCHANGED <<locals, tokens>>
    BY <1>8 DEF Expire, ExpireDeviceAuthorization, Replicate, DeviceAuthorization
  <2>2. \A e \in Device : /\ rows'[e].approved = rows[e].approved /\ rows'[e].denied = rows[e].denied
                          /\ rows'[e].user = rows[e].user /\ rows'[e].used = rows[e].used
    <3>1. CASE Expire(d)
      BY <3>1 DEF Expire, Row
    <3>2. CASE ExpireDeviceAuthorization(d)
      BY <3>2 DEF ExpireDeviceAuthorization, Update, Row
    <3>3. CASE Replicate(d)
      BY <3>3 DEF Replicate
    <3>4. CASE \E c \in Client : DeviceAuthorization(d, c)
      <4>1. PICK c \in Client : DeviceAuthorization(d, c)
        BY <3>4
      <4>2. /\ rows[d].approved = FALSE /\ rows[d].denied = FALSE /\ rows[d].used = FALSE
            /\ rows[d].user = None
        BY <4>1 DEF DeviceAuthorization, Opened, Row
      <4>3. rows' = [rows EXCEPT ![d] = [NoRow EXCEPT !.client = c]]
        BY <4>1 DEF DeviceAuthorization, Update
      <4> QED
        BY <4>2, <4>3 DEF NoRow
    <3> QED
      BY <1>8, <3>1, <3>2, <3>3, <3>4
  <2>3. /\ [e \in Device |-> Verdict(rows'[e])] = [e \in Device |-> Verdict(rows[e])]
        /\ [e \in Device |-> rows'[e].user] = [e \in Device |-> rows[e].user]
        /\ {e \in Device : rows'[e].used} = {e \in Device : rows[e].used}
    BY <2>2 DEF Verdict
  <2> QED
    BY <2>1, <2>3 DEF Approval!vars, Verdict
<1>9. CASE UNCHANGED vars
  BY <1>9 DEF vars, Approval!vars
<1> QED
  BY <1>1, <1>2, <1>3, <1>4, <1>5, <1>6, <1>7, <1>8, <1>9 DEF Next

\* Without a replica the device grant implements the abstract approval: no token
\* without a claim, no claim without an approval of a row not yet spent, no row
\* spent without a token.
THEOREM DeviceImplementsApproval == Spec => ImplementsApproval
<1>1. Init => TokensFollowPolls /\ Approval!Init
  <2>1. /\ NoRow.approved = FALSE /\ NoRow.denied = FALSE /\ NoRow.used = FALSE
        /\ NoRow.user = None
    BY DEF NoRow
  <2> QED
    BY <2>1 DEF Init, TokensFollowPolls, Approval!Init
<1>2. Shape /\ TokensFollowPolls /\ [Next]_vars => TokensFollowPolls'
  BY TokensStep
<1>3. Shape /\ TokensFollowPolls /\ [Next]_vars => [lagging \/ Approval!Next]_(Approval!vars)
  BY ApprovalStep
<1> QED
  BY <1>1, <1>2, <1>3, ShapeInvariant, PTL DEF Spec, ImplementsApproval

-----------------------------------------------------------------------------
(* Transaction authorizations: what the theorems rest on *)

\* A request that has started knows its row, which exists, and its user.
\* The replica has only rows that exist.
TxnKnown ==
    /\ \A r \in Slot : txnPc[r] # "idle" =>
          txn[r] \in Txn /\ txnUser[r] \in User /\ challenge[txn[r]] # None
    /\ \A x \in Txn : txnReplica[x].exists \/ txnReplica[x].approved => challenge[x] # None

TxnShape == TxnTypeOK /\ TxnKnown

\* A row that nobody contested is settled by one request, once.
SettledOnce ==
    \A r \in Slot : txnPc[r] \in Deciding /\ txn[r] \notin contested =>
        /\ txn[r] \notin approved \cup denied
        /\ \A s \in Slot : txnPc[s] \in Deciding /\ txn[s] = txn[r] => s = r

\* A poll that found such a row approved, in whatever copy, acts for the user
\* who approved it.
PollsAsDecided ==
    /\ \A r \in Slot : txnPc[r] \in Redeeming /\ txn[r] \notin contested =>
          txn[r] \in approved /\ approver[txn[r]] = txnUser[r]
    /\ \A x \in Txn \ contested : txnReplica[x].approved =>
          x \in approved /\ approver[x] = txnReplica[x].user

TokensDecided ==
    \A t \in txnTokens : t[2] \notin contested => t[2] \in approved /\ approver[t[2]] = t[3]

\* A decision under way satisfied its challenge when it was submitted.
StepUpUnderWay ==
    /\ \A r \in unfresh : txnPc[r] # "idle"
    /\ \A r \in Slot : txnPc[r] \in Deciding => challenge[txn[r]] \notin AcrBound

\* Whoever got a token has marked the row, and while nobody raced for a row at
\* most one poll holds it, and it is not used.
TxnMarkedFirst == \A r \in txnDelivered : txnPc[r] = "done" /\ txn[r] \in used

TxnHeldOnce ==
    \A r, s \in Slot :
        txnPc[r] \in Redeeming /\ txnPc[s] \in Redeeming /\ txn[r] = txn[s] /\ txn[r] \notin txnRaced =>
            r = s /\ txn[r] \notin used

\* A poll creates its token once, before the mark.
TxnTokensFollow ==
    /\ \A t \in txnTokens : txnPc[t[1]] \in {"mark", "done"}
    /\ \A r \in Slot : txnPc[r] = "mark" => <<r, txn[r], txnUser[r]>> \in txnTokens

-----------------------------------------------------------------------------
\* Rows, sessions and locals keep their shape, and flags are set on rows that exist.
LEMMA TxnShapeStep == TxnShape /\ [TxnNext]_txnVars => TxnShape'
<1> SUFFICES ASSUME TxnShape, [TxnNext]_txnVars PROVE TxnShape'
  OBVIOUS
<1> USE DEF TxnShape, TxnTypeOK, TxnKnown
<1>1. ASSUME NEW p \in Process, NEW k \in Challenge, WasteChallenge(p, k) PROVE TxnShape'
  BY <1>1 DEF WasteChallenge, VerifyChallenge
<1>2. ASSUME NEW p \in Process, NEW k \in Challenge, ForgetJti(p, k) PROVE TxnShape'
  BY <1>2 DEF ForgetJti
<1>15. ASSUME NEW p \in Process, NEW k \in Challenge, EvictJti(p, k) PROVE TxnShape'
  BY <1>15 DEF EvictJti
<1>16. ASSUME NEW k \in Challenge, PassExp(k) PROVE TxnShape'
  <2>1. phase' \in [Challenge -> {"valid", "leeway", "over"}]
    BY <1>16 DEF PassExp
  <2>2. seen' \in [Process -> SUBSET Challenge]
    BY <1>16 DEF PassExp
  <2>3. UNCHANGED <<evicted, txnRows, sessions, txnLocals, txnTokens, txnDelivered, txnHistory>>
    BY <1>16 DEF PassExp
  <2> QED
    BY <2>1, <2>2, <2>3
<1>17. ASSUME NEW x \in Txn, TxnReplicate(x) PROVE TxnShape'
  BY <1>17 DEF TxnReplicate, TxnCopy
<1>3. ASSUME NEW p \in Process, NEW k \in Challenge, NEW x \in Txn, OpenTransaction(p, k, x) PROVE TxnShape'
  BY <1>3 DEF OpenTransaction, VerifyChallenge
<1>4. ASSUME NEW x \in Txn, ExpireTxn(x) PROVE TxnShape'
  BY <1>4 DEF ExpireTxn
<1>5. ASSUME NEW b \in Browser, Age(b) PROVE TxnShape'
  BY <1>5 DEF Age
<1>6. ASSUME NEW b \in Browser, NEW u \in User, NEW password \in BOOLEAN, Login(b, u, password) PROVE TxnShape'
  BY <1>6 DEF Login
<1>7. ASSUME NEW b \in Browser, NEW x \in Txn, ForceLogin(x, b) PROVE TxnShape'
  BY <1>7 DEF ForceLogin
<1>8. ASSUME NEW r \in Slot, NEW x \in Txn, BeginTxnPoll(r, x) PROVE TxnShape'
  BY <1>8 DEF BeginTxnPoll, TxnRedeemable, TxnRead, TxnCopy, TxnBegin
<1>9. ASSUME NEW r \in Slot, NEW x \in Txn, NEW b \in Browser, NEW action \in Deciding, BeginSettle(r, x, b, action) PROVE TxnShape'
  BY <1>9 DEF BeginSettle, Actionable, TxnRead, TxnCopy, TxnBegin
<1>10. ASSUME NEW r \in Slot, SettleTransactionAuthorization(r) PROVE TxnShape'
  BY <1>10 DEF SettleTransactionAuthorization, TxnStep
<1>11. ASSUME NEW r \in Slot, CreateTxnToken(r) PROVE TxnShape'
  BY <1>11 DEF CreateTxnToken, TxnStep
<1>12. ASSUME NEW r \in Slot, MarkTransactionAuthorizationUsed(r) PROVE TxnShape'
  BY <1>12 DEF MarkTransactionAuthorizationUsed, TxnStep
<1>13. ASSUME NEW r \in Slot, AbortTxn(r) PROVE TxnShape'
  BY <1>13 DEF AbortTxn, TxnStep
<1>14. CASE UNCHANGED txnVars
  BY <1>14 DEF txnVars
<1> QED
  BY <1>1, <1>2, <1>3, <1>4, <1>5, <1>6, <1>7, <1>8, <1>9, <1>10, <1>11, <1>12, <1>13, <1>14, <1>15, <1>16, <1>17 DEF TxnNext

\* Only a pending row is taken up, and a second submission in flight contests it.
LEMMA SettledOnceStep == TxnShape /\ SettledOnce /\ [TxnNext]_txnVars => SettledOnce'
<1> SUFFICES ASSUME TxnShape, SettledOnce, [TxnNext]_txnVars PROVE SettledOnce'
  OBVIOUS
<1> USE DEF TxnShape, TxnTypeOK, TxnKnown, SettledOnce
<1>1. ASSUME NEW p \in Process, NEW k \in Challenge, WasteChallenge(p, k) PROVE SettledOnce'
  BY <1>1 DEF WasteChallenge, VerifyChallenge
<1>2. ASSUME NEW p \in Process, NEW k \in Challenge, ForgetJti(p, k) PROVE SettledOnce'
  BY <1>2 DEF ForgetJti
<1>15. ASSUME NEW p \in Process, NEW k \in Challenge, EvictJti(p, k) PROVE SettledOnce'
  BY <1>15 DEF EvictJti
<1>16. ASSUME NEW k \in Challenge, PassExp(k) PROVE SettledOnce'
  BY <1>16 DEF PassExp
<1>17. ASSUME NEW x \in Txn, TxnReplicate(x) PROVE SettledOnce'
  BY <1>17 DEF TxnReplicate, TxnCopy
<1>3. ASSUME NEW p \in Process, NEW k \in Challenge, NEW x \in Txn, OpenTransaction(p, k, x) PROVE SettledOnce'
  BY <1>3 DEF OpenTransaction, VerifyChallenge
<1>4. ASSUME NEW x \in Txn, ExpireTxn(x) PROVE SettledOnce'
  BY <1>4 DEF ExpireTxn
<1>5. ASSUME NEW b \in Browser, Age(b) PROVE SettledOnce'
  BY <1>5 DEF Age
<1>6. ASSUME NEW b \in Browser, NEW u \in User, NEW password \in BOOLEAN, Login(b, u, password) PROVE SettledOnce'
  BY <1>6 DEF Login
<1>7. ASSUME NEW b \in Browser, NEW x \in Txn, ForceLogin(x, b) PROVE SettledOnce'
  BY <1>7 DEF ForceLogin
<1>8. ASSUME NEW r \in Slot, NEW x \in Txn, BeginTxnPoll(r, x) PROVE SettledOnce'
  BY <1>8 DEF BeginTxnPoll, TxnRedeemable, TxnRead, TxnCopy, TxnBegin
<1>9. ASSUME NEW r \in Slot, NEW x \in Txn, NEW b \in Browser, NEW action \in Deciding, BeginSettle(r, x, b, action) PROVE SettledOnce'
  BY <1>9 DEF BeginSettle, Actionable, TxnRead, TxnCopy, TxnBegin, TxnInFlight
<1>10. ASSUME NEW r \in Slot, SettleTransactionAuthorization(r) PROVE SettledOnce'
  BY <1>10 DEF SettleTransactionAuthorization, TxnStep
<1>11. ASSUME NEW r \in Slot, CreateTxnToken(r) PROVE SettledOnce'
  BY <1>11 DEF CreateTxnToken, TxnStep
<1>12. ASSUME NEW r \in Slot, MarkTransactionAuthorizationUsed(r) PROVE SettledOnce'
  BY <1>12 DEF MarkTransactionAuthorizationUsed, TxnStep
<1>13. ASSUME NEW r \in Slot, AbortTxn(r) PROVE SettledOnce'
  BY <1>13 DEF AbortTxn, TxnStep
<1>14. CASE UNCHANGED txnVars
  BY <1>14 DEF txnVars
<1> QED
  BY <1>1, <1>2, <1>3, <1>4, <1>5, <1>6, <1>7, <1>8, <1>9, <1>10, <1>11, <1>12, <1>13, <1>14, <1>15, <1>16, <1>17 DEF TxnNext

\* What a poll has read cannot change any more: the row is settled.
LEMMA PollsStep == TxnShape /\ SettledOnce /\ PollsAsDecided /\ [TxnNext]_txnVars => PollsAsDecided'
<1> SUFFICES ASSUME TxnShape, SettledOnce, PollsAsDecided, [TxnNext]_txnVars PROVE PollsAsDecided'
  OBVIOUS
<1> USE DEF TxnShape, TxnTypeOK, TxnKnown, SettledOnce, PollsAsDecided
<1>1. ASSUME NEW p \in Process, NEW k \in Challenge, WasteChallenge(p, k) PROVE PollsAsDecided'
  BY <1>1 DEF WasteChallenge, VerifyChallenge
<1>2. ASSUME NEW p \in Process, NEW k \in Challenge, ForgetJti(p, k) PROVE PollsAsDecided'
  BY <1>2 DEF ForgetJti
<1>15. ASSUME NEW p \in Process, NEW k \in Challenge, EvictJti(p, k) PROVE PollsAsDecided'
  BY <1>15 DEF EvictJti
<1>16. ASSUME NEW k \in Challenge, PassExp(k) PROVE PollsAsDecided'
  BY <1>16 DEF PassExp
<1>17. ASSUME NEW x \in Txn, TxnReplicate(x) PROVE PollsAsDecided'
  BY <1>17 DEF TxnReplicate, TxnCopy
<1>3. ASSUME NEW p \in Process, NEW k \in Challenge, NEW x \in Txn, OpenTransaction(p, k, x) PROVE PollsAsDecided'
  BY <1>3 DEF OpenTransaction, VerifyChallenge
<1>4. ASSUME NEW x \in Txn, ExpireTxn(x) PROVE PollsAsDecided'
  BY <1>4 DEF ExpireTxn
<1>5. ASSUME NEW b \in Browser, Age(b) PROVE PollsAsDecided'
  BY <1>5 DEF Age
<1>6. ASSUME NEW b \in Browser, NEW u \in User, NEW password \in BOOLEAN, Login(b, u, password) PROVE PollsAsDecided'
  BY <1>6 DEF Login
<1>7. ASSUME NEW b \in Browser, NEW x \in Txn, ForceLogin(x, b) PROVE PollsAsDecided'
  BY <1>7 DEF ForceLogin
<1>8. ASSUME NEW r \in Slot, NEW x \in Txn, BeginTxnPoll(r, x) PROVE PollsAsDecided'
  BY <1>8 DEF BeginTxnPoll, TxnRedeemable, TxnRead, TxnCopy, TxnBegin
<1>9. ASSUME NEW r \in Slot, NEW x \in Txn, NEW b \in Browser, NEW action \in Deciding, BeginSettle(r, x, b, action) PROVE PollsAsDecided'
  BY <1>9 DEF BeginSettle, Actionable, TxnRead, TxnCopy, TxnBegin
<1>10. ASSUME NEW r \in Slot, SettleTransactionAuthorization(r) PROVE PollsAsDecided'
  BY <1>10 DEF SettleTransactionAuthorization, TxnStep
<1>11. ASSUME NEW r \in Slot, CreateTxnToken(r) PROVE PollsAsDecided'
  BY <1>11 DEF CreateTxnToken, TxnStep
<1>12. ASSUME NEW r \in Slot, MarkTransactionAuthorizationUsed(r) PROVE PollsAsDecided'
  BY <1>12 DEF MarkTransactionAuthorizationUsed, TxnStep
<1>13. ASSUME NEW r \in Slot, AbortTxn(r) PROVE PollsAsDecided'
  BY <1>13 DEF AbortTxn, TxnStep
<1>14. CASE UNCHANGED txnVars
  BY <1>14 DEF txnVars
<1> QED
  BY <1>1, <1>2, <1>3, <1>4, <1>5, <1>6, <1>7, <1>8, <1>9, <1>10, <1>11, <1>12, <1>13, <1>14, <1>15, <1>16, <1>17 DEF TxnNext

\* A token is created from what its poll has read.
LEMMA TokensDecidedStep == TxnShape /\ SettledOnce /\ PollsAsDecided /\ TokensDecided /\ [TxnNext]_txnVars => TokensDecided'
<1> SUFFICES ASSUME TxnShape, SettledOnce, PollsAsDecided, TokensDecided, [TxnNext]_txnVars PROVE TokensDecided'
  OBVIOUS
<1> USE DEF TxnShape, TxnTypeOK, TxnKnown, SettledOnce, PollsAsDecided, TokensDecided
<1>1. ASSUME NEW p \in Process, NEW k \in Challenge, WasteChallenge(p, k) PROVE TokensDecided'
  BY <1>1 DEF WasteChallenge, VerifyChallenge
<1>2. ASSUME NEW p \in Process, NEW k \in Challenge, ForgetJti(p, k) PROVE TokensDecided'
  BY <1>2 DEF ForgetJti
<1>15. ASSUME NEW p \in Process, NEW k \in Challenge, EvictJti(p, k) PROVE TokensDecided'
  BY <1>15 DEF EvictJti
<1>16. ASSUME NEW k \in Challenge, PassExp(k) PROVE TokensDecided'
  BY <1>16 DEF PassExp
<1>17. ASSUME NEW x \in Txn, TxnReplicate(x) PROVE TokensDecided'
  BY <1>17 DEF TxnReplicate, TxnCopy
<1>3. ASSUME NEW p \in Process, NEW k \in Challenge, NEW x \in Txn, OpenTransaction(p, k, x) PROVE TokensDecided'
  BY <1>3 DEF OpenTransaction, VerifyChallenge
<1>4. ASSUME NEW x \in Txn, ExpireTxn(x) PROVE TokensDecided'
  BY <1>4 DEF ExpireTxn
<1>5. ASSUME NEW b \in Browser, Age(b) PROVE TokensDecided'
  BY <1>5 DEF Age
<1>6. ASSUME NEW b \in Browser, NEW u \in User, NEW password \in BOOLEAN, Login(b, u, password) PROVE TokensDecided'
  BY <1>6 DEF Login
<1>7. ASSUME NEW b \in Browser, NEW x \in Txn, ForceLogin(x, b) PROVE TokensDecided'
  BY <1>7 DEF ForceLogin
<1>8. ASSUME NEW r \in Slot, NEW x \in Txn, BeginTxnPoll(r, x) PROVE TokensDecided'
  BY <1>8 DEF BeginTxnPoll, TxnRedeemable, TxnRead, TxnCopy, TxnBegin
<1>9. ASSUME NEW r \in Slot, NEW x \in Txn, NEW b \in Browser, NEW action \in Deciding, BeginSettle(r, x, b, action) PROVE TokensDecided'
  BY <1>9 DEF BeginSettle, Actionable, TxnRead, TxnCopy, TxnBegin
<1>10. ASSUME NEW r \in Slot, SettleTransactionAuthorization(r) PROVE TokensDecided'
  BY <1>10 DEF SettleTransactionAuthorization, TxnStep
<1>11. ASSUME NEW r \in Slot, CreateTxnToken(r) PROVE TokensDecided'
  BY <1>11 DEF CreateTxnToken, TxnStep
<1>12. ASSUME NEW r \in Slot, MarkTransactionAuthorizationUsed(r) PROVE TokensDecided'
  BY <1>12 DEF MarkTransactionAuthorizationUsed, TxnStep
<1>13. ASSUME NEW r \in Slot, AbortTxn(r) PROVE TokensDecided'
  BY <1>13 DEF AbortTxn, TxnStep
<1>14. CASE UNCHANGED txnVars
  BY <1>14 DEF txnVars
<1> QED
  BY <1>1, <1>2, <1>3, <1>4, <1>5, <1>6, <1>7, <1>8, <1>9, <1>10, <1>11, <1>12, <1>13, <1>14, <1>15, <1>16, <1>17 DEF TxnNext

\* approve_submit checks the step-up itself; challenges of rows do not change.
LEMMA StepUpStep == TxnShape /\ StepUpUnderWay /\ StepUpEnforced /\ [TxnNext]_txnVars => (StepUpUnderWay /\ StepUpEnforced)'
<1> SUFFICES ASSUME TxnShape, StepUpUnderWay, StepUpEnforced, [TxnNext]_txnVars PROVE (StepUpUnderWay /\ StepUpEnforced)'
  OBVIOUS
<1> USE DEF TxnShape, TxnTypeOK, TxnKnown, StepUpUnderWay, StepUpEnforced
<1>1. ASSUME NEW p \in Process, NEW k \in Challenge, WasteChallenge(p, k) PROVE (StepUpUnderWay /\ StepUpEnforced)'
  BY <1>1 DEF WasteChallenge, VerifyChallenge
<1>2. ASSUME NEW p \in Process, NEW k \in Challenge, ForgetJti(p, k) PROVE (StepUpUnderWay /\ StepUpEnforced)'
  BY <1>2 DEF ForgetJti
<1>15. ASSUME NEW p \in Process, NEW k \in Challenge, EvictJti(p, k) PROVE (StepUpUnderWay /\ StepUpEnforced)'
  BY <1>15 DEF EvictJti
<1>16. ASSUME NEW k \in Challenge, PassExp(k) PROVE (StepUpUnderWay /\ StepUpEnforced)'
  BY <1>16 DEF PassExp
<1>17. ASSUME NEW x \in Txn, TxnReplicate(x) PROVE (StepUpUnderWay /\ StepUpEnforced)'
  BY <1>17 DEF TxnReplicate, TxnCopy
<1>3. ASSUME NEW p \in Process, NEW k \in Challenge, NEW x \in Txn, OpenTransaction(p, k, x) PROVE (StepUpUnderWay /\ StepUpEnforced)'
  BY <1>3 DEF OpenTransaction, VerifyChallenge
<1>4. ASSUME NEW x \in Txn, ExpireTxn(x) PROVE (StepUpUnderWay /\ StepUpEnforced)'
  BY <1>4 DEF ExpireTxn
<1>5. ASSUME NEW b \in Browser, Age(b) PROVE (StepUpUnderWay /\ StepUpEnforced)'
  BY <1>5 DEF Age
<1>6. ASSUME NEW b \in Browser, NEW u \in User, NEW password \in BOOLEAN, Login(b, u, password) PROVE (StepUpUnderWay /\ StepUpEnforced)'
  BY <1>6 DEF Login
<1>7. ASSUME NEW b \in Browser, NEW x \in Txn, ForceLogin(x, b) PROVE (StepUpUnderWay /\ StepUpEnforced)'
  BY <1>7 DEF ForceLogin
<1>8. ASSUME NEW r \in Slot, NEW x \in Txn, BeginTxnPoll(r, x) PROVE (StepUpUnderWay /\ StepUpEnforced)'
  BY <1>8 DEF BeginTxnPoll, TxnRedeemable, TxnRead, TxnCopy, TxnBegin
<1>9. ASSUME NEW r \in Slot, NEW x \in Txn, NEW b \in Browser, NEW action \in Deciding, BeginSettle(r, x, b, action) PROVE (StepUpUnderWay /\ StepUpEnforced)'
  BY <1>9 DEF BeginSettle, Actionable, TxnRead, TxnCopy, TxnBegin, StepUpSatisfied
<1>10. ASSUME NEW r \in Slot, SettleTransactionAuthorization(r) PROVE (StepUpUnderWay /\ StepUpEnforced)'
  BY <1>10 DEF SettleTransactionAuthorization, TxnStep
<1>11. ASSUME NEW r \in Slot, CreateTxnToken(r) PROVE (StepUpUnderWay /\ StepUpEnforced)'
  BY <1>11 DEF CreateTxnToken, TxnStep
<1>12. ASSUME NEW r \in Slot, MarkTransactionAuthorizationUsed(r) PROVE (StepUpUnderWay /\ StepUpEnforced)'
  BY <1>12 DEF MarkTransactionAuthorizationUsed, TxnStep
<1>13. ASSUME NEW r \in Slot, AbortTxn(r) PROVE (StepUpUnderWay /\ StepUpEnforced)'
  BY <1>13 DEF AbortTxn, TxnStep
<1>14. CASE UNCHANGED txnVars
  BY <1>14 DEF txnVars
<1> QED
  BY <1>1, <1>2, <1>3, <1>4, <1>5, <1>6, <1>7, <1>8, <1>9, <1>10, <1>11, <1>12, <1>13, <1>14, <1>15, <1>16, <1>17 DEF TxnNext

\* The mark is written before the response is sent, and nothing takes it back.
LEMMA DeliveryStep == TxnShape /\ TxnMarkedFirst /\ TxnHeldOnce /\ [TxnNext]_txnVars => (TxnMarkedFirst /\ TxnHeldOnce)'
<1> SUFFICES ASSUME TxnShape, TxnMarkedFirst, TxnHeldOnce, [TxnNext]_txnVars PROVE (TxnMarkedFirst /\ TxnHeldOnce)'
  OBVIOUS
<1> USE DEF TxnShape, TxnTypeOK, TxnKnown, TxnMarkedFirst, TxnHeldOnce
<1>1. ASSUME NEW p \in Process, NEW k \in Challenge, WasteChallenge(p, k) PROVE (TxnMarkedFirst /\ TxnHeldOnce)'
  BY <1>1 DEF WasteChallenge, VerifyChallenge
<1>2. ASSUME NEW p \in Process, NEW k \in Challenge, ForgetJti(p, k) PROVE (TxnMarkedFirst /\ TxnHeldOnce)'
  BY <1>2 DEF ForgetJti
<1>15. ASSUME NEW p \in Process, NEW k \in Challenge, EvictJti(p, k) PROVE (TxnMarkedFirst /\ TxnHeldOnce)'
  BY <1>15 DEF EvictJti
<1>16. ASSUME NEW k \in Challenge, PassExp(k) PROVE (TxnMarkedFirst /\ TxnHeldOnce)'
  BY <1>16 DEF PassExp
<1>17. ASSUME NEW x \in Txn, TxnReplicate(x) PROVE (TxnMarkedFirst /\ TxnHeldOnce)'
  BY <1>17 DEF TxnReplicate, TxnCopy
<1>3. ASSUME NEW p \in Process, NEW k \in Challenge, NEW x \in Txn, OpenTransaction(p, k, x) PROVE (TxnMarkedFirst /\ TxnHeldOnce)'
  BY <1>3 DEF OpenTransaction, VerifyChallenge
<1>4. ASSUME NEW x \in Txn, ExpireTxn(x) PROVE (TxnMarkedFirst /\ TxnHeldOnce)'
  BY <1>4 DEF ExpireTxn
<1>5. ASSUME NEW b \in Browser, Age(b) PROVE (TxnMarkedFirst /\ TxnHeldOnce)'
  BY <1>5 DEF Age
<1>6. ASSUME NEW b \in Browser, NEW u \in User, NEW password \in BOOLEAN, Login(b, u, password) PROVE (TxnMarkedFirst /\ TxnHeldOnce)'
  BY <1>6 DEF Login
<1>7. ASSUME NEW b \in Browser, NEW x \in Txn, ForceLogin(x, b) PROVE (TxnMarkedFirst /\ TxnHeldOnce)'
  BY <1>7 DEF ForceLogin
<1>8. ASSUME NEW r \in Slot, NEW x \in Txn, BeginTxnPoll(r, x) PROVE (TxnMarkedFirst /\ TxnHeldOnce)'
  BY <1>8 DEF BeginTxnPoll, TxnRedeemable, TxnRead, TxnCopy, TxnBegin, TxnInFlight
<1>9. ASSUME NEW r \in Slot, NEW x \in Txn, NEW b \in Browser, NEW action \in Deciding, BeginSettle(r, x, b, action) PROVE (TxnMarkedFirst /\ TxnHeldOnce)'
  BY <1>9 DEF BeginSettle, Actionable, TxnRead, TxnCopy, TxnBegin
<1>10. ASSUME NEW r \in Slot, SettleTransactionAuthorization(r) PROVE (TxnMarkedFirst /\ TxnHeldOnce)'
  BY <1>10 DEF SettleTransactionAuthorization, TxnStep
<1>11. ASSUME NEW r \in Slot, CreateTxnToken(r) PROVE (TxnMarkedFirst /\ TxnHeldOnce)'
  BY <1>11 DEF CreateTxnToken, TxnStep
<1>12. ASSUME NEW r \in Slot, MarkTransactionAuthorizationUsed(r) PROVE (TxnMarkedFirst /\ TxnHeldOnce)'
  BY <1>12 DEF MarkTransactionAuthorizationUsed, TxnStep
<1>13. ASSUME NEW r \in Slot, AbortTxn(r) PROVE (TxnMarkedFirst /\ TxnHeldOnce)'
  BY <1>13 DEF AbortTxn, TxnStep
<1>14. CASE UNCHANGED txnVars
  BY <1>14 DEF txnVars
<1> QED
  BY <1>1, <1>2, <1>3, <1>4, <1>5, <1>6, <1>7, <1>8, <1>9, <1>10, <1>11, <1>12, <1>13, <1>14, <1>15, <1>16, <1>17 DEF TxnNext

\* Two deliveries of one row imply a race.
LEMMA OnceStep == TxnShape /\ TxnMarkedFirst /\ TxnHeldOnce /\ TxnDeliveredOnce /\ [TxnNext]_txnVars => TxnDeliveredOnce'
<1> SUFFICES ASSUME TxnShape, TxnMarkedFirst, TxnHeldOnce, TxnDeliveredOnce, [TxnNext]_txnVars PROVE TxnDeliveredOnce'
  OBVIOUS
<1> USE DEF TxnShape, TxnTypeOK, TxnKnown, TxnMarkedFirst, TxnHeldOnce, TxnDeliveredOnce
<1>1. ASSUME NEW p \in Process, NEW k \in Challenge, WasteChallenge(p, k) PROVE TxnDeliveredOnce'
  BY <1>1 DEF WasteChallenge, VerifyChallenge
<1>2. ASSUME NEW p \in Process, NEW k \in Challenge, ForgetJti(p, k) PROVE TxnDeliveredOnce'
  BY <1>2 DEF ForgetJti
<1>15. ASSUME NEW p \in Process, NEW k \in Challenge, EvictJti(p, k) PROVE TxnDeliveredOnce'
  BY <1>15 DEF EvictJti
<1>16. ASSUME NEW k \in Challenge, PassExp(k) PROVE TxnDeliveredOnce'
  BY <1>16 DEF PassExp
<1>17. ASSUME NEW x \in Txn, TxnReplicate(x) PROVE TxnDeliveredOnce'
  BY <1>17 DEF TxnReplicate, TxnCopy
<1>3. ASSUME NEW p \in Process, NEW k \in Challenge, NEW x \in Txn, OpenTransaction(p, k, x) PROVE TxnDeliveredOnce'
  BY <1>3 DEF OpenTransaction, VerifyChallenge
<1>4. ASSUME NEW x \in Txn, ExpireTxn(x) PROVE TxnDeliveredOnce'
  BY <1>4 DEF ExpireTxn
<1>5. ASSUME NEW b \in Browser, Age(b) PROVE TxnDeliveredOnce'
  BY <1>5 DEF Age
<1>6. ASSUME NEW b \in Browser, NEW u \in User, NEW password \in BOOLEAN, Login(b, u, password) PROVE TxnDeliveredOnce'
  BY <1>6 DEF Login
<1>7. ASSUME NEW b \in Browser, NEW x \in Txn, ForceLogin(x, b) PROVE TxnDeliveredOnce'
  BY <1>7 DEF ForceLogin
<1>8. ASSUME NEW r \in Slot, NEW x \in Txn, BeginTxnPoll(r, x) PROVE TxnDeliveredOnce'
  BY <1>8 DEF BeginTxnPoll, TxnRedeemable, TxnRead, TxnCopy, TxnBegin
<1>9. ASSUME NEW r \in Slot, NEW x \in Txn, NEW b \in Browser, NEW action \in Deciding, BeginSettle(r, x, b, action) PROVE TxnDeliveredOnce'
  BY <1>9 DEF BeginSettle, Actionable, TxnRead, TxnCopy, TxnBegin
<1>10. ASSUME NEW r \in Slot, SettleTransactionAuthorization(r) PROVE TxnDeliveredOnce'
  BY <1>10 DEF SettleTransactionAuthorization, TxnStep
<1>11. ASSUME NEW r \in Slot, CreateTxnToken(r) PROVE TxnDeliveredOnce'
  BY <1>11 DEF CreateTxnToken, TxnStep
<1>12. ASSUME NEW r \in Slot, MarkTransactionAuthorizationUsed(r) PROVE TxnDeliveredOnce'
  BY <1>12 DEF MarkTransactionAuthorizationUsed, TxnStep
<1>13. ASSUME NEW r \in Slot, AbortTxn(r) PROVE TxnDeliveredOnce'
  BY <1>13 DEF AbortTxn, TxnStep
<1>14. CASE UNCHANGED txnVars
  BY <1>14 DEF txnVars
<1> QED
  BY <1>1, <1>2, <1>3, <1>4, <1>5, <1>6, <1>7, <1>8, <1>9, <1>10, <1>11, <1>12, <1>13, <1>14, <1>15, <1>16, <1>17 DEF TxnNext

\* Tokens are created by polls, once each.
LEMMA TxnTokensStep == TxnShape /\ TxnTokensFollow /\ [TxnNext]_txnVars => TxnTokensFollow'
<1> SUFFICES ASSUME TxnShape, TxnTokensFollow, [TxnNext]_txnVars PROVE TxnTokensFollow'
  OBVIOUS
<1> USE DEF TxnShape, TxnTypeOK, TxnKnown, TxnTokensFollow
<1>1. ASSUME NEW p \in Process, NEW k \in Challenge, WasteChallenge(p, k) PROVE TxnTokensFollow'
  BY <1>1 DEF WasteChallenge, VerifyChallenge
<1>2. ASSUME NEW p \in Process, NEW k \in Challenge, ForgetJti(p, k) PROVE TxnTokensFollow'
  BY <1>2 DEF ForgetJti
<1>15. ASSUME NEW p \in Process, NEW k \in Challenge, EvictJti(p, k) PROVE TxnTokensFollow'
  BY <1>15 DEF EvictJti
<1>16. ASSUME NEW k \in Challenge, PassExp(k) PROVE TxnTokensFollow'
  BY <1>16 DEF PassExp
<1>17. ASSUME NEW x \in Txn, TxnReplicate(x) PROVE TxnTokensFollow'
  BY <1>17 DEF TxnReplicate, TxnCopy
<1>3. ASSUME NEW p \in Process, NEW k \in Challenge, NEW x \in Txn, OpenTransaction(p, k, x) PROVE TxnTokensFollow'
  BY <1>3 DEF OpenTransaction, VerifyChallenge
<1>4. ASSUME NEW x \in Txn, ExpireTxn(x) PROVE TxnTokensFollow'
  BY <1>4 DEF ExpireTxn
<1>5. ASSUME NEW b \in Browser, Age(b) PROVE TxnTokensFollow'
  BY <1>5 DEF Age
<1>6. ASSUME NEW b \in Browser, NEW u \in User, NEW password \in BOOLEAN, Login(b, u, password) PROVE TxnTokensFollow'
  BY <1>6 DEF Login
<1>7. ASSUME NEW b \in Browser, NEW x \in Txn, ForceLogin(x, b) PROVE TxnTokensFollow'
  BY <1>7 DEF ForceLogin
<1>8. ASSUME NEW r \in Slot, NEW x \in Txn, BeginTxnPoll(r, x) PROVE TxnTokensFollow'
  BY <1>8 DEF BeginTxnPoll, TxnRedeemable, TxnRead, TxnCopy, TxnBegin
<1>9. ASSUME NEW r \in Slot, NEW x \in Txn, NEW b \in Browser, NEW action \in Deciding, BeginSettle(r, x, b, action) PROVE TxnTokensFollow'
  BY <1>9 DEF BeginSettle, Actionable, TxnRead, TxnCopy, TxnBegin
<1>10. ASSUME NEW r \in Slot, SettleTransactionAuthorization(r) PROVE TxnTokensFollow'
  BY <1>10 DEF SettleTransactionAuthorization, TxnStep
<1>11. ASSUME NEW r \in Slot, CreateTxnToken(r) PROVE TxnTokensFollow'
  BY <1>11 DEF CreateTxnToken, TxnStep
<1>12. ASSUME NEW r \in Slot, MarkTransactionAuthorizationUsed(r) PROVE TxnTokensFollow'
  BY <1>12 DEF MarkTransactionAuthorizationUsed, TxnStep
<1>13. ASSUME NEW r \in Slot, AbortTxn(r) PROVE TxnTokensFollow'
  BY <1>13 DEF AbortTxn, TxnStep
<1>14. CASE UNCHANGED txnVars
  BY <1>14 DEF txnVars
<1> QED
  BY <1>1, <1>2, <1>3, <1>4, <1>5, <1>6, <1>7, <1>8, <1>9, <1>10, <1>11, <1>12, <1>13, <1>14, <1>15, <1>16, <1>17 DEF TxnNext

\* While a challenge is valid, the process that opened a row for it remembers
\* it, unless one of the three gaps is in the way.
OpenersRemember ==
    \A x \in Txn :
        /\ challenge[x] # None /\ challenge[x] \notin LongLived /\ x \notin late
        /\ <<opener[x], challenge[x]>> \notin evicted
        /\ phase[challenge[x]] = "valid"
        => challenge[x] \in seen[opener[x]]

\* A process asks its guard before it opens a row, and what it is told then
\* stays true until exp but for the gaps.
LEMMA ChallengeStep ==
    TxnShape /\ OpenersRemember /\ ChallengeOncePerProcess /\ [TxnNext]_txnVars
        => (OpenersRemember /\ ChallengeOncePerProcess)'
<1> SUFFICES ASSUME TxnShape, OpenersRemember, ChallengeOncePerProcess, [TxnNext]_txnVars
             PROVE  (OpenersRemember /\ ChallengeOncePerProcess)'
  OBVIOUS
<1> USE DEF TxnShape, TxnTypeOK, OpenersRemember, ChallengeOncePerProcess
<1>1. ASSUME NEW p \in Process, NEW k \in Challenge, NEW x \in Txn, OpenTransaction(p, k, x)
      PROVE  (OpenersRemember /\ ChallengeOncePerProcess)'
  <2>1. /\ challenge[x] = None /\ k \notin seen[p] /\ phase' = phase /\ evicted' = evicted
        /\ challenge' = [challenge EXCEPT ![x] = k]
        /\ opener' = [opener EXCEPT ![x] = p]
        /\ late' = IF phase[k] = "valid" THEN late ELSE late \cup {x}
        /\ seen' = IF phase[k] = "valid" THEN [seen EXCEPT ![p] = @ \cup {k}] ELSE seen
    BY <1>1 DEF OpenTransaction, VerifyChallenge
  <2>2. OpenersRemember'
    BY <2>1
  <2>3. ASSUME NEW y \in Txn, y # x, challenge[y] = k, opener[y] = p, k \notin LongLived,
               <<p, k>> \notin evicted, phase[k] = "valid"
        PROVE  y \in late
    BY <2>1, <2>3, ChallengeAssumption
  <2>4. ChallengeOncePerProcess'
    BY <2>1, <2>3, ChallengeAssumption
  <2> QED
    BY <2>2, <2>4
<1>2. ASSUME NEW p \in Process, NEW k \in Challenge, WasteChallenge(p, k)
      PROVE  (OpenersRemember /\ ChallengeOncePerProcess)'
  BY <1>2 DEF WasteChallenge, VerifyChallenge, txnRows, opening
<1>3. ASSUME NEW p \in Process, NEW k \in Challenge, ForgetJti(p, k)
      PROVE  (OpenersRemember /\ ChallengeOncePerProcess)'
  BY <1>3 DEF ForgetJti, txnRows, opening
<1>4. ASSUME NEW p \in Process, NEW k \in Challenge, EvictJti(p, k)
      PROVE  (OpenersRemember /\ ChallengeOncePerProcess)'
  BY <1>4 DEF EvictJti, txnRows, opening
<1>5. ASSUME NEW k \in Challenge, PassExp(k)
      PROVE  (OpenersRemember /\ ChallengeOncePerProcess)'
  <2>1. UNCHANGED <<opening, evicted>>
    BY <1>5 DEF PassExp
  <2>2. \A j \in Challenge : phase'[j] = "valid" => phase[j] = "valid" /\ j # k
    BY <1>5 DEF PassExp
  <2>3. \A p \in Process, j \in Challenge : j # k /\ j \in seen[p] => j \in seen'[p]
    BY <1>5 DEF PassExp
  <2>4. \A x \in Txn : challenge[x] # None => challenge[x] \in Challenge /\ opener[x] \in Process
    OBVIOUS
  <2> QED
    BY <2>1, <2>2, <2>3, <2>4
<1>6. ASSUME UNCHANGED <<guard, opening>>
      PROVE  (OpenersRemember /\ ChallengeOncePerProcess)'
  BY <1>6 DEF guard, opening
<1>7. \/ \E p \in Process, k \in Challenge :
            \/ WasteChallenge(p, k) \/ ForgetJti(p, k) \/ EvictJti(p, k)
            \/ \E x \in Txn : OpenTransaction(p, k, x)
      \/ \E k \in Challenge : PassExp(k)
      \/ UNCHANGED <<guard, opening>>
  BY DEF TxnNext, txnVars, txnRows, ExpireTxn, TxnReplicate, Age, Login, ForceLogin, BeginTxnPoll,
         BeginSettle, SettleTransactionAuthorization, CreateTxnToken, MarkTransactionAuthorizationUsed, AbortTxn
<1> QED
  BY <1>1, <1>2, <1>3, <1>4, <1>5, <1>6, <1>7

-----------------------------------------------------------------------------
\* The shape of rows, sessions and locals is an invariant.
LEMMA TxnShapeInvariant == TxnSpec => []TxnShape
<1>1. TxnInit => TxnShape
  <2> SUFFICES ASSUME TxnInit PROVE TxnShape
    OBVIOUS
  <2>1. \A x \in Txn : txnReplica[x] = NoCopy
    BY DEF TxnInit
  <2>2. txnReplica \in [Txn -> [exists : BOOLEAN, approved : BOOLEAN, denied : BOOLEAN,
                               used : BOOLEAN, user : User \cup {None}]]
    BY <2>1 DEF TxnInit, NoCopy
  <2> QED
    BY <2>1, <2>2 DEF TxnInit, TxnShape, TxnTypeOK, TxnKnown, NoCopy
<1>2. TxnShape /\ [TxnNext]_txnVars => TxnShape'
  BY TxnShapeStep
<1> QED
  BY <1>1, <1>2, PTL DEF TxnSpec

\* Rows, sessions and locals keep their shape; no row is approved and denied.
THEOREM TxnTypeCorrect == TxnSpec => []TxnTypeOK
<1>1. TxnShape => TxnTypeOK
  BY DEF TxnShape
<1> QED
  BY <1>1, TxnShapeInvariant, PTL

\* The user's word stands: unless two submissions overlapped, a token bears the
\* name of the one user who settled its row, and nothing can unsettle it.
THEOREM TokensAsDecided == TxnSpec => []TokenAsDecided
<1> DEFINE Inv == SettledOnce /\ PollsAsDecided /\ TokensDecided
<1>1. TxnInit => Inv
  <2>1. TxnInit => \A x \in Txn : txnReplica[x].approved = FALSE
    BY DEF TxnInit, NoCopy
  <2> QED
    BY <2>1 DEF TxnInit, SettledOnce, PollsAsDecided, TokensDecided
<1>2. TxnShape /\ Inv /\ [TxnNext]_txnVars => Inv'
  BY SettledOnceStep, PollsStep, TokensDecidedStep
<1>3. Inv => TokenAsDecided
  BY DEF SettledOnce, TokensDecided, TokenAsDecided, TxnInFlight
<1> HIDE DEF Inv
<1> QED
  BY <1>1, <1>2, <1>3, TxnShapeInvariant, PTL DEF TxnSpec

\* Step-up cannot be skipped, whatever the page showed and whenever it was shown.
THEOREM StepUpNotSkipped == TxnSpec => []StepUpEnforced
<1>1. TxnInit => StepUpUnderWay /\ StepUpEnforced
  BY DEF TxnInit, StepUpUnderWay, StepUpEnforced
<1>2. TxnShape /\ (StepUpUnderWay /\ StepUpEnforced) /\ [TxnNext]_txnVars => (StepUpUnderWay /\ StepUpEnforced)'
  BY StepUpStep
<1> QED
  BY <1>1, <1>2, TxnShapeInvariant, PTL DEF TxnSpec

\* A transaction yields one delivered token, whatever fails between the mint and
\* the mark, unless two polls overlapped.
THEOREM TxnOneDelivery == TxnSpec => []TxnDeliveredOnce
<1> DEFINE Inv == TxnMarkedFirst /\ TxnHeldOnce /\ TxnDeliveredOnce
<1>1. TxnInit => Inv
  BY DEF TxnInit, TxnMarkedFirst, TxnHeldOnce, TxnDeliveredOnce
<1>2. TxnShape /\ Inv /\ [TxnNext]_txnVars => Inv'
  BY DeliveryStep, OnceStep
<1> QED
  BY <1>1, <1>2, TxnShapeInvariant, PTL DEF TxnSpec

\* In one process a challenge opens one transaction, but for the three gaps of
\* the replay guard: the cap on an entry's life, eviction, and the leeway.
THEOREM ChallengeOnce == TxnSpec => []ChallengeOncePerProcess
<1>1. TxnInit => OpenersRemember /\ ChallengeOncePerProcess
  BY DEF TxnInit, OpenersRemember, ChallengeOncePerProcess
<1>2. TxnShape /\ (OpenersRemember /\ ChallengeOncePerProcess) /\ [TxnNext]_txnVars
        => (OpenersRemember /\ ChallengeOncePerProcess)'
  BY ChallengeStep
<1> QED
  BY <1>1, <1>2, TxnShapeInvariant, PTL DEF TxnSpec

\* All of this together: a token for a transaction is what its user decided.
THEOREM TxnDecided == TxnSpec => []AsDecided
<1>1. TxnTypeOK /\ TokenAsDecided /\ StepUpEnforced /\ TxnDeliveredOnce /\ ChallengeOncePerProcess => AsDecided
  BY DEF AsDecided
<1> QED
  BY <1>1, TxnTypeCorrect, TokensAsDecided, StepUpNotSkipped, TxnOneDelivery, ChallengeOnce, PTL

-----------------------------------------------------------------------------
(* The grant implements the abstract approval *)

TxnClaims == {<<r, txn[r], txnUser[r]>> : r \in {q \in Slot : txnPc[q] = "mint"}}
TxnVerdict == [x \in Txn |-> IF x \in approved THEN "approved" ELSE IF x \in denied THEN "denied" ELSE "pending"]

\* Every step is a step of the abstract approval or leaves the abstract state
\* alone: a poll claims when it reads the row, issues when it creates the
\* token, spends when it marks the row.
LEMMA TxnApprovalStep == TxnShape /\ TxnTokensFollow /\ [TxnNext]_txnVars => [lagging \/ TxnApproval!Next]_(TxnApproval!vars)
<1> SUFFICES ASSUME TxnShape, TxnTokensFollow, [TxnNext]_txnVars, ~lagging
             PROVE  TxnApproval!Next \/ UNCHANGED TxnApproval!vars
  BY DEF TxnApproval!vars
<1> USE DEF TxnShape, TxnTypeOK, TxnKnown
<1>1. ASSUME NEW r \in Slot, SettleTransactionAuthorization(r) PROVE TxnApproval!Next
  <2>1. PICK x \in Txn, u \in User : txn[r] = x /\ txnUser[r] = u
    BY <1>1 DEF SettleTransactionAuthorization
  <2>2. TxnClaims' = TxnClaims /\ UNCHANGED <<txnTokens, used>> /\ approver' = [approver EXCEPT ![x] = u]
    BY <1>1, <2>1 DEF SettleTransactionAuthorization, TxnStep, TxnClaims
  <2>3. CASE txnPc[r] = "approve"
    <3>1. TxnVerdict' = [TxnVerdict EXCEPT ![x] = "approved"]
      BY <1>1, <2>1, <2>3 DEF SettleTransactionAuthorization, TxnVerdict
    <3>2. TxnApproval!Approve(x, u)
      BY <2>2, <3>1 DEF TxnApproval!Approve, TxnClaims, TxnVerdict
    <3> QED
      BY <3>2 DEF TxnApproval!Next
  <2>4. CASE txnPc[r] = "deny"
    <3>1. TxnVerdict' = [TxnVerdict EXCEPT ![x] = "denied"]
      BY <1>1, <2>1, <2>4 DEF SettleTransactionAuthorization, TxnVerdict
    <3>2. TxnApproval!Deny(x, u)
      BY <2>2, <3>1 DEF TxnApproval!Deny, TxnClaims, TxnVerdict
    <3> QED
      BY <3>2 DEF TxnApproval!Next
  <2> QED
    BY <1>1, <2>3, <2>4 DEF SettleTransactionAuthorization
<1>2. ASSUME NEW r \in Slot, NEW x \in Txn, BeginTxnPoll(r, x) PROVE TxnApproval!Next
  <2>1. TxnClaims' = TxnClaims \cup {<<r, x, approver[x]>>}
    BY <1>2 DEF BeginTxnPoll, TxnBegin, TxnClaims, TxnRead, TxnCopy
  <2>2. TxnVerdict[x] = "approved" /\ approver[x] # None /\ x \notin used
    BY <1>2 DEF BeginTxnPoll, TxnRedeemable, TxnRead, TxnCopy, TxnVerdict
  <2>3. \A k \in TxnClaims \cup txnTokens : k[1] # r
    BY <1>2 DEF BeginTxnPoll, TxnBegin, TxnClaims, TxnTokensFollow
  <2>4. UNCHANGED <<txnRows, txnTokens>>
    BY <1>2 DEF BeginTxnPoll
  <2>5. TxnApproval!Claim(r, x)
    BY <2>1, <2>2, <2>3, <2>4 DEF TxnApproval!Claim, TxnClaims, TxnVerdict
  <2> QED
    BY <2>5 DEF TxnApproval!Next
<1>3. ASSUME NEW r \in Slot, CreateTxnToken(r) PROVE TxnApproval!Next
  <2>1. PICK k \in TxnClaims : k = <<r, txn[r], txnUser[r]>>
    BY <1>3 DEF CreateTxnToken, TxnClaims
  <2>2. TxnClaims' = TxnClaims \ {k}
    BY <1>3, <2>1 DEF CreateTxnToken, TxnStep, TxnClaims
  <2>3. UNCHANGED txnRows /\ txnTokens' = txnTokens \cup {k}
    BY <1>3, <2>1 DEF CreateTxnToken
  <2>4. TxnApproval!Issue(k)
    BY <2>2, <2>3 DEF TxnApproval!Issue, TxnClaims
  <2> QED
    BY <2>4 DEF TxnApproval!Next, TxnClaims
<1>4. ASSUME NEW r \in Slot, MarkTransactionAuthorizationUsed(r) PROVE TxnApproval!Next
  <2>1. PICK x \in Txn : txn[r] = x
    BY <1>4 DEF MarkTransactionAuthorizationUsed
  <2>2. \E k \in txnTokens : k[2] = x
    BY <1>4, <2>1 DEF MarkTransactionAuthorizationUsed, TxnTokensFollow
  <2>3. /\ TxnClaims' = TxnClaims /\ used' = used \cup {x}
        /\ UNCHANGED <<txnTokens, approved, denied, approver>>
    BY <1>4, <2>1 DEF MarkTransactionAuthorizationUsed, TxnStep, TxnClaims
  <2>4. TxnApproval!Spend(x)
    BY <2>2, <2>3 DEF TxnApproval!Spend, TxnClaims
  <2> QED
    BY <2>4 DEF TxnApproval!Next
<1>5. ASSUME NEW r \in Slot, AbortTxn(r) PROVE TxnApproval!Next \/ UNCHANGED TxnApproval!vars
  <2>1. UNCHANGED <<txnRows, txnTokens>>
    BY <1>5 DEF AbortTxn
  <2>2. \/ <<r, txn[r], txnUser[r]>> \in TxnClaims /\ TxnClaims' = TxnClaims \ {<<r, txn[r], txnUser[r]>>}
        \/ TxnClaims' = TxnClaims
    BY <1>5 DEF AbortTxn, TxnStep, TxnClaims
  <2> QED
    BY <2>1, <2>2 DEF TxnApproval!Next, TxnApproval!Withdraw, TxnApproval!vars, TxnClaims
<1>6. ASSUME NEW r \in Slot, NEW x \in Txn, NEW b \in Browser, NEW action \in Deciding,
             BeginSettle(r, x, b, action)
      PROVE  UNCHANGED TxnApproval!vars
  <2>1. TxnClaims' = TxnClaims
    BY <1>6 DEF BeginSettle, TxnBegin, TxnClaims
  <2> QED
    BY <1>6, <2>1 DEF BeginSettle, TxnApproval!vars, TxnClaims
<1>7. ASSUME UNCHANGED <<approved, denied, used, approver, txnLocals, txnTokens>> PROVE UNCHANGED TxnApproval!vars
  BY <1>7 DEF TxnApproval!vars
<1>8. \/ \E r \in Slot : \/ SettleTransactionAuthorization(r) \/ CreateTxnToken(r)
                            \/ MarkTransactionAuthorizationUsed(r) \/ AbortTxn(r)
      \/ \E r \in Slot, x \in Txn :
            BeginTxnPoll(r, x) \/ \E b \in Browser, action \in Deciding : BeginSettle(r, x, b, action)
      \/ UNCHANGED <<approved, denied, used, approver, txnLocals, txnTokens>>
  BY DEF TxnNext, txnVars, WasteChallenge, ForgetJti, EvictJti, PassExp, OpenTransaction, ExpireTxn, TxnReplicate, Age, Login, ForceLogin
<1> QED
  BY <1>1, <1>2, <1>3, <1>4, <1>5, <1>6, <1>7, <1>8

\* Without a replica, the transaction authorization grant implements the abstract approval: no
\* token without a claim, no claim without an approval of a row not yet spent,
\* no row spent without a token.
THEOREM TxnImplementsApproval == TxnSpec => TransactionApproval
<1>1. TxnInit => TxnTokensFollow /\ TxnApproval!Init
  BY DEF TxnInit, TxnTokensFollow, TxnApproval!Init
<1>2. TxnShape /\ TxnTokensFollow /\ [TxnNext]_txnVars => TxnTokensFollow'
  BY TxnTokensStep
<1>3. TxnShape /\ TxnTokensFollow /\ [TxnNext]_txnVars => [lagging \/ TxnApproval!Next]_(TxnApproval!vars)
  BY TxnApprovalStep
<1> QED
  BY <1>1, <1>2, <1>3, TxnShapeInvariant, PTL DEF TxnSpec, TransactionApproval
=============================================================================
