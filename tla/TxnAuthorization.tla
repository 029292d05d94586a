--------------------------- MODULE TxnAuthorization ---------------------------
(***************************************************************************)
(* The transaction authorization challenge: a protected resource signs a   *)
(* challenge, a client submits it and gets a pending authorization, a user *)
(* whose session satisfies the challenge's step-up requirement approves or *)
(* denies it, and the client polls for a short-lived token.                *)
(*                                                                         *)
(* The jti of a challenge is remembered in the memory of the process that  *)
(* accepted it, until exp at most; the signature check accepts a challenge *)
(* for 60 s more.  A session is what a browser's cookie says: a user, and  *)
(* an auth_time that is recent enough for max_age or not.  When lagging,   *)
(* decisions and polls read a replica that may be behind the primary.      *)
(***************************************************************************)
EXTENDS ApprovalBase

CONSTANTS
    Txn,         \* rows of transaction_authorizations
    Challenge,   \* signed challenges, told apart by (iss, jti)
    StepUp,      \* those with a max_age
    AcrBound,    \* those with acr_values
    LongLived,   \* those whose exp is further away than MAX_TTL_SECS
    Process,     \* server processes; a restarted one is another one
    Browser,
    Slot         \* HTTP requests; each slot is used once

ASSUME ChallengeAssumption == None \notin Challenge

VARIABLES
    seen,              \* per process: jtis in its replay guard
    phase,             \* per challenge: "valid", within the "leeway" after exp, "over"
    challenge,         \* per row: the challenge it was opened for, or None
    approved, denied, used, expired,   \* rows with that flag
    approver,          \* per row: user_id
    txnReplica,        \* per row: what the replica has of it
    sessionUser,       \* per browser: user_id of its session
    recent,            \* browsers whose session has a recent auth_time
    txnPc, txn, txnUser,   \* locals of a request: next step, row, user
    txnTokens,         \* <<request, row, user>> of each token created
    txnDelivered,      \* requests whose response carried a token
    \* history: rows two redemptions, or two decisions, held at one time or that
    \* one took up from a replica that was behind; rows settled by a session that
    \* was not recent when it was checked
    txnRaced, contested, unfresh,
    \* history: the process that opened a row; rows opened within the leeway;
    \* <<process, challenge>> whose entry was evicted from a full guard
    opener, late, evicted

guard == <<seen, phase, evicted>>
opening == <<challenge, opener, late>>
copies == <<lagging, txnReplica>>
txnRows == <<opening, approved, denied, used, expired, approver, copies>>
sessions == <<sessionUser, recent>>
txnLocals == <<txnPc, txn, txnUser>>
txnHistory == <<txnRaced, contested, unfresh>>
txnVars == <<guard, txnRows, sessions, txnLocals, txnTokens,
                   txnDelivered, txnHistory>>

\* A row as replication copies it, and the row a SELECT returns.
TxnCopy(x) == [exists |-> challenge[x] # None, approved |-> x \in approved,
               denied |-> x \in denied, used |-> x \in used, user |-> approver[x]]

NoCopy == [exists |-> FALSE, approved |-> FALSE, denied |-> FALSE, used |-> FALSE, user |-> None]

TxnRead(x) == IF lagging THEN txnReplica[x] ELSE TxnCopy(x)

TxnInFlight(x, steps) == \E r \in Slot : txnPc[r] \in steps /\ txn[r] = x

TxnStep(r, next) ==
    /\ txnPc' = [txnPc EXCEPT ![r] = next]
    /\ UNCHANGED <<txn, txnUser>>

TxnBegin(r, next, x, u) ==
    /\ txnPc[r] = "idle"
    /\ txnPc' = [txnPc EXCEPT ![r] = next]
    /\ txn' = [txn EXCEPT ![r] = x]
    /\ txnUser' = [txnUser EXCEPT ![r] = u]

TxnInit ==
    /\ seen = [p \in Process |-> {}]
    /\ phase = [k \in Challenge |-> "valid"]
    /\ challenge = [x \in Txn |-> None]
    /\ approved = {} /\ denied = {} /\ used = {} /\ expired = {}
    /\ approver = [x \in Txn |-> None]
    /\ lagging \in BOOLEAN
    /\ txnReplica = [x \in Txn |-> NoCopy]
    /\ sessionUser = [b \in Browser |-> None]
    /\ recent = {}
    /\ txnPc = [r \in Slot |-> "idle"]
    /\ txn = [r \in Slot |-> None]
    /\ txnUser = [r \in Slot |-> None]
    /\ txnTokens = {} /\ txnDelivered = {}
    /\ txnRaced = {} /\ contested = {} /\ unfresh = {}
    /\ opener = [x \in Txn |-> None]
    /\ late = {} /\ evicted = {}

-----------------------------------------------------------------------------
(* Opening *)

\* verify_challenge: the signature is good, exp is past by no more than the
\* leeway, and the jti is new to this process.  It is recorded before the
\* remaining claims are looked at, for the time to exp: within the leeway,
\* for no time.
VerifyChallenge(p, k) ==
    /\ phase[k] # "over"
    /\ k \notin seen[p]
    /\ seen' = IF phase[k] = "valid" THEN [seen EXCEPT ![p] = @ \cup {k}] ELSE seen
    /\ UNCHANGED <<phase, evicted>>

\* The challenge is accepted and its row is saved.
OpenTransaction(p, k, x) ==
    /\ challenge[x] = None
    /\ VerifyChallenge(p, k)
    /\ challenge' = [challenge EXCEPT ![x] = k]
    /\ opener' = [opener EXCEPT ![x] = p]
    /\ late' = IF phase[k] = "valid" THEN late ELSE late \cup {x}
    /\ UNCHANGED <<approved, denied, used, expired, approver, copies, sessions, txnLocals,
                   txnTokens, txnDelivered, txnHistory>>

\* A later claim is malformed, or the row cannot be saved: the jti is gone.
WasteChallenge(p, k) ==
    /\ VerifyChallenge(p, k)
    /\ UNCHANGED <<txnRows, sessions, txnLocals, txnTokens, txnDelivered, txnHistory>>

\* exp passes, and every entry for the challenge with it; then the leeway does.
PassExp(k) ==
    /\ \/ /\ phase[k] = "valid"
          /\ phase' = [phase EXCEPT ![k] = "leeway"]
          /\ seen' = [p \in Process |-> seen[p] \ {k}]
       \/ /\ phase[k] = "leeway"
          /\ phase' = [phase EXCEPT ![k] = "over"]
          /\ UNCHANGED seen
    /\ UNCHANGED <<evicted, txnRows, sessions, txnLocals, txnTokens, txnDelivered, txnHistory>>

\* observe caps the life of an entry at MAX_TTL_SECS: the guard forgets a
\* challenge that is still valid.
ForgetJti(p, k) ==
    /\ k \in seen[p] \cap LongLived
    /\ seen' = [seen EXCEPT ![p] = @ \ {k}]
    /\ UNCHANGED <<phase, evicted, txnRows, sessions, txnLocals, txnTokens, txnDelivered, txnHistory>>

\* observe drops an arbitrary entry of a full guard; what fills it are the
\* jtis of client assertions and of other challenges.
EvictJti(p, k) ==
    /\ k \in seen[p]
    /\ seen' = [seen EXCEPT ![p] = @ \ {k}]
    /\ evicted' = evicted \cup {<<p, k>>}
    /\ UNCHANGED <<phase, txnRows, sessions, txnLocals, txnTokens, txnDelivered, txnHistory>>

\* expires_at passes, for every copy of the row.
ExpireTxn(x) ==
    /\ challenge[x] # None
    /\ x \notin expired
    /\ expired' = expired \cup {x}
    /\ UNCHANGED <<guard, opening, approved, denied, used, approver, copies, sessions, txnLocals,
                   txnTokens, txnDelivered, txnHistory>>

\* The replica catches up.
TxnReplicate(x) ==
    /\ lagging
    /\ txnReplica[x] # TxnCopy(x)
    /\ txnReplica' = [txnReplica EXCEPT ![x] = TxnCopy(x)]
    /\ UNCHANGED <<guard, opening, approved, denied, used, expired, approver, lagging, sessions,
                   txnLocals, txnTokens, txnDelivered, txnHistory>>

-----------------------------------------------------------------------------
(* Deciding *)

\* A password login stamps auth_time, a social login does not; neither sets
\* acr, and nothing else in the server does.
Login(b, u, password) ==
    /\ sessionUser[b] # u \/ b \notin recent
    /\ sessionUser' = [sessionUser EXCEPT ![b] = u]
    /\ recent' = IF password THEN recent \cup {b} ELSE recent
    /\ UNCHANGED <<guard, txnRows, txnLocals, txnTokens, txnDelivered, txnHistory>>

\* max_age seconds pass.
Age(b) ==
    /\ b \in recent
    /\ recent' = recent \ {b}
    /\ UNCHANGED <<guard, txnRows, sessionUser, txnLocals, txnTokens, txnDelivered, txnHistory>>

\* load_actionable: only a pending row can be decided.
Actionable(x) ==
    /\ TxnRead(x).exists
    /\ x \notin expired
    /\ ~TxnRead(x).used
    /\ ~TxnRead(x).approved /\ ~TxnRead(x).denied

\* step_up_satisfied: no session carries an acr.
StepUpSatisfied(x, b) ==
    /\ challenge[x] \notin AcrBound
    /\ challenge[x] \in StepUp => b \in recent

\* approve_page: a session that is too weak loses its user, keeps its
\* auth_time, and is sent to the login page; otherwise the page is shown.
ForceLogin(x, b) ==
    /\ sessionUser[b] # None
    /\ Actionable(x)
    /\ ~StepUpSatisfied(x, b)
    /\ sessionUser' = [sessionUser EXCEPT ![b] = None]
    /\ UNCHANGED <<guard, txnRows, recent, txnLocals, txnTokens, txnDelivered, txnHistory>>

\* Mutant: the step-up is checked by the page only.
SubmitUnchecked(r, x, b, action) ==
    /\ sessionUser[b] # None
    /\ Actionable(x)
    /\ TxnBegin(r, action, x, sessionUser[b])
    /\ contested' = IF TxnInFlight(x, Deciding) \/ TxnRead(x) # TxnCopy(x)
                  THEN contested \cup {x} ELSE contested
    /\ unfresh' = IF b \in recent THEN unfresh ELSE unfresh \cup {r}
    /\ UNCHANGED <<guard, txnRows, sessions, txnTokens, txnDelivered, txnRaced>>

\* approve_submit loads the row and checks the step-up once more; any action
\* but "approve" is a denial.
BeginSettle(r, x, b, action) ==
    /\ sessionUser[b] # None
    /\ Actionable(x)
    /\ StepUpSatisfied(x, b)
    /\ TxnBegin(r, action, x, sessionUser[b])
    /\ contested' = IF TxnInFlight(x, Deciding) \/ TxnRead(x) # TxnCopy(x)
                  THEN contested \cup {x} ELSE contested
    /\ unfresh' = IF b \in recent THEN unfresh ELSE unfresh \cup {r}
    /\ UNCHANGED <<guard, txnRows, sessions, txnTokens, txnDelivered, txnRaced>>

\* UPDATE ... SET approved = ?, denied = ?, user_id = ?
SettleTransactionAuthorization(r) ==
    LET x == txn[r] yes == txnPc[r] = "approve" IN
    /\ txnPc[r] \in Deciding
    /\ approved' = IF yes THEN approved \cup {x} ELSE approved \ {x}
    /\ denied' = IF yes THEN denied \ {x} ELSE denied \cup {x}
    /\ approver' = [approver EXCEPT ![x] = txnUser[r]]
    /\ TxnStep(r, "done")
    /\ UNCHANGED <<guard, opening, used, expired, copies, sessions, txnTokens, txnDelivered, txnHistory>>

-----------------------------------------------------------------------------
(* Polling *)

\* Mutant: denied rows are told apart by approved alone, used ones not at all.
TxnRedeemableAgain(x) == TxnRead(x).approved /\ x \notin expired

\* The checks of the polling grant on the row it read.
TxnRedeemable(x) ==
    /\ ~TxnRead(x).used
    /\ x \notin expired
    /\ ~TxnRead(x).denied
    /\ TxnRead(x).approved
    /\ TxnRead(x).user # None

BeginTxnPoll(r, x) ==
    /\ TxnRedeemable(x)
    /\ TxnBegin(r, "mint", x, TxnRead(x).user)
    /\ txnRaced' = IF TxnInFlight(x, Redeeming) \/ TxnRead(x) # TxnCopy(x)
                 THEN txnRaced \cup {x} ELSE txnRaced
    /\ UNCHANGED <<guard, txnRows, sessions, txnTokens, txnDelivered, contested, unfresh>>

CreateTxnToken(r) ==
    /\ txnPc[r] = "mint"
    /\ txnTokens' = txnTokens \cup {<<r, txn[r], txnUser[r]>>}
    /\ TxnStep(r, "mark")
    /\ UNCHANGED <<guard, txnRows, sessions, txnDelivered, txnHistory>>

MarkTransactionAuthorizationUsed(r) ==
    /\ txnPc[r] = "mark"
    /\ used' = used \cup {txn[r]}
    /\ txnDelivered' = txnDelivered \cup {r}
    /\ TxnStep(r, "done")
    /\ UNCHANGED <<guard, opening, approved, denied, expired, approver, copies, sessions, txnTokens, txnHistory>>

AbortTxn(r) ==
    /\ txnPc[r] \notin {"idle", "done"}
    /\ TxnStep(r, "done")
    /\ UNCHANGED <<guard, txnRows, sessions, txnTokens, txnDelivered, txnHistory>>

TxnNext ==
    \/ \E p \in Process, k \in Challenge :
          \/ WasteChallenge(p, k) \/ ForgetJti(p, k) \/ EvictJti(p, k)
          \/ \E x \in Txn : OpenTransaction(p, k, x)
    \/ \E k \in Challenge : PassExp(k)
    \/ \E x \in Txn : ExpireTxn(x) \/ TxnReplicate(x)
    \/ \E b \in Browser :
          \/ Age(b)
          \/ \E u \in User, password \in BOOLEAN : Login(b, u, password)
          \/ \E x \in Txn : ForceLogin(x, b)
    \/ \E r \in Slot, x \in Txn :
          BeginTxnPoll(r, x) \/ \E b \in Browser, action \in Deciding : BeginSettle(r, x, b, action)
    \/ \E r \in Slot :
          \/ SettleTransactionAuthorization(r)
          \/ CreateTxnToken(r)
          \/ MarkTransactionAuthorizationUsed(r)
          \/ AbortTxn(r)

TxnSpec == TxnInit /\ [][TxnNext]_txnVars

-----------------------------------------------------------------------------
(* Properties *)

\* Rows, sessions and locals keep their shape; a row is not approved and
\* denied at once, and a flag is set only on a row that exists.
TxnTypeOK ==
    /\ seen \in [Process -> SUBSET Challenge]
    /\ phase \in [Challenge -> {"valid", "leeway", "over"}]
    /\ challenge \in [Txn -> Challenge \cup {None}]
    /\ opener \in [Txn -> Process \cup {None}]
    /\ \A x \in Txn : challenge[x] # None => opener[x] \in Process
    /\ lagging \in BOOLEAN
    /\ txnReplica \in [Txn -> [exists : BOOLEAN, approved : BOOLEAN, denied : BOOLEAN,
                               used : BOOLEAN, user : User \cup {None}]]
    /\ approved \cup denied \cup used \cup expired \subseteq {x \in Txn : challenge[x] # None}
    /\ approved \cap denied = {}
    /\ approver \in [Txn -> User \cup {None}]
    /\ sessionUser \in [Browser -> User \cup {None}]
    /\ recent \subseteq Browser
    /\ txnPc \in [Slot -> Redeeming \cup Deciding \cup {"idle", "done"}]
    /\ txn \in [Slot -> Txn \cup {None}]
    /\ txnUser \in [Slot -> User \cup {None}]
    /\ txnTokens \subseteq Slot \X Txn \X User
    /\ txnDelivered \subseteq Slot /\ unfresh \subseteq Slot
    /\ txnRaced \cup contested \cup late \subseteq Txn
    /\ evicted \subseteq Process \X Challenge

\* The user's word stands: unless two submissions overlapped, or one was made
\* on a stale copy of the row, a token bears the name of the one user who ever settled its row, the row still says that
\* this user approved it, and nothing can change that any more.
TokenAsDecided ==
    \A t \in txnTokens : t[2] \notin contested =>
        /\ t[2] \in approved
        /\ approver[t[2]] = t[3]
        /\ ~TxnInFlight(t[2], Deciding)

\* Step-up cannot be skipped: a decision on a challenge with max_age is under
\* way, and has settled the row, only from a session whose auth_time was recent
\* when it was checked, and a challenge with acr_values is never approved.
StepUpEnforced ==
    /\ \A r \in unfresh : challenge[txn[r]] \notin StepUp
    /\ \A x \in approved : challenge[x] \notin AcrBound

\* One token unless two polls overlapped between the read and the mark, or one
\* read a stale copy of the row.
TxnDeliveredOnce ==
    \A r, s \in txnDelivered : r # s /\ txn[r] = txn[s] => txn[r] \in txnRaced

\* Single use as far as the code has it: two transactions that one process
\* opened for one challenge are due to one of three gaps, and there is no
\* fourth: the challenge outlives MAX_TTL_SECS, its entry was evicted from a
\* full guard, or one of the two was opened within the leeway after exp.
ChallengeOncePerProcess ==
    \A x, y \in Txn :
        x # y /\ challenge[x] # None /\ challenge[x] = challenge[y] /\ opener[x] = opener[y] =>
            \/ challenge[x] \in LongLived
            \/ <<opener[x], challenge[x]>> \in evicted
            \/ x \in late \/ y \in late

\* A token for a transaction is what its user decided, in a session that
\* satisfied the challenge when the decision was submitted; one is delivered,
\* unless two polls overlapped; and a challenge begins one transaction in a
\* process but for the gaps of its replay guard.
AsDecided ==
    TxnTypeOK /\ TokenAsDecided /\ StepUpEnforced /\ TxnDeliveredOnce /\ ChallengeOncePerProcess

\* Without a replica, decisions and polls implement the abstract approval.
TxnApproval == INSTANCE HumanApproval WITH
    Subject <- Txn, Request <- Slot, tokens <- txnTokens,
    verdict <- [x \in Txn |-> IF x \in approved THEN "approved"
                              ELSE IF x \in denied THEN "denied" ELSE "pending"],
    spent <- used,
    claims <- {<<r, txn[r], txnUser[r]>> : r \in {q \in Slot : txnPc[q] = "mint"}}

TransactionApproval ==
    TxnApproval!Init /\ [][lagging \/ TxnApproval!Next]_(TxnApproval!vars)
=============================================================================
