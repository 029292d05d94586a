---------------------------- MODULE ClientRegistry ----------------------------
(***************************************************************************)
(* The clients table, the two caches in front of it and everyone who       *)
(* writes it: registration by an operator or by the client itself (RFC     *)
(* 7591), the client's own updates and deletion (RFC 7592), rows made from *)
(* metadata documents named by URL (CIMD), and the administrator.  A       *)
(* request waits for Redis, for the database, or for a trusted issuer's    *)
(* keys between any two of its steps.  The administrator writes the table  *)
(* behind the caches' back.                                                *)
(***************************************************************************)
EXTENDS Integers, FiniteSets

CONSTANTS
    Id, Url,        \* client ids, and those that name a metadata document
    Node, Request, None,
    Seeds,          \* the tables to start from: sets of Id -> Row or None
    Kinds,          \* the operations that happen in this instance
    Redis,          \* the L2 cache is configured
    ReadsFail,      \* a read of Redis or of the database may fail
    Cap,            \* cimd_max_clients, 0 for no limit
    TTL,            \* lifetime of an entry of either cache
    Body,           \* what registrations and updates ask for: [priv, agent, actors,
                    \* public, usable, ver] and a software statement, None or [priv,
                    \* agent] verified under the keys of a trusted issuer
    Edit,           \* what edits ask for: [enabled, priv], None leaves it alone
    MaxLatency,     \* bound on the duration of a request
    MaxSecret, MaxVersion  \* bounds on the secrets and the documents

VARIABLES
    row,        \* the clients table
    l1, l2,     \* the caches: entries per node and id, and per id
    docs,       \* the metadata document behind each URL
    req,        \* the requests under way
    answer,     \* history: the last answer given on the strength of a row
    left,       \* history: how long ago each secret stopped being the row's
    off,        \* history: how long ago an operator decided that the client is
                \* disabled, None if the last decision is another or there is none
    undone,     \* history: how old that decision was when another's copy of the
                \* row, read before it, put enabled back, or None
    placed,     \* history: how long ago the row became one that no document made
    issued,     \* history: the ids and the number of secrets given out
    granted,    \* history: what operators and statements gave the client
    revived     \* history: the ids whose row was gone when an update cached it

table == <<row, left, off, undone, placed>>
world == <<table, issued>>
hist == <<granted, revived>>
vars == <<world, l1, l2, docs, req, answer, hist>>

\* The columns the properties tell apart.  ver stands for all the metadata a
\* client or its document may change, agent for a software_id that names an
\* agent, actors for allowed_actors that are not empty, token for a registration
\* access token, and secret 0 is that of a public client.
Row == [secret : 0..MaxSecret, enabled : BOOLEAN, priv : BOOLEAN,
        agent : BOOLEAN, actors : BOOLEAN, managed : BOOLEAN, token : BOOLEAN, ver : 0..MaxVersion]

NewClient == [secret |-> 0, enabled |-> TRUE, priv |-> FALSE, agent |-> FALSE,
              actors |-> FALSE, managed |-> FALSE, token |-> FALSE, ver |-> 0]

\* What not everybody may have of it.  Either of the last two makes the client
\* an AI agent (is_ai_agent).
Privilege == {"priv", "agent", "actors"}
Privileges(c) ==
    {g \in Privilege : \/ g = "priv" /\ c.priv
                       \/ g = "agent" /\ c.agent
                       \/ g = "actors" /\ c.actors}

Document == [ver : 0..MaxVersion, priv : BOOLEAN]

\* A software statement says what it says of a client, None where it says
\* nothing; a body and an edit ask.
Statement == [priv : BOOLEAN \cup {None}, agent : BOOLEAN \cup {None}]
BodyRecord == [priv : BOOLEAN, agent : BOOLEAN \cup {None}, actors : BOOLEAN, public : BOOLEAN, usable : BOOLEAN,
               ver : 0..MaxVersion, statement : Statement \cup {None}]
EditRecord == [enabled : BOOLEAN \cup {None}, priv : BOOLEAN \cup {None}]

\* The secret a client presents.
Presented == [secret : 1..MaxSecret]

\* An entry of either cache.
Entry == [row : Row, age : 0..TTL]

\* A request under way; copy is the row it works on, and blind says that it
\* looked for the row in vain because the lookup failed.
Stage == {"look", "redis", "read", "set", "cache", "got", "materialize", "lookup",
          "rewrite", "count", "save", "adopt", "keep", "write", "delete"}
Operation == {"secret", "use", "put", "drop", "register", "edit"}
UnderWay == [pc : Stage, node : Node \cup {None}, op : Operation, id : Id,
             arg : Document \cup Body \cup Edit \cup Presented \cup {None},
             copy : Row \cup {None}, age : 0..MaxLatency, blind : BOOLEAN]

Idle == [pc |-> "idle", node |-> None, op |-> None, id |-> None, arg |-> None,
         copy |-> None, age |-> 0, blind |-> FALSE]

\* What is given out on the strength of a row: whether a secret is the client's,
\* and the use of a client.
Verdict == [kind : {"secret"}, id : Id, secret : 1..MaxSecret, ok : BOOLEAN]
Use == [kind : {"use"}, id : Id, enabled : BOOLEAN, blind : BOOLEAN]

ASSUME BoundAssumption ==
    TTL \in Nat /\ MaxLatency \in Nat /\ MaxSecret \in Nat /\ MaxVersion \in Nat /\ Cap \in Nat
ASSUME InputAssumption ==
    /\ Url \subseteq Id /\ Body \subseteq BodyRecord /\ Edit \subseteq EditRecord
    /\ Seeds \subseteq [Id -> Row \cup {None}]
ASSUME NoneAssumption ==
    /\ None \notin Row /\ None \notin Entry /\ None \notin Nat /\ None \notin BOOLEAN
    /\ None \notin Stage /\ None \notin Operation

Init ==
    /\ row \in Seeds
    /\ l1 = [n \in Node |-> [i \in Id |-> None]]
    /\ l2 = [i \in Id |-> None]
    /\ docs = [u \in Url |-> [ver |-> 0, priv |-> FALSE]]
    /\ req = [r \in Request |-> Idle]
    /\ answer = None
    /\ left = [i \in Id |-> [s \in 1..MaxSecret |-> None]]
    /\ off = [i \in Id |-> IF row[i] # None /\ ~row[i].enabled THEN 0 ELSE None]
    /\ undone = [i \in Id |-> None] /\ placed = [i \in Id |-> None]
    /\ issued = [ids |-> {i \in Id : row[i] # None}, secrets |-> 1]
    /\ granted = [i \in Id |-> IF row[i] = None THEN {} ELSE Privileges(row[i])]
    /\ revived = {}

Fresh(entry) == entry # None /\ entry.age < TTL

Is(r, pc, ops) == req[r].pc = pc /\ req[r].op \in ops
Goto(r, pc) == req' = [req EXCEPT ![r].pc = pc]
Hold(r, copy, pc) == req' = [req EXCEPT ![r].pc = pc, ![r].copy = copy]
Done(r) == req' = [req EXCEPT ![r] = Idle]

-----------------------------------------------------------------------------
(* The table *)

\* One statement replaces the row of i by c; the rest records history.  decides
\* says that whether the client is enabled is decided now, by an operator or
\* because it is registered now.
SetRow(i, c, decides) ==
    /\ row' = [row EXCEPT ![i] = c]
    /\ left' = IF row[i] # None /\ row[i].secret # 0 /\ (c # None => c.secret # row[i].secret)
               THEN [left EXCEPT ![i][row[i].secret] = 0] ELSE left
    /\ off' = [off EXCEPT ![i] = IF c = None THEN None
                                 ELSE IF ~decides THEN off[i]
                                 ELSE IF c.enabled THEN None
                                 ELSE IF off[i] = None \/ undone[i] # None THEN 0 ELSE off[i]]
    /\ undone' = [undone EXCEPT ![i] = IF c = None \/ decides THEN None
                                       ELSE IF undone[i] = None /\ c.enabled THEN off[i]
                                       ELSE undone[i]]
    /\ placed' = [placed EXCEPT ![i] = IF c = None \/ c.managed THEN None
                                       ELSE IF row[i] = None \/ row[i].managed THEN 0
                                       ELSE placed[i]]

\* UPDATE ... WHERE client_id: no effect, and no error, without a row.
update_client(i, c, decides) ==
    IF row[i] = None THEN UNCHANGED table ELSE SetRow(i, c, decides)

-----------------------------------------------------------------------------
(* GetClient and ValidateClient: L1, then Redis, then the database *)

BeginSecret(r, n, i, s) ==
    /\ "secret" \in Kinds /\ req[r] = Idle
    /\ req' = [req EXCEPT ![r] = [pc |-> "look", node |-> n, op |-> "secret",
                 id |-> i, arg |-> [secret |-> s], copy |-> None, age |-> 0, blind |-> FALSE]]
    /\ UNCHANGED <<world, l1, l2, docs, answer, hist>>

\* The document's scope, grant types and redirect URIs are held to the rules
\* of registration; priv stands for any of them being unacceptable.
validate_metadata_document(doc) == ~doc.priv

\* authorize, PAR and the token grants.  A URL is dereferenced first.
resolve_client(r, n, i) ==
    /\ "use" \in Kinds /\ req[r] = Idle
    /\ i \in Url => validate_metadata_document(docs[i])
    /\ req' = [req EXCEPT ![r] = [pc |-> "look", node |-> n, op |-> "use",
                 id |-> i, arg |-> IF i \in Url THEN docs[i] ELSE None,
                 copy |-> None, age |-> 0, blind |-> FALSE]]
    /\ UNCHANGED <<world, l1, l2, docs, answer, hist>>

BeginPut(r, n, i, body) ==
    /\ "put" \in Kinds /\ req[r] = Idle
    /\ req' = [req EXCEPT ![r] = [pc |-> "look", node |-> n, op |-> "put",
                 id |-> i, arg |-> body, copy |-> None, age |-> 0, blind |-> FALSE]]
    /\ UNCHANGED <<world, l1, l2, docs, answer, hist>>

BeginDrop(r, n, i) ==
    /\ "drop" \in Kinds /\ req[r] = Idle
    /\ req' = [req EXCEPT ![r] = [pc |-> "look", node |-> n, op |-> "drop",
                 id |-> i, arg |-> None, copy |-> None, age |-> 0, blind |-> FALSE]]
    /\ UNCHANGED <<world, l1, l2, docs, answer, hist>>

\* Mutant: a cached client never expires.
LookNoExpiry(r) ==
    LET q == req[r]
        e == l1[q.node][q.id]
    IN /\ q.pc = "look"
       /\ IF e # None THEN Hold(r, e.row, "got") /\ UNCHANGED l1
          ELSE /\ Goto(r, IF Redis THEN "redis" ELSE "read")
               /\ UNCHANGED l1
       /\ UNCHANGED <<world, l2, docs, answer, hist>>

\* The actor looks in its LRU map before it waits; an expired entry goes.
get_cached_client(r) ==
    LET q == req[r]
        e == l1[q.node][q.id]
    IN /\ q.pc = "look"
       /\ IF Fresh(e) THEN Hold(r, e.row, "got") /\ UNCHANGED l1
          ELSE /\ Goto(r, IF Redis THEN "redis" ELSE "read")
               /\ l1' = [l1 EXCEPT ![q.node][q.id] = None]
       /\ UNCHANGED <<world, l2, docs, answer, hist>>

\* A hit in Redis is promoted; an error counts as a miss.
ReadRedis(r) ==
    LET q == req[r]
    IN /\ q.pc = "redis"
       /\ \/ Fresh(l2[q.id]) /\ Hold(r, l2[q.id].row, "cache")
          \/ (ReadsFail \/ ~Fresh(l2[q.id])) /\ Goto(r, "read")
       /\ UNCHANGED <<world, l1, l2, docs, answer, hist>>

\* Mutant: that there is no row is cached, too.
GetClientOrNothing(r) ==
    LET q == req[r]
    IN /\ q.pc = "read"
       /\ Hold(r, row[q.id], IF Redis THEN "set" ELSE "cache")
       /\ UNCHANGED <<world, l1, l2, docs, answer, hist>>

get_client(r) ==
    LET q == req[r]
    IN /\ q.pc = "read"
       /\ IF row[q.id] # None THEN Hold(r, row[q.id], IF Redis THEN "set" ELSE "cache")
          ELSE IF q.op = "use" /\ q.id \in Url THEN Goto(r, "got") ELSE Done(r)
       /\ UNCHANGED <<world, l1, l2, docs, answer, hist>>

\* resolve_client goes on when the lookup of the row fails; the others stop.
ReadFails(r) ==
    LET q == req[r]
    IN /\ ReadsFail /\ q.pc = "read"
       /\ IF q.op = "use" /\ q.id \in Url
          THEN req' = [req EXCEPT ![r].pc = "got", ![r].blind = TRUE] ELSE Done(r)
       /\ UNCHANGED <<world, l1, l2, docs, answer, hist>>

WriteRedis(r) ==
    LET q == req[r]
    IN /\ q.pc = "set"
       /\ l2' = [l2 EXCEPT ![q.id] = [row |-> q.copy, age |-> 0]]
       /\ Goto(r, "cache")
       /\ UNCHANGED <<world, l1, docs, answer, hist>>

\* try_send of CacheClient: the actor's mailbox may be full.
Insert(r) ==
    LET q == req[r]
    IN \/ l1' = [l1 EXCEPT ![q.node][q.id] = [row |-> q.copy, age |-> 0]]
       \/ UNCHANGED l1

CacheClient(r) ==
    /\ req[r].pc = "cache"
    /\ Insert(r)
    /\ Goto(r, "got")
    /\ UNCHANGED <<world, l2, docs, answer, hist>>

\* The caller is told whether the secret matches the copy.
ValidateClient(r) ==
    /\ Is(r, "got", {"secret"})
    /\ answer' = [kind |-> "secret", id |-> req[r].id, secret |-> req[r].arg.secret,
                  ok |-> req[r].copy.secret = req[r].arg.secret]
    /\ Done(r)
    /\ UNCHANGED <<world, l1, l2, docs, hist>>

\* A registered client is used as the copy has it, enabled or not.
UseRegistered(r) ==
    /\ Is(r, "got", {"use"}) /\ req[r].id \notin Url
    /\ answer' = [kind |-> "use", id |-> req[r].id, enabled |-> req[r].copy.enabled,
                  blind |-> FALSE]
    /\ Done(r)
    /\ UNCHANGED <<world, l1, l2, docs, hist>>

-----------------------------------------------------------------------------
(* Clients from metadata documents: MaterializeCimdClient *)

\* A document is not used while the row found, if any, is disabled.
UseUrl(r) ==
    /\ Is(r, "got", {"use"}) /\ req[r].id \in Url
    /\ IF req[r].copy # None /\ ~req[r].copy.enabled THEN Done(r)
       ELSE Goto(r, "materialize")
    /\ UNCHANGED <<world, l1, l2, docs, answer, hist>>

cimd_row_matches(stored, doc) ==
    stored.ver = doc.ver /\ stored.priv = doc.priv /\ stored.managed

FromDocument(doc) ==
    [NewClient EXCEPT !.ver = doc.ver, !.priv = doc.priv, !.managed = TRUE]

\* The document's metadata with what an operator owns of the existing row.
preserve_operator_state(doc, existing) ==
    [FromDocument(doc) EXCEPT !.enabled = existing.enabled,
                              !.token = existing.token,
                              !.agent = existing.agent,
                              !.actors = existing.actors]

\* The request goes on, on the strength of the document.
UseDocument(r) ==
    answer' = [kind |-> "use", id |-> req[r].id, enabled |-> TRUE, blind |-> req[r].blind]

MaterializeCimdClient(r) ==
    LET q == req[r]
        e == l1[q.node][q.id]
    IN /\ q.pc = "materialize"
       /\ IF Fresh(e) /\ cimd_row_matches(e.row, q.arg)
          THEN Done(r) /\ UseDocument(r)
          ELSE Goto(r, "lookup") /\ UNCHANGED answer
       /\ l1' = [l1 EXCEPT ![q.node][q.id] = IF Fresh(e) THEN e ELSE None]
       /\ UNCHANGED <<world, l2, docs, hist>>

\* Mutant: only a row with a secret is left alone.
LookupSecretOnly(r) ==
    LET q == req[r]
        existing == row[q.id]
    IN /\ q.pc = "lookup"
       /\ CASE existing = None -> Goto(r, "count")
            [] existing # None /\ existing.secret # 0 -> Done(r)
            [] OTHER -> Hold(r, preserve_operator_state(q.arg, existing),
                             IF cimd_row_matches(existing, q.arg) THEN "keep" ELSE "rewrite")
       /\ UNCHANGED <<world, l1, l2, docs, answer, hist>>

\* A row with a secret, or not made from a document, is left alone.
Lookup(r) ==
    LET q == req[r]
        existing == row[q.id]
    IN /\ q.pc = "lookup"
       /\ CASE existing = None -> Goto(r, "count")
            [] existing # None /\ (existing.secret # 0 \/ ~existing.managed) -> Done(r)
            [] OTHER -> Hold(r, preserve_operator_state(q.arg, existing),
                             IF cimd_row_matches(existing, q.arg) THEN "keep" ELSE "rewrite")
       /\ UNCHANGED <<world, l1, l2, docs, answer, hist>>

Rewrite(r) ==
    /\ req[r].pc = "rewrite"
    /\ update_client(req[r].id, req[r].copy, FALSE)
    /\ Goto(r, "keep")
    /\ UNCHANGED <<issued, l1, l2, docs, answer, hist>>

Managed == {i \in Id : row[i] # None /\ row[i].managed}

count_cimd_clients(r) ==
    /\ req[r].pc = "count"
    /\ IF Cap > 0 /\ Cardinality(Managed) >= Cap THEN Done(r) ELSE Goto(r, "save")
    /\ UNCHANGED <<world, l1, l2, docs, answer, hist>>

\* The insert, or the row that another request inserted meanwhile.
SaveDocument(r) ==
    LET q == req[r]
        c == FromDocument(q.arg)
    IN /\ q.pc = "save"
       /\ IF row[q.id] = None
          THEN /\ SetRow(q.id, c, FALSE)
               /\ issued' = [issued EXCEPT !.ids = @ \cup {q.id}]
               /\ Hold(r, c, "keep")
          ELSE Goto(r, "adopt") /\ UNCHANGED world
       /\ UNCHANGED <<l1, l2, docs, answer, hist>>

Adopt(r) ==
    LET q == req[r]
    IN /\ q.pc = "adopt"
       /\ IF row[q.id] = None THEN Done(r)
          ELSE Hold(r, preserve_operator_state(q.arg, row[q.id]), "keep")
       /\ UNCHANGED <<world, l1, l2, docs, answer, hist>>

KeepDocument(r) ==
    /\ Is(r, "keep", {"use"})
    /\ Insert(r)
    /\ UseDocument(r)
    /\ Done(r)
    /\ UNCHANGED <<world, l2, docs, hist>>

\* The owner of the URL changes the document.
PublishDocument(u, d) ==
    /\ docs[u].ver < MaxVersion
    /\ d.ver = docs[u].ver + 1
    /\ docs' = [docs EXCEPT ![u] = d]
    /\ UNCHANGED <<world, l1, l2, req, answer, hist>>

-----------------------------------------------------------------------------
(* Registration, and the client's own updates *)

\* The claims of a verified statement replace those of the body; what it omits
\* is left alone.
apply_software_statement(body) ==
    LET st == body.statement
    IN IF st = None THEN body
       ELSE [body EXCEPT !.priv = IF st.priv = None THEN @ ELSE st.priv,
                         !.agent = IF st.agent = None THEN @ ELSE st.agent]

clear_self_asserted_software_metadata(body) == [body EXCEPT !.agent = None]

\* Redirect URIs, grant types, the authentication method and its keys.
UsableMetadata(body) == body.usable

validate_registration(body) == UsableMetadata(body) /\ ~body.priv

\* Mutant: the statement is merged after validation.
MergeAfterValidation(body) ==
    LET m == apply_software_statement(clear_self_asserted_software_metadata(body))
    IN [priv |-> m.priv, agent |-> m.agent, actors |-> FALSE, ok |-> validate_registration(body)]

\* What a client may say of itself.
SelfAsserted(body) ==
    LET m == apply_software_statement(clear_self_asserted_software_metadata(body))
    IN [priv |-> m.priv, agent |-> m.agent, actors |-> FALSE, ok |-> validate_registration(m)]

\* An operator may ask for any scope, and for trust in actors.
Operator(body) ==
    LET m == apply_software_statement(body)
    IN [priv |-> m.priv, agent |-> m.agent, actors |-> m.actors, ok |-> UsableMetadata(m)]

\* History: what a verified statement is responsible for.
Attested(body) ==
    {g \in {"agent"} : body.statement # None /\ body.statement.agent = TRUE}

\* RegisterClient, with a new random id, from either endpoint.
RegisterClient(r, n, i, by, body) ==
    LET m == IF by = "operator" THEN Operator(body) ELSE SelfAsserted(body)
        c == [NewClient EXCEPT !.secret = IF body.public THEN 0 ELSE issued.secrets,
                !.priv = m.priv, !.agent = (m.agent = TRUE), !.actors = m.actors,
                !.token = TRUE, !.ver = body.ver]
    IN /\ "register" \in Kinds /\ req[r] = Idle
       /\ i \in Id \ (Url \cup issued.ids)
       /\ body.public \/ issued.secrets <= MaxSecret
       /\ m.ok
       /\ SetRow(i, c, TRUE)
       /\ issued' = [ids |-> issued.ids \cup {i},
                     secrets |-> issued.secrets + IF body.public THEN 0 ELSE 1]
       /\ granted' = [granted EXCEPT ![i] =
             @ \cup IF by = "operator" THEN Privileges(c) ELSE Attested(body)]
       /\ req' = [req EXCEPT ![r] = [pc |-> "keep", node |-> n, op |-> "register",
                    id |-> i, arg |-> None, copy |-> c, age |-> 0, blind |-> FALSE]]
       /\ UNCHANGED <<l1, l2, docs, answer, revived>>

\* PUT: the registration token is checked against the copy, the statement is
\* verified, and the copy takes the new metadata.
update_client_configuration(r) ==
    LET q == req[r]
        m == SelfAsserted(q.arg)
    IN /\ Is(r, "got", {"put"})
       /\ IF q.copy.token /\ m.ok
          THEN /\ Hold(r, [q.copy EXCEPT !.ver = q.arg.ver, !.priv = m.priv,
                                         !.agent = IF m.agent = None THEN @ ELSE m.agent],
                       "write")
               /\ granted' = [granted EXCEPT ![q.id] = @ \cup Attested(q.arg)]
          ELSE Done(r) /\ UNCHANGED granted
       /\ UNCHANGED <<world, l1, l2, docs, answer, revived>>

\* UpdateClient writes every column of the copy.
UpdateClient(r) ==
    /\ Is(r, "write", {"put"})
    /\ update_client(req[r].id, req[r].copy, FALSE)
    /\ Goto(r, "keep")
    /\ revived' = IF row[req[r].id] = None THEN revived \cup {req[r].id} ELSE revived
    /\ UNCHANGED <<issued, l1, l2, docs, answer, granted>>

KeepRegistered(r) ==
    /\ Is(r, "keep", {"put", "register"})
    /\ Insert(r)
    /\ Done(r)
    /\ UNCHANGED <<world, l2, docs, answer, hist>>

\* DELETE: DeleteClient evicts the entry of its node, then deletes the row.
DeleteClient(r) ==
    LET q == req[r]
    IN /\ Is(r, "got", {"drop"})
       /\ IF q.copy.token
          THEN Goto(r, "delete") /\ l1' = [l1 EXCEPT ![q.node][q.id] = None]
          ELSE Done(r) /\ UNCHANGED l1
       /\ UNCHANGED <<world, l2, docs, answer, hist>>

\* The foreign keys of tokens and codes may refuse the deletion.
delete_client(r) ==
    /\ Is(r, "delete", {"drop"})
    /\ SetRow(req[r].id, None, FALSE) \/ UNCHANGED table
    /\ Done(r)
    /\ UNCHANGED <<issued, l1, l2, docs, answer, hist>>

-----------------------------------------------------------------------------
(* The administrator, who bypasses the actor and its caches *)

\* POST /admin/api/clients: any id that is free, and nothing is validated.
create_client(i, body) ==
    /\ "create" \in Kinds /\ row[i] = None
    /\ body.public \/ issued.secrets <= MaxSecret
    /\ SetRow(i, [NewClient EXCEPT !.secret = IF body.public THEN 0 ELSE issued.secrets,
                                   !.priv = body.priv], TRUE)
    /\ issued' = [ids |-> issued.ids \cup {i},
                  secrets |-> issued.secrets + IF body.public THEN 0 ELSE 1]
    /\ granted' = [granted EXCEPT ![i] = IF body.priv THEN @ \cup {"priv"} ELSE @]
    /\ UNCHANGED <<l1, l2, docs, req, answer, revived>>

\* Disabling also revokes the tokens of the client, which are not modelled here.
set_client_enabled(i, on) ==
    /\ "enable" \in Kinds /\ row[i] # None
    /\ update_client(i, [row[i] EXCEPT !.enabled = on], TRUE)
    /\ UNCHANGED <<issued, l1, l2, docs, req, answer, hist>>

regenerate_client_secret(i) ==
    /\ "rotate" \in Kinds /\ row[i] # None
    /\ row[i].secret # 0 /\ issued.secrets <= MaxSecret
    /\ update_client(i, [row[i] EXCEPT !.secret = issued.secrets], FALSE)
    /\ issued' = [issued EXCEPT !.secrets = @ + 1]
    /\ UNCHANGED <<l1, l2, docs, req, answer, hist>>

AdminDelete(i) ==
    /\ "delete" \in Kinds /\ row[i] # None
    /\ SetRow(i, None, FALSE)
    /\ UNCHANGED <<issued, l1, l2, docs, req, answer, hist>>

\* PUT /admin/api/clients/{id} reads the row, edits it and writes it all.
ReadForEdit(r, i, edit) ==
    /\ "edit" \in Kinds /\ req[r] = Idle /\ row[i] # None
    /\ req' = [req EXCEPT ![r] = [pc |-> "write", node |-> None, op |-> "edit",
                 id |-> i, arg |-> edit, age |-> 0, blind |-> FALSE,
                 copy |-> [row[i] EXCEPT
                    !.enabled = IF edit.enabled = None THEN @ ELSE edit.enabled,
                    !.priv = IF edit.priv = None THEN @ ELSE edit.priv]]]
    /\ UNCHANGED <<world, l1, l2, docs, answer, hist>>

WriteEdit(r) ==
    LET q == req[r]
    IN /\ Is(r, "write", {"edit"})
       /\ update_client(q.id, q.copy, q.arg.enabled # None)
       /\ granted' = [granted EXCEPT ![q.id] = IF q.arg.priv = TRUE THEN @ \cup {"priv"} ELSE @]
       /\ Done(r)
       /\ UNCHANGED <<issued, l1, l2, docs, answer, revived>>

-----------------------------------------------------------------------------
\* The longest an answer can lag behind the table: a copy waits in a request
\* that fills Redis, in Redis, in one that promotes it, in the LRU map, and
\* in the request that answers.
Lag == 2 * TTL + 3 * MaxLatency

Older(age, limit) == IF age < limit THEN age + 1 ELSE limit

\* Time passes: what is past its limit no longer ages.  Requests end within
\* MaxLatency.
Tick ==
    LET Aged(e) == IF e = None THEN None ELSE [e EXCEPT !.age = Older(@, TTL)]
        Since(t, limit) == IF t = None THEN None ELSE Older(t, limit + 1)
    IN /\ \A r \in Request : req[r] # Idle => req[r].age < MaxLatency
       /\ l1' = [n \in Node |-> [i \in Id |-> Aged(l1[n][i])]]
       /\ l2' = [i \in Id |-> Aged(l2[i])]
       /\ req' = [r \in Request |-> IF req[r] = Idle THEN Idle
                                    ELSE [req[r] EXCEPT !.age = @ + 1]]
       /\ left' = [i \in Id |-> [s \in 1..MaxSecret |-> Since(left[i][s], Lag)]]
       /\ off' = [i \in Id |-> Since(off[i], Lag)]
       /\ placed' = [i \in Id |-> Since(placed[i], MaxLatency)]
       /\ answer' = None
       /\ UNCHANGED <<row, undone, issued, docs, hist>>

Step(r) ==
    \/ get_cached_client(r) \/ ReadRedis(r) \/ get_client(r) \/ ReadFails(r)
    \/ WriteRedis(r) \/ CacheClient(r) \/ ValidateClient(r) \/ UseRegistered(r)
    \/ UseUrl(r) \/ MaterializeCimdClient(r) \/ Lookup(r) \/ Rewrite(r)
    \/ count_cimd_clients(r) \/ SaveDocument(r) \/ Adopt(r) \/ KeepDocument(r)
    \/ update_client_configuration(r) \/ UpdateClient(r) \/ KeepRegistered(r)
    \/ DeleteClient(r) \/ delete_client(r) \/ WriteEdit(r)

Arrive(r) ==
    \/ \E n \in Node, i \in Id :
          \/ \E s \in 1..MaxSecret : BeginSecret(r, n, i, s)
          \/ resolve_client(r, n, i)
          \/ \E body \in Body : BeginPut(r, n, i, body)
          \/ BeginDrop(r, n, i)
          \/ \E by \in {"operator", "self"}, body \in Body :
                RegisterClient(r, n, i, by, body)
    \/ \E i \in Id, edit \in Edit : ReadForEdit(r, i, edit)

Next ==
    \/ \E r \in Request : Step(r) \/ Arrive(r)
    \/ \E u \in Url, d \in Document : PublishDocument(u, d)
    \/ \E i \in Id : \/ \E on \in BOOLEAN : set_client_enabled(i, on)
                     \/ regenerate_client_secret(i)
                     \/ AdminDelete(i)
                     \/ \E body \in Body : create_client(i, body)
    \/ Tick

Spec == Init /\ [][Next]_vars

-----------------------------------------------------------------------------
(* Properties *)

\* The table, caches, requests, answers and histories keep their shape, ages
\* and numbers their bounds.
TypeOK ==
    /\ row \in [Id -> Row \cup {None}]
    /\ l1 \in [Node -> [Id -> Entry \cup {None}]] /\ l2 \in [Id -> Entry \cup {None}]
    /\ docs \in [Url -> Document]
    /\ req \in [Request -> UnderWay \cup {Idle}]
    /\ answer \in Verdict \cup Use \cup {None}
    /\ left \in [Id -> [1..MaxSecret -> 0..(Lag + 1) \cup {None}]]
    /\ off \in [Id -> 0..(Lag + 1) \cup {None}]
    /\ undone \in [Id -> 0..(Lag + 1) \cup {None}]
    /\ placed \in [Id -> 0..(MaxLatency + 1) \cup {None}]
    /\ issued \in [ids : SUBSET Id, secrets : 1..(MaxSecret + 1)]
    /\ granted \in [Id -> SUBSET Privilege] /\ revived \subseteq Id

\* Neither cache is told when an administrator replaces a secret or deletes
\* a client, and an entry evicted by DELETE may be put back by a request that
\* read the row before: a secret is nevertheless accepted no later than Lag
\* after it stopped being the row's (get_cached_client, set_ex), unless an
\* update wrote to a row that was gone and cached its own copy (UpdateClient).
SecretDiesInTime ==
    (answer # None /\ answer.kind = "secret" /\ answer.ok /\ answer.id \notin revived) =>
        \/ row[answer.id] # None /\ row[answer.id].secret = answer.secret
        \/ /\ left[answer.id][answer.secret] # None
           /\ left[answer.id][answer.secret] <= Lag

\* Once an operator has disabled the row of a document's client, it is used
\* for no longer than Lag, whatever the document says, unless the lookup of the
\* row failed (resolve_client), or a refresh, an update or an edit that had read
\* the row before the decision wrote its copy after it (MaterializeCimdClient,
\* UpdateClient).  This undoes a decision no older than Lag: one that stood for
\* longer is final.
DisabledStaysOut ==
    /\ \A i \in Id : undone[i] # None => undone[i] <= Lag
    /\ (answer # None /\ answer.kind = "use" /\ answer.id \in Url /\ ~answer.blind) =>
          (off[answer.id] # None /\ undone[answer.id] = None => off[answer.id] <= Lag)

\* What was replaced or taken back is used no longer than its copies live.
StaleCopiesDie == SecretDiesInTime /\ DisabledStaysOut

\* No request for a document changes anything of a row that no document made,
\* whoever put it there and whatever it replaced, unless the row took the place
\* of a document's after the request, no older than MaxLatency, had looked
\* (MaterializeCimdClient).
NoTakeover ==
    [][\A r \in Request :
         LET u == req[r].id
         IN (req[r].op = "use" /\ req'[r] # req[r] /\ row[u] # None /\ ~row[u].managed) =>
               row'[u] = row[u] \/ (placed[u] # None /\ placed[u] <= MaxLatency)]_vars

\* A privileged scope in the table, and trust in actors, were an operator's
\* doing, and a software_id of an agent an operator's or a verified statement's,
\* whatever order registrations, updates and edits come in
\* (validate_registration, dynamic_register, software statements).
NothingSelfGranted ==
    \A i \in Id : row[i] # None => Privileges(row[i]) \subseteq granted[i]
=============================================================================
