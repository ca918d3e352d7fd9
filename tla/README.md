# TLA+ model of tr-key-vault

tr-key-vault is an HTTP service that generates keys, keeps their secret halves
wrapped with key-embedding keys (KEKs), performs JOSE operations with them on
behalf of authenticated users and records every operation in a hash-chained
audit log. A command line, `kv-admin`, administers users, ACLs and KEKs on the
same PostgreSQL database. This directory holds a model of it in TLA+, the TLC
configurations that check the model on small instances, and TLAPS proofs of its
central properties.

    tlc -config server.cfg MCVaultServer     # one of the runs of section 3
    tlapm KekRotationProofs.tla              # the proofs of one component

## 1. Inventory

| Component | Source | State it keeps | Operations | Model |
|---|---|---|---|---|
| Database access | `serverdb.js`, `migrations/0001_init.sql` | tables `vault_user`, `vault_key`; the audit chain of tr-json-chain lives beside them | one SQL statement per method, each its own transaction | `VaultDb` |
| API dispatch | `server.js`, `serverauth.js`, `errors.js` | the requests in flight, suspended at an `await` | envelope check, authentication, handler, audit append(s), answer | `VaultServer` |
| HTTP front | `server.js`, `index.js`, `dbinit.js` | connections, bodies being read, the pool of database clients, timers | body limit, timeouts, probes, shutdown | `HttpFront` |
| Operation handlers | `serverhandlers.js` | locals of each handler | healthcheck, generate-key, list-keys, public-key, create-jwt, verify-jwt, create-jwe, decrypt-jwe, revoke-key, export-key | `VaultServer` |
| Key store | `keystore.js` | unwrap cache (LRU, TTL), sweep timer | generate, loadKey, inWindow, unwrap, revoke, listKeys, sweep | `VaultServer`, `UnwrapCache` |
| Authorization data | `acl.js` | none | validateAcl, aclAllows, allowedOpsAllows, effectiveAny | `Acl` |
| Key generation | `keygen.js` | none | resolveKeyGenParams, generateVaultKey | `Keygen` |
| Embedding keys | `kek.js` | configured KEKs, active one first | load, validate, embed, extract | `KekFiles`, `KekRotation` |
| Client address | `clientip.js`, `ipmatch.js` | none | deriveClientIp, ipAllowed, validateAllowedIP | `IpMatch`, `AddressCheck` |
| Schema migration | `dbmigrate.js`, `dbinit.js` | `schema_migrations` | migrate | `Migrate` |
| kv-admin | `kvadmin.js` | locals of each command | nine commands | `KvAdmin`, `KekRotation` |
| Audit chain | `audit.js` | tr-json-chain (external) | append, seal, heartbeat, verify | records only |
| Options, helpers | `serveropts.js`, `dbopts.js`, `basicutils.js`, `kek-gen`, `Dockerfile` | none | declarations | none |

The server is one node process: handlers interleave at their `await`s, nowhere
else. It meets `kv-admin` processes (any number, each a plain sequence of
statements) and its own earlier incarnations (statements still in the database
when the process died) only in the database. Outside migrations there is no
transaction around any two statements, no lock, and no retry.

What makes this hard, and what a correct vault needs:

* **Effect, record, answer.** A DELETE or INSERT commits before its audit record
  is appended, the record before the answer leaves; each can fail, or commit
  with its reply lost, or be left behind by a crash. A success must never be
  answered unrecorded, a record must never be of work that was not done.
* **Stale reads.** The user record, the key row and the result of `missingUsers`
  are read one or more awaits before they are used; kv-admin commands write back
  whole `data` objects and work through lists of rows read at their start.
* **Concurrent revocation.** Several revocations load the same row; only the row
  count of the DELETE tells them apart.
* **A cache of secrets.** Extractions overlap with revocation, rewrap and each
  other; a secret must never be served for a row it does not belong to, and must
  go when its key does.
* **Rotating KEKs.** The runbook destroys a KEK on the strength of a count printed
  by `rewrap` and of a warning at the last start, while keys are being generated.
* **Two clocks.** The validity window goes by the vault's clock, the sweep by
  the database's.
* **Masking.** A refusal must look the same for a missing key, a denied one and
  one out of its window, while a denial is recorded twice.
* **Starting and stopping.** Several processes migrate one database; a shutdown
  takes connections, handlers, timers and the pool down in an order.
* **Boundaries.** Prefix lengths, hop counts, key lengths, ends of validity.
* **Liveness.** Every request is answered on every error path, with a single
  database client too; expired rows go though sweeps may fail and the process may
  restart; rotations, migrations and shutdowns come to their ends.

`PROJECT.json` lists every such hazard at its line with the properties that
cover it, and under "note" what those properties leave out.

## 2. Modules

| Module | Stands for | State |
|---|---|---|
| `Acl` | `acl.js` | none: pure operators |
| `VaultDb` | `serverdb.js`, the schema, the audit chain, the clocks | `users`, `keys`, `chain`, `now`; history `issued` |
| `VaultServer` | server process, extends `VaultDb` | `reqs`, `up`, `crashes` |
| `VaultPromise` | abstract specification: what clients are promised | `live`, `ever`, `kind`, `effect`, `recorded`, `answer` |
| `KvAdmin` | kv-admin, extends `VaultDb` | `cmds` |
| `VaultSystem` | server and kv-admin on one database | all of it; history `seen`, `withdrawn` |
| `UnwrapDirect` | abstract specification: unwrapping without a cache | `rows`, `calls` |
| `UnwrapCache` | the cache of `keystore.js` | `rows`, `calls`, `cache`, `now`, `wraps`, `maxEntries`; history `forgotten` |
| `KekRotation` | vault, rewrap and operator rotating KEKs | `rows`, `config`, `made`, `destroyed`, `vault`, `warned`, `gen`, `use`, `rewrap`, `phase` |
| `KekFiles` | `kekInit` and `validateKek` | `files`, `loaded`, `status` |
| `IpMatch`, `AddressCheck` | `ipmatch.js`; `clientip.js` and the address check | `client`, `chain`, `hops`, `peer`, `header`, `derived`, `verdict` |
| `Keygen` | `keygen.js` | `params`, `spec`, `key`, `answer` |
| `Migrate` | `dbmigrate.js` in several processes | `schema`, `recorded`, `holder`, `proc` |
| `HttpFront` | the process around the handlers | `main`, `conn`, `req`, `timer`, `out` |
| `Optional` | the constant `None` of the input modules | none |
| `MC*` | instances for TLC | `MCInputs` adds `subject` |
| `*Proofs` | theorems and proofs | |

A definition that stands directly before one it resembles and is used nowhere
(`AnyIds` before `DistinctIds`, `Leaked` before `Released`) is a mutation: the
bug that the property named beside it in `PROJECT.json` finds.

### How they correspond to the code

**`VaultDb`** has one operator per SQL statement. Tables are functions from the
primary key to a row or `None`; `InitialTables` is the set of databases a
behaviour may start from. A user's bearer token stands for the sha256 the table
holds. The chain is the *set* of its records: no property depends on a record's
place, and `tr-json-chain` is external. ACLs are total functions from users to a
set of classes or `None`; `validateAcl`'s array syntax is abstracted to sets, one
class ("bogus") standing for every unknown string. One representative algorithm
per compatibility class replaces the matrix of `keygen.js`, which `Keygen` has.
`issued` remembers each row as first inserted, so that "this kid once named a
key" can be said.

**`VaultServer`** keeps a record per request, whose `pc` names the `await` its
handler is suspended at. The action names follow the code path:

| Code | Actions |
|---|---|
| `handleApi`, envelope checks | `Arrive` |
| `authenticate` | `QueryUser` (the SELECT), then the first half of `Dispatch` |
| choice of handler, checks before its first await | `Dispatch`, `DispatchInherited` |
| `authorizedKey` | `QueryKey` (the SELECT), `Authorize` (the decision on the row) |
| `unwrapKey` and tr-jwt / tr-jwe | `Crypto` |
| `keystore.revoke` | `DeleteKey` |
| generate-key | `QueryMissing`, `Generate`, `InsertNewKey` |
| list-keys | `QueryList`, `FilterList` |
| the `catch` clauses | `ReadFails`, `WriteFails`, `AppendFails` |
| audit appends, answer | `AppendAudit`, `AppendDenied`, `Respond` |
| sweep timer, process death, start-up | `Sweep`, `Crash`, `Start` |

A query is two steps, its execution and the resumption of the handler, whenever
the resumed code reads the clock or the database again; otherwise one. A failed
write either did not commit or committed before the error reached the handler
(`WriteFails`, `AppendFails`). After a crash a statement already sent may still
be executed (`alive = FALSE`), with no handler to resume. `Arrive` includes
malformed envelopes, `shape = "bad"` stands for every data check that fails. A
JOSE operation ends in any of the outcomes its `catch` clauses distinguish.
`FreshKid` states what `crypto.randomUUID` is relied on for. `Crypto` takes
`unwrap` for the extraction it memoises, which `UnwrapCache` justifies.

**`KvAdmin`** walks each command through its statements; `Abort` (a failing
statement, or a kill) may come between any two. A command that failed after a
statement committed is one aborted just after it. `rewrap` may skip any row of its
list, since `extract` throws for a KEK that was not given and for contents that do
not open with one that was. Commands are started by
administrators: `MaxOperators` bounds how many run at once and is an assumption
about the environment, not the code.

**`VaultSystem`** interleaves both and adds `seen`: of what was true at some
instant of a request's flight: that the ACL of its key granted the class or did not,
that the mask of its user allowed it or did not. `withdrawn` collects the tokens
that the UPDATE of a `revoke-token` or `set-token`, or the DELETE of a
`remove-user`, took from a user.

**`VaultPromise`** has no process, queue or failure: a request is accepted,
issues or revokes at most one key, is recorded, and is answered; keys are reaped.

**`UnwrapCache`** cuts `unwrap` where the code awaits: `Hit` and `Bypass` are the
synchronous paths, `Miss` runs to the `await` of the extraction, `Extracted` from
it to the end, eviction included. `revoke` is `DeleteRow` and `ForgetKey`, with
`LoseReply` for a DELETE whose reply never comes. The Map is a sequence in
insertion order, because the eviction loop and the "touch" (delete and set) rely
on that order. An embedding is a version of a key's JWE text; the digest the code
compares tells embeddings apart. The table changes freely beside it: keys are
stored, rewrapped with a KEK this process has or has not, swept, and misplaced (a
row holding another key's embedding, which `extract` is written to notice).
**`UnwrapDirect`** is the same without a cache; the refinement mapping shows a
request that is extracting as one that has only loaded its row, and each of
`Hit`, `Bypass` and `Extracted` as the answer to it.

**`KekRotation`** puts together what no single file has: `index.js` (start, its
warning, shutdown), `kek.js` (who can unwrap what), `kvadmin.js` (`rewrap` row by
row over a list taken once, with its count of skipped rows) and the operator of
README.md 277-292. `gen` follows a key through embed (`SendInsert` fixes the KEK)
and INSERT; a kill leaves the INSERT to the database, which executes it later or
not (`InsertLate`, `DropInsert`). A row from such an INSERT is *stray*. The
operator may begin the next rotation before the last one is finished, and may run
`rewrap` with any subset of the retired files. Every row holds what embed put
there, so that here `rewrap` skips a row only for want of its KEK.

**`KekFiles`** loads the files in turn as `kekInit` does and constructs the
manager; a JWK is reduced to the members and lengths that `validateKek` looks at,
the mode of a file to the permissions of its owner, its group and the others. The
AKP algorithms are looked up in an object literal, which also answers to the names
every object inherits (`InheritedAlgs`).

**`IpMatch`** and **`AddressCheck`**: a text is the sequence of its fields between
colons, a field a hexadecimal group, a dotted quad, nothing or rubbish; the
definitions follow `parseIPv6` branch by branch. A parser's result is a set, empty
where the code returns null. The widths (8-bit octets, 16-bit
groups) are parameters, and the mask arithmetic keeps its width. The bitwise AND of
two numbers is the set of the bits both have, a power of two a recursive function:
nothing can be proved from `Bitwise`, nor from `^` by the SMT solver. The reference
definition goes the other way: from each address to the texts that mean it.
`Forward` is one trusted proxy appending the address it was called from.

**`Keygen`** has the table `KEYGEN_ALGS` and the two functions over it. The name
`constructor` stands for the names every object inherits, which the table, an
object literal, also answers to.

**`Migrate`** has one action per statement of `dbMigrate`. What PostgreSQL does
(an INSERT of a primary key that an open transaction has inserted waits for it)
is external and modelled by `holder`. Files are numbered in the order of their
names; a process of an older release was shipped with fewer.

**`HttpFront`** reduces a handler to the statements it runs and keeps what
`VaultServer` leaves out: bodies that arrive in chunks, clients that hang up,
timeouts, one pool client per statement, the timers, and `shutdown` of `index.js`
(stop timers, close the server, end the pool, exit). A handler does not notice
that its client has gone.

## 3. Runs

| Run | Question | Instance | Result |
|---|---|---|---|
| `server` | inductive invariant; audited successes; one revocation per key; ended keys unusable; keys have owners and end for a reason; `VaultServer` implements `VaultPromise` | two requests: revoke, sign, list, generate by two users on one key with and without expiry, clock 0..2, database clock 2 s ahead, grace 2 s, one crash; or generations with seven submitted ACLs and co-owners one of whom is gone, then use of the key, clock 0..1 | holds |
| `server_ops` | masking and denial records for every operation; every request answered, expired rows reaped | one request of every operation, caller, kid, token header and shape, on a key of each algorithm class, known or unknown KEK, valid at once or at time 1, or expiring; one crash; `FairSpec` | holds |
| `system` | inductive invariant, which holds that commands are recorded before they print; whoever is served, or told anything of a key, was authorized, whoever is refused without that is recorded, and who is recorded as denied lacked the class; tokens that were taken away stay dead, printed tokens work, deleted keys stay deleted, ACLs change only by update-acl | a request to sign or verify beside two of seven commands on rights, with a token for each of two set-tokens; a revocation or use beside two of update-acl and rewrap; every two commands in sequence; each killed anywhere | holds |
| `cache` | the cache is invisible, bounded in size and age, and forgets what is revoked | two requests, two keys, bound 0 or 1, TTL 2, two embeddings per key, clock 0..2 | holds |
| `rotation` | inductive invariant; no key lost or unavailable; rotations end | three KEKs (two rotations, overlapping or not), two keys, one request, one kill; `FairSpec` | holds |
| `inputs` | the address taken is the client's; allow-lists mean what they say; a vault comes up with documented KEKs in private files under distinct ids, and with no others, the two slips of section 4 excepted; keys are generated exactly for documented parameters and serve their algorithm | three independent components, of which one moves: see below | holds |
| `migrate` | inductive invariant; migrations in order and once; ready means migrated; everybody gets ready | three processes of two releases, two files, two failures; `FairSpec` | holds |
| `front` | inductive invariant; no request of a waiting client abandoned by a shutdown; every request and every shutdown ends | two connections, two requests, one timer, one database client, limit 2 units and chunks of 1 or 2, one failing statement; `FairSpec` | holds |
| `address_clamped` | a header shorter than the configured hops means the peer | hops up to two too many | **violated** |
| `revoke_unaudited` | a revocation is always audited | one request | **violated** |
| `unknown_request` | a name that is no operation is refused | one request | **violated** |
| `mask_lost` | masks change only by set-user-data | two commands at once (`MaxOperators = 2`) | **violated** |

`CHECK_DEADLOCK FALSE` everywhere: requests and commands are finite in number,
crashes, kills and the clock are bounded, so every behaviour of an instance comes
to rest.

**Scenarios.** `server` and `system` check several situations in one run: the
initial states are those of all of them, and the state constraint `OneScenario`
cuts off the behaviours that mix the requests of one with the tables or commands
of another. The properties of those runs are safety properties, for which a
constraint only leaves states out. `SYMMETRY` is used where requests, keys or
callers are interchangeable and no liveness is checked: the abstract
specifications of `KeepsPromise` and `CacheTransparent` have no fairness.
`inputs` interleaves nothing: the address check, the KEK files and key generation
have no state in common, so a behaviour is one of one of them.

**Why the bounds suffice.** The races here are between two actors over one row:
two revocations, a revocation and a rewrap, a request and an administrator, a
handler and the sweep, two extractions. Two requests (or a request and two
commands, one to take something away and one to give something else) on one key,
one crash and three instants (before, at and after an expiry) make each of them
happen; a third request repeats the role of one of the two. A cache of one entry
for two keys evicts at every other store. Three KEKs give a rotation begun before
the previous one has ended, and rows of three generations. In `inputs` the widths
are scaled down (two octets of two bits, four groups of two bits), so that every
address can be compared with every prefix length, both ends of ranges, and every
place and length of the gap in a text; the code depends on the widths only as
parameters of the arithmetic modelled. The theorems of section 5 remove the
bounds for the properties that matter most.

**Fairness.**
* `server_ops`: weak fairness of each live request's handler (node resumes a
  handler whose await has settled; the pool settles every query with a reply or an
  error), of the sweep timer, of the restart (the deployment restarts the
  container) and of the clock. Nothing is assumed of clients, crashes or the
  statements of a dead process.
* `rotation`: the supervisor restarts the vault, handlers and the rewrap loop go
  on while their process lives, and an operator who began a rotation goes on with
  it, in the end with every retired file on the command line (strong fairness: a
  kill or a new rotation may take the chance away for a while). Nothing is assumed
  of when rotations begin. `RotationEnds` excepts stray rows: one that no
  configured KEK opens makes every start warn.
* `migrate`: each process runs, and who fails is started again. Failures are
  bounded, as with unboundedly many no process need ever get through.
* `front`: handlers, statements, timers and the process run. The pool serves its
  waiters in turn (strong fairness of `Acquire`). Node's request timeout and its
  check of connections without a request run only until the server is closed,
  after which only the keep-alive timeout of idle connections does; hence
  `ShutdownEnds` presumes that no client holds a connection for ever without
  bringing a request to its end. Nothing is assumed of clients or of the signal.

## 4. Disagreements between code and documentation

Four are shown by runs:

* `address_clamped`: with fewer header entries than hops the index is clamped to
  the end of the list (`clientip.js:35`), the leftmost entry of the header, which
  the client wrote. The comment at `clientip.js:19-20` says that the socket peer is
  taken. With the right number of hops the client's address is always found
  (`RouteYieldsClient`).
* `unknown_request`: handlers are looked up in an object literal, so a request
  named `constructor` or `toString` finds an inherited function and is answered
  `ok`, unaudited; API.md says an unknown `request` gets errorCode 1002.
* `revoke_unaudited`: `revoke-key` deletes the row before the append; if the
  append fails, the key is gone with no record. API.md says revocation is
  "Always audited". The caller is told 1900, so the strict coupling of
  *successes* (`OkIsAudited`) still holds.
* `mask_lost`: `set-token` and `revoke-token` write back the `data` they read, so
  one that runs beside `set-user-data` undoes a mask.

Others were met in modelling; the properties state what does hold:

* `kvadmin.js:344`: `rewrap` takes its list once and a start counts only rows whose
  KEK is not configured (`index.js:77`). An INSERT of a killed vault that is
  executed between the two, or later, is seen by neither, and README.md:290 lets
  the operator destroy its KEK. `NoKeyLost` and `NeverUnavailable` except exactly
  the rows of such INSERTs.
* `keystore.js:111`: of two requests that extract one key at the same time the
  second stores it with `Map.set`, which leaves an existing entry at its old place:
  a key just used may be evicted before one used earlier. The bound and the answers
  are not affected (`CacheWithinBound`, `CacheTransparent`).
* `index.js:130`: `shutdown` waits for connections, not for handlers. The handler of
  a client that hung up may find the pool ended between its effect and its record.
  `NothingAbandoned` is about clients that wait.
* `serverhandlers.js:93`: the mask is the one `authenticate` read, the ACL the one
  `loadKey` read later. A mask narrowed and then an ACL widened while a request is
  in flight allow what the intersection of the two never held. `AnswersFollowRights`
  says that each of the two was right at *some* instant of the flight.
* `kek.js:62` counts the octets of an RSA modulus, so that 2041 bits pass for the
  2048 of README.md:275 and of the error message at `kek.js:63`.
* `kek.js:82` looks the algorithm of an AKP key up in an object literal, so that
  `constructor` passes and a function becomes the name it is to wrap under. The
  error message at `kek.js:83` and README.md:276 demand an ML-KEM variant.
  `UpWithDocumentedKeks` is stated with the documented shapes and excepts these two
  by name (`Slips`): nothing else undocumented gets in.
* `keygen.js:65`: the algorithm `constructor` is found in the table and answered
  `internal-error` instead of 1100; no key comes of it (`GeneratedIffDocumented`).

## 5. Proofs

All theorems are for any values of the constants: users, keys, tokens, KEKs,
requests, processes, bounds on clock, crashes, kills and failures, cache bounds and
TTLs. They rest on the named `ASSUME`s of the modules, which only give the
constants their types, say that `None` is none of the things it is the absence of,
that the active KEK is a known one (`VaultServer`), that tokens are unique in the
initial tables, as `auth_token` is in the schema (`VaultDb`), and that those
set-token makes are not among them (`KvAdmin`). In every component the
property that matters is not inductive, and the work is in a strengthening that
the corresponding run checks as an invariant too. The proofs have one lemma or
step per action.

* **`VaultServerProofs`**, in three parts.
  *Consistency*: `ServerConsistent` (`Spec => []HandlersConsistent`) and
  `SuccessIsAudited` (`Spec => []OkIsAudited`). That a success at `respond` has its
  record says nothing of the state before the append. `HandlersConsistent` adds
  what each `pc` promises (`WellPlaced`: which requests get there, with which of
  user, row, kid, outcome at hand), that effects are accounted for
  (`EffectAccounted`: a request that changed a key is past its write, and one whose
  success is about to be recorded did its work), that a success past its append has
  its record (`SuccessRecorded`) and that kids about to be inserted are new and
  distinct (`KidsNew`). Each action reduces to `RequestStep` (what a step that moves
  one request has to show) or, for the many that change no table, to `HandlerStep`
  and `ConcludeStep`.
  *The promise*: `ServerKeepsPromise` (`Spec => KeepsPromise`, refinement).
  Arrival maps to `Accept`, a write that took effect (its reply seen, lost or
  without a handler) to `Issue` or `Revoke`, the append of a success to `Record`, the
  answer to `Answer`, sweeps to `Reap`; everything else, crashes included, stutters.
  `EffectAccounted` gives `Record` its guard, `KidsNew` that of `Issue`,
  `SuccessRecorded` that of `Answer`.
  *History*: `OneWinnerPerKey` (`Spec => []OneRevocationPerKey`) and
  `GoneStaysGone` (`Spec => NoResurrection`). Neither is proved from the handlers:
  that what a request did stays done and is done by no other (`EffectsUnique`), and
  that a kid once used is new again to nobody, are invariants of `VaultPromise`,
  carried over by the refinement step by step. What the promise does not speak of,
  the user a record names, is followed in the server (`RecordsTrue`): a request
  that has changed a key has only its appends and its answer left, which keep it.
* **`VaultAccessProofs`**, about the server by itself: `EndedKeysRefused`
  (`Spec => []EndedKeyNeverServed`), `ExistenceIsMasked` (`Spec => []ExistenceMasked`)
  and `KeysEndRightly` (`Spec => KeysEndForAReason`, assuming that
  `--key-expiry-grace` is no less than the lead of the database's clock). An answer
  says nothing of the awaits before it; `AccessConsistent` adds that rows in the
  table are as issued, that the user record a handler holds is that of the caller,
  that a row it holds is the one issued and, if the key had ended when the request
  arrived, is past its end already, and that whoever is past `authorizedKey` holds
  the class on a key that had not ended. All of it survives the steps of others
  because users do not change, rows once issued stay as they were and time only
  moves on (`StepIsFramed`, `AccessIsFramed`). In its second part `KeysStayOwned`
  (`Spec => []KeysAreOwned`, assuming it of the initial tables, as it is of those of
  the runs) and `DenialsAreRecorded` (`Spec => []DenialsRecorded`). Ownership needs
  that the row between `missingUsers` and the INSERT is owned already. For denials, a
  marked request is one whose key was there, it has no outcome but key-not-found
  until its first append, and it is at the second append only with the first record
  made; an unmarked refusal is of a key missing, of one made since the request
  looked, or by a holder of the class. `RequestRefused` proves the step for any
  notion of holder that authorizedKey and the DELETE respect.
* **`VaultSystemProofs`**: the server and any number of kv-admin commands on one
  database. `SystemStaysConsistent` (`SystemSpec => []SystemConsistent`) is the
  invariant of the whole. Two ideas carry it. For the server, all that commands do
  is `TablesInOrder`: users and rows change, but no row is inserted or deleted, and
  `HandlersConsistent` was so stated that it survives that (`HandlersUnmoved`). For
  the commands, `CommandsConsistent` says where each stands with which user, data,
  token and rows; every statement but two is a `QuietCommand`, which gives no user a
  token and appends nothing, and `set-token` and the append are treated by
  themselves (`WriteTokenKeeps`, `AuditCommandKeeps`). `TokensConsistent` says of
  each token that it is of one user, or at hand of one set-token and not yet
  written, or withdrawn. What handlers go by,
  `RightsSeen`, follows a request's mask from `authenticate` and its ACL from
  `loadKey` to the answer. From it:
  `RevocationLasts` (`[]RevokedTokensStayDead`), `PrintedTokensLast`
  (`[]PrintedTokensWork`), `CommandsAreAudited` (`[]CommandsAudited`),
  `SuccessIsAuditedAmidCommands` (`[]OkIsAudited`) and `AclsOnlyUpdated`
  (`AclOnlySetByUpdateAcl`). Commands stutter for clients (`CommandsStutter`), so
  that `SystemKeepsPromise` (`SystemSpec => KeepsPromise`) comes from the refinement
  of the server, and with it `OneWinnerAmidCommands` and `GoneStaysGoneAmidCommands`.
  `EndedKeysRefusedAmidCommands` (`[]EndedKeyNeverServed`) cannot rest on
  `AccessConsistent`, as rows are no longer as issued; its own strengthening,
  `EndsConsistent`, needs of rows only that no statement changes the end of one that
  stays (`RowsKeepTheirEnd`), and of the promise that a kid that is gone stays so.
  `KeysEndRightlyAmidCommands` is `KeysEndForAReason` in terms of what was seen,
  since ACLs and masks change under a revocation: a row disappears after its end, if
  the grace period covers the lead of the database's clock, or by a `revoke-key` whose
  caller was seen, during its flight, to hold the class by ACL and by mask. It follows
  from `RightsSeen` at the DELETE and from what takes rows away at all (`RowsTaken`).
  `AnsweredByRights` (`[]AnswersFollowRights`) and `DenialsAreRefusals` are about what
  is told and what is refused while rights change: `RequestRefused` of the server by
  itself is used again, with "both rights were seen" for holding the class
  (`RefusalsConsistent`). That a denied record is deserved comes from
  `VerdictMarks`: only `authorizedKey` marks a request, on a mask and an ACL that
  `RightsSeen` says were seen, one of them without the class.
* **`UnwrapCacheProofs`**: `CacheStaysConsistent` (entries are of distinct keys, hold
  the secret of the very embedding whose digest they carry, made with a configured
  KEK, and are dated from the start of their extraction; a revoked key gets no row
  again, and once forgotten no request holds one), and from it
  `CacheIsBounded`, `RevokedIsForgotten`, the action property `NothingServedTooOld`
  and the refinement `CacheImplementsDirect`: with the cache, every request gets
  what extraction of the row it loaded would have given it.
* **`KekRotationProofs`**: `RunbookConsistent`, and from it `RotationLosesNoKey` and
  `RotationIsSeamless`. `RotationConsistent` says that the configuration names every
  KEK in use; that a vault not restarted since the last change holds all but the
  newest KEK and embeds with one of the others, any later one holds all and embeds
  with the newest; that `rewrap` has each outdated row before it or has counted one
  it skipped; and that after a run that skipped none no row is outdated: all but for
  stray rows.
* **`MigrateProofs`**: `MigrationsConsistent`, and from it `MigrationsInOrder` and
  `ServedWhenMigrated`. `MigrateConsistent` says that nobody believes in an
  uncommitted migration, that whoever is past BEGIN is at a file whose predecessors
  are committed, and that the transaction holding a version row is the only one and
  finds the file new.

* **`HttpFrontProofs`**: `FrontStaysConsistent`, and from it `NothingIsAbandoned`.
  When the pool ends, `NothingAbandoned` needs that no connection is left
  (`ServerClosed` gates the end, and nothing opens one after the signal), that a
  request handled without a connection has been left by its client, and that a
  handler's statements are in order: its effect is not there while it is still to
  be run, and with nothing left to run there is its record too, unless a statement
  failed or was refused to a client that had left. That no database client is
  leaked, `\A j \in out : HasStatement(j)`, is needed by none of this and is proved
  with it.
* **`InputProofs`**, first part: what `KekFiles` and `Keygen` decide is what is documented, for
  any lists of files and any lengths: `VaultComesUpRightly`
  (`[]UpWithDocumentedKeks`, the two slips of section 4 excepted), `GeneratedAsDocumented`
  (`[]GeneratedIffDocumented`) and `KeysServeTheirAlgorithms`
  (`[]KeyServesItsAlgorithm`). The invariants (`FilesConsistent`: what is loaded is
  the files so far, each reduced, and every end has its reason; `KeygenConsistent`:
  what there is was made from what was there before) leave what is hard to lemmas on
  the operators: `validateKek` accepts exactly the documented shapes and the slips, ids are
  distinct exactly when they are as many as the files, the parameters that resolve
  are those of the matrix, and the generator of each algorithm makes a key that
  serves it. `FilesAssumption` and `KeygenAssumption` say what a file and a parameter
  may be (a length is a number, that of a symmetric key in whole octets, since the
  code measures decoded bytes; a mode is a set of permissions for each of owner, group
  and others).
* **`InputProofs`**, second part: the address check, for texts of any length, chains
  of any length and any widths that `WidthAssumption` allows (positive, and a quad
  as wide as two groups).
  - `ClientIsDerived` (`[]RouteYieldsClient`), for calls in which the vault is told
    the true length of the chain and a connection through a proxy has an address
    (`Proxy` is one). Inductive is `HeaderTrue`: of what is kept of the header, the
    entry as far from the right end as proxies have been passed is the client's.
  - `AllowedMeansDenoted` (`[]AllowedIffDenoted`) and `InvalidMeansNothing`
    (`[]InvalidIffNothing`), with no hypothesis but the assumptions on constants.
    `AddressConsistent` only says that texts are texts and that a verdict was right
    when it was given; what is hard are lemmas on the operators. `V4Parsed` and
    `V6Parsed`: a parser yields exactly the addresses whose writings contain the
    text. `GapOf` and `SplitAtGap` take a text apart at its double colon and put it
    together, `FilledGroups` and `WrittenShort` say that a gap is filled exactly as
    it was left, `DigitsOfValue` and `ValueOfDigits` that groups and numbers are the
    same thing, `TailGone` what a quad at the end becomes. `MaskedNet`: comparing
    under the mask is comparing what is left of the host part, for every prefix
    length. `EntryDenotes` puts them together, form by form.
  - `Pow2`, `Value` and `Hops` are recursive functions. The induction they need is
    made without the library's induction theorems: a set of naturals that is not
    empty has a least element (`LeastNat`, from the well-foundedness of <), hence a
    *set* with 0 and every successor is all of them (`NatSetInduction`), and hence
    the recursions have solutions (`Iteration`, `NatIteration`).

Only model-checked:

* Liveness (`EveryRequestAnswered`, `ExpiredKeysReaped`, `RotationEnds`, `AllGetReady`,
  `EveryRequestEnds`, `ShutdownEnds`): fairness is outside the prover's reach.
* `MaskOnlySetBySetUserData` and the other three of section 4 are false.

What is true of the server by itself and not beside kv-admin is stated for the
server only. `remove-user` leaves ACLs that name a user who is gone, even as their
only owner (`KeysAreOwned`); ACLs and masks change under a request, so that the
caller who is told something, or is refused and recorded, held or lacked the class
on what he was then looked up by (`ExistenceMasked`, `DenialsRecorded`). What remains
of these is in terms of the rights seen: `AnswersFollowRights` of answers and
refusals, `KeysEndRightlyAmidCommands` of revocations.

## 6. Not modelled

* The seal and heartbeat scheduler, verification and the hash chain itself:
  `audit.js` hands them to tr-json-chain, which is not part of the repository. The
  heartbeat is a timer of `HttpFront`.
* Cryptography, random material, TLS, logging.
* The array syntax that `validateAcl` and `validateAllowedOps` accept, option parsing
  (`serveropts.js`, `dbopts.js`), the predicates of `basicutils.js`: declarations
  without state.
* `kek-gen` and the container files.
* `ServerDb.transaction` is never called.

## 7. Plan

What is left, in order of importance:

1. Account expiry and address changes beside a request in flight (`VaultSystem` with
   a moving clock).
2. `validateAcl` on raw arrays against a reference definition.
