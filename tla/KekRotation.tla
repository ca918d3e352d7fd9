----------------------------- MODULE KekRotation ----------------------------
(* Rotating the embedding keys: an operator follows the runbook of          *)
(* README.md while the vault serves, restarts and is killed, and kv-admin   *)
(* rewrap works through the table beside it.  A KEK exists as a file; the   *)
(* vault holds those it read at its start, rewrap those named on its        *)
(* command line.                                                            *)
EXTENDS Naturals, FiniteSets

CONSTANTS Keks, Keys, Uses, None,
          MaxKills     \* bound on the kills of the vault and of rewrap

ASSUME RotationAssumption == /\ None \notin Keks
                             /\ MaxKills \in Nat

VARIABLES rows,      \* the KEK each row is wrapped with
          config,    \* the KEK files the configuration names
          made,      \* KEKs generated so far
          destroyed, \* KEKs whose file is gone
          vault,     \* the running process and the KEKs it holds
          warned,    \* did its start warn of unknown embedding keys?
          gen,       \* the generation of each key
          use,       \* requests that need the secret of a key
          rewrap,    \* the kv-admin rewrap process
          phase,     \* where the operator is in the runbook
          kills

rotationVars == <<rows, config, made, destroyed, vault, warned, gen, use, rewrap, phase, kills>>
operatorVars == <<config, made, destroyed, phase>>
vaultVars == <<vault, warned>>

(* The KEKs a KekManager can unwrap with.                                   *)
KnownActiveOnly(active, retired) == {active}
Known(active, retired) == {active} \cup retired

Unstarted == [pc |-> "none", kek |-> None]
NotUsing == [pc |-> "idle", key |-> None, kek |-> None]
NoRewrap == [pc |-> "idle", active |-> None, known |-> {}, list |-> {}, skipped |-> 0]
Down == [status |-> "down", active |-> None, known |-> {}]

Init == /\ \E kek \in Keks :
             /\ config = [active |-> kek, retired |-> {}]
             /\ made = {kek}
             /\ rows \in [Keys -> {None, kek}]
        /\ gen = [k \in Keys |-> IF rows[k] = None THEN Unstarted
                                 ELSE [pc |-> "stored", kek |-> rows[k]]]
        /\ destroyed = {}
        /\ vault = Down
        /\ warned = FALSE
        /\ use = [u \in Uses |-> NotUsing]
        /\ rewrap = NoRewrap
        /\ phase = "steady"
        /\ kills = 0

-----------------------------------------------------------------------------
(* The vault: a start reads every configured file, fails if one is missing, *)
(* and warns of rows it cannot unwrap; SIGTERM waits for requests; a kill   *)
(* does not, and leaves to the database what it was sent.                   *)
UnknownEmbeddingKeys(known) == {rows[k] : k \in Keys} \ (known \cup {None})

Start ==
  /\ vault.status = "down"
  /\ Known(config.active, config.retired) \cap destroyed = {}
  /\ LET known == Known(config.active, config.retired) IN
       /\ vault' = [status |-> "up", active |-> config.active, known |-> known]
       /\ warned' = (UnknownEmbeddingKeys(known) # {})
  /\ phase' = IF phase = "reconfigured" THEN "restarted" ELSE phase
  /\ UNCHANGED <<rows, config, made, destroyed, gen, use, rewrap, kills>>

Shutdown == /\ vault.status = "up"
            /\ phase = "reconfigured"
            /\ vault' = [vault EXCEPT !.status = "closing"]
            /\ UNCHANGED <<rows, config, made, destroyed, warned, gen, use, rewrap, phase, kills>>

InFlight == \/ \E k \in Keys : gen[k].pc \in {"embedding", "inserting"}
            \/ \E u \in Uses : use[u].pc = "loaded"
Exit == /\ vault.status = "closing"
        /\ ~ InFlight
        /\ vault' = Down
        /\ UNCHANGED <<rows, config, made, destroyed, warned, gen, use, rewrap, phase, kills>>

AfterKill(g) == CASE g.pc = "inserting" -> [g EXCEPT !.pc = "late"]
                  [] g.pc = "embedding" -> [g EXCEPT !.pc = "failed"]
                  [] OTHER -> g

Kill == /\ vault.status # "down"
        /\ kills < MaxKills
        /\ kills' = kills + 1
        /\ vault' = Down
        /\ gen' = [k \in Keys |-> AfterKill(gen[k])]
        /\ use' = [u \in Uses |-> NotUsing]
        /\ UNCHANGED <<rows, config, made, destroyed, warned, rewrap, phase>>

-----------------------------------------------------------------------------
(* Requests.                                                                *)
Generate(k, from, to) == /\ gen[k].pc = from
                         /\ gen' = [gen EXCEPT ![k] = to]
                         /\ UNCHANGED <<operatorVars, vaultVars, use, rewrap, kills>>

BeginGenerate(k) == /\ vault.status = "up"
                    /\ Generate(k, "none", [pc |-> "embedding", kek |-> None])
                    /\ UNCHANGED rows

(* embed is over and the INSERT on its way.                                 *)
SendInsert(k) == /\ Generate(k, "embedding", [pc |-> "inserting", kek |-> vault.active])
                 /\ UNCHANGED rows

Insert(k, from, to) == /\ Generate(k, from, [pc |-> to, kek |-> gen[k].kek])
                       /\ rows' = [rows EXCEPT ![k] = gen[k].kek]
InsertRow(k) == Insert(k, "inserting", "stored")

(* The INSERT of a vault that is gone is executed, or not; stray marks the  *)
(* row for good.                                                            *)
InsertLate(k) == Insert(k, "late", "stray")
DropInsert(k) == /\ Generate(k, "late", [pc |-> "failed", kek |-> None])
                 /\ UNCHANGED rows

Use(u, from, to) == /\ use[u].pc = from
                    /\ use' = [use EXCEPT ![u] = to]
                    /\ UNCHANGED <<rows, operatorVars, vaultVars, gen, rewrap, kills>>

LoadRow(u, k) == /\ vault.status = "up"
                 /\ rows[k] # None
                 /\ Use(u, "idle", [pc |-> "loaded", key |-> k, kek |-> rows[k]])

Unwrap(u) == LET out == IF use[u].kek \in vault.known THEN "served" ELSE "unavailable"
             IN Use(u, "loaded", [use[u] EXCEPT !.pc = out])

Answered(u) == \E pc \in {"served", "unavailable"} : Use(u, pc, NotUsing)

Revoke(k) == /\ rows[k] # None
             /\ vault.status # "down"
             /\ rows' = [rows EXCEPT ![k] = None]
             /\ UNCHANGED <<operatorVars, vaultVars, gen, use, rewrap, kills>>

-----------------------------------------------------------------------------
(* kv-admin rewrap: the list is taken once; a row whose KEK was not given   *)
(* is skipped; the UPDATE of a row that is gone changes nothing.            *)
Rewrap(rw) == /\ rewrap' = rw
              /\ UNCHANGED <<config, made, destroyed, vault, warned, gen, use>>

Outdated(active) == {k \in Keys : rows[k] \notin {None, active}}

RunRewrap(given) ==
  /\ phase = "restarted"
  /\ rewrap.pc = "idle"
  /\ given \subseteq config.retired
  /\ Rewrap([pc |-> "running", active |-> config.active, known |-> Known(config.active, given),
             list |-> {[key |-> k, kek |-> rows[k]] : k \in Outdated(config.active)},
             skipped |-> 0])
  /\ UNCHANGED <<rows, phase, kills>>

SkippedNone(n) == n
Skipped(n) == n + 1

RewrapRow(row) ==
  /\ rewrap.pc = "running"
  /\ row \in rewrap.list
  /\ LET rest == [rewrap EXCEPT !.list = @ \ {row}] IN
       IF row.kek \in rewrap.known
       THEN /\ rows' = [rows EXCEPT ![row.key] = IF @ = None THEN None ELSE rewrap.active]
            /\ Rewrap(rest)
       ELSE /\ UNCHANGED rows
            /\ Rewrap([rest EXCEPT !.skipped = Skipped(@)])
  /\ UNCHANGED <<phase, kills>>

RewrapDone == /\ rewrap.pc = "running"
              /\ rewrap.list = {}
              /\ phase' = IF rewrap.skipped = 0 THEN "rewrapped" ELSE phase
              /\ Rewrap(NoRewrap)
              /\ UNCHANGED <<rows, kills>>

KillRewrap == /\ rewrap.pc = "running"
              /\ kills < MaxKills
              /\ kills' = kills + 1
              /\ Rewrap(NoRewrap)
              /\ UNCHANGED <<rows, phase>>

-----------------------------------------------------------------------------
(* The operator: a new KEK becomes the active one and the old one retires,  *)
(* also before an earlier rotation is finished; the retired files are       *)
(* dropped once rewrap skipped nothing and the last start did not warn.     *)
Reconfigure(new) ==
  /\ phase # "reconfigured"
  /\ rewrap.pc = "idle"
  /\ new \notin made
  /\ made' = made \cup {new}
  /\ config' = [active |-> new, retired |-> Known(config.active, config.retired)]
  /\ phase' = "reconfigured"
  /\ UNCHANGED <<rows, destroyed, vaultVars, gen, use, rewrap, kills>>

Retire == /\ phase = "rewrapped"
          /\ ~ warned
          /\ destroyed' = destroyed \cup config.retired
          /\ config' = [config EXCEPT !.retired = {}]
          /\ phase' = "steady"
          /\ UNCHANGED <<rows, made, vaultVars, gen, use, rewrap, kills>>

Next == \/ Start \/ Shutdown \/ Exit \/ Kill
        \/ \E k \in Keys : \/ BeginGenerate(k) \/ SendInsert(k) \/ InsertRow(k)
                           \/ InsertLate(k) \/ DropInsert(k) \/ Revoke(k)
        \/ \E u \in Uses : Unwrap(u) \/ Answered(u) \/ \E k \in Keys : LoadRow(u, k)
        \/ \E given \in SUBSET config.retired : RunRewrap(given)
        \/ \E row \in rewrap.list : RewrapRow(row)
        \/ RewrapDone \/ KillRewrap
        \/ \E new \in Keks : Reconfigure(new)
        \/ Retire

Spec == Init /\ [][Next]_rotationVars

(* The supervisor restarts the vault, requests and the rewrap loop go on    *)
(* while their process lives, and an operator who has begun a rotation goes *)
(* on with it, in the end with every retired file on the command line.      *)
Fairness ==
  /\ WF_rotationVars(Start) /\ WF_rotationVars(Shutdown) /\ WF_rotationVars(Exit)
  /\ \A k \in Keys : WF_rotationVars(SendInsert(k)) /\ WF_rotationVars(InsertRow(k))
  /\ \A u \in Uses : WF_rotationVars(Unwrap(u)) /\ WF_rotationVars(Answered(u))
  /\ SF_rotationVars(RunRewrap(config.retired))
  /\ WF_rotationVars(\E row \in rewrap.list : RewrapRow(row))
  /\ WF_rotationVars(RewrapDone)
  /\ WF_rotationVars(Retire)

FairSpec == Spec /\ Fairness

-----------------------------------------------------------------------------
(* Types.                                                                   *)
GenPcs == {"none", "embedding", "inserting", "late", "stored", "stray", "failed"}
RotationTypeOK ==
  /\ rows \in [Keys -> Keks \cup {None}]
  /\ config \in [active : Keks, retired : SUBSET Keks]
  /\ made \subseteq Keks /\ destroyed \subseteq made
  /\ vault \in [status : {"down", "up", "closing"}, active : Keks \cup {None}, known : SUBSET Keks]
  /\ warned \in BOOLEAN
  /\ gen \in [Keys -> [pc : GenPcs, kek : Keks \cup {None}]]
  /\ use \in [Uses -> [pc : {"idle", "loaded", "served", "unavailable"},
                       key : Keys \cup {None}, kek : Keks \cup {None}]]
  /\ rewrap \in [pc : {"idle", "running"}, active : Keks \cup {None}, known : SUBSET Keks,
                 list : SUBSET [key : Keys, kek : Keks], skipped : Nat]
  /\ phase \in {"steady", "reconfigured", "restarted", "rewrapped"}
  /\ kills \in 0..MaxKills

(* Keys whose INSERT was executed after the vault that sent it was gone.    *)
Stray == {k \in Keys : gen[k].pc = "stray"}

(* Following the runbook loses no key: whenever a retired KEK is destroyed, *)
(* no row is or becomes wrapped with it, save a stray one, which rewrap may *)
(* have missed (README.md 277-292, kvadmin.js 338-369).                     *)
NoKeyLost == \A k \in Keys \ Stray : rows[k] \notin destroyed

(* Nor does it make a key unavailable for a while: no authorized request    *)
(* meets a row wrapped with a KEK that the vault, in whatever incarnation,  *)
(* does not hold, save a stray one (kek.js 161-165).                        *)
NeverUnavailable == \A u \in Uses : use[u].pc = "unavailable" => use[u].key \in Stray

(* Why that is so.  The configuration names every KEK that is in use; a     *)
(* vault that has not been restarted since the last change of it holds all  *)
(* but the newest KEK and embeds with one of the others, any later one      *)
(* holds all and embeds with the newest; rewrap has each outdated row       *)
(* before it or has counted one it skipped; and once it has skipped none,   *)
(* no row is outdated; but for stray rows (README.md 277-292, index.js      *)
(* 66-70, kvadmin.js 338-369).                                              *)
InUse == Known(config.active, config.retired)
Current == IF phase = "reconfigured" THEN config.retired ELSE InUse
ConfigConsistent == /\ config.active \notin config.retired
                    /\ InUse \subseteq made
                    /\ InUse \cap destroyed = {}
VaultConsistent ==
  vault.status # "down" =>
    /\ vault.active \in Current /\ Current \subseteq vault.known
    /\ phase # "reconfigured" => vault.active = config.active
GenConsistent(k) ==
  /\ gen[k].pc \in {"embedding", "inserting"} => vault.status # "down"
  /\ gen[k].pc = "inserting" => gen[k].kek = vault.active
UseConsistent(u) ==
  /\ use[u].pc = "loaded" => /\ vault.status # "down"
                             /\ use[u].kek \in vault.known \/ use[u].key \in Stray
  /\ use[u].pc = "unavailable" => use[u].key \in Stray
Listed(k) == \E row \in rewrap.list : row.key = k
RewrapConsistent ==
  /\ rewrap.pc = "running" =>
       /\ phase = "restarted" /\ rewrap.active = config.active
       /\ \A k \in Outdated(config.active) \ Stray : rewrap.skipped > 0 \/ Listed(k)
  /\ phase = "rewrapped" => Outdated(config.active) \subseteq Stray
RotationConsistent ==
  /\ RotationTypeOK
  /\ ConfigConsistent
  /\ \A k \in Keys \ Stray : rows[k] \in Current \cup {None}
  /\ VaultConsistent
  /\ \A k \in Keys : GenConsistent(k)
  /\ \A u \in Uses : UseConsistent(u)
  /\ RewrapConsistent

(* A rotation begun comes to its end: the configuration names one KEK and   *)
(* every other is destroyed, or the next rotation has begun. A stray row    *)
(* that no configured KEK opens may block it.                               *)
RotationEnds == \A new \in Keks :
  (config.active = new /\ phase = "reconfigured") ~>
  \/ config.active # new
  \/ phase = "steady" /\ made \ destroyed = {new}
  \/ Stray # {}
=============================================================================
