-------------------------- MODULE KekRotationProofs -------------------------
(* However many keys, KEKs, rotations, requests and kills: who follows the  *)
(* runbook loses no key and makes none unavailable for a moment, but for    *)
(* those whose INSERT is executed after the vault that sent it is gone.     *)
EXTENDS KekRotation, TLAPS

LEMMA InitConsistent == Init => RotationConsistent
<1> SUFFICES ASSUME Init PROVE RotationConsistent
  OBVIOUS
<1>1. PICK kek \in Keks : config = [active |-> kek, retired |-> {}] /\ made = {kek}
                          /\ rows \in [Keys -> {None, kek}]
  BY DEF Init
<1>2. /\ gen = [k \in Keys |-> IF rows[k] = None THEN Unstarted
                               ELSE [pc |-> "stored", kek |-> rows[k]]]
      /\ destroyed = {} /\ vault = Down /\ warned = FALSE
      /\ use = [u \in Uses |-> NotUsing] /\ rewrap = NoRewrap /\ phase = "steady" /\ kills = 0
  BY DEF Init
<1>3. /\ gen \in [Keys -> [pc : GenPcs, kek : Keks \cup {None}]]
      /\ \A k \in Keys : gen[k].pc \in {"none", "stored"}
  BY <1>1, <1>2 DEF Unstarted, GenPcs
<1>4. RotationTypeOK
  <2>1. rows \in [Keys -> Keks \cup {None}]
    BY <1>1
  <2>2. config \in [active : Keks, retired : SUBSET Keks]
    BY <1>1
  <2>3. vault \in [status : {"down", "up", "closing"}, active : Keks \cup {None},
                   known : SUBSET Keks]
    BY <1>2 DEF Down
  <2>4. rewrap \in [pc : {"idle", "running"}, active : Keks \cup {None}, known : SUBSET Keks,
                    list : SUBSET [key : Keys, kek : Keks], skipped : Nat]
    BY <1>2 DEF NoRewrap
  <2>5. /\ use \in [Uses -> [pc : {"idle", "loaded", "served", "unavailable"},
                             key : Keys \cup {None}, kek : Keks \cup {None}]]
        /\ kills \in 0..MaxKills
    BY <1>2, RotationAssumption DEF NotUsing
  <2>6. made \subseteq Keks /\ destroyed \subseteq made /\ warned \in BOOLEAN
        /\ phase \in {"steady", "reconfigured", "restarted", "rewrapped"}
    BY <1>1, <1>2
  <2> QED
    BY <1>3, <2>1, <2>2, <2>3, <2>4, <2>5, <2>6 DEF RotationTypeOK
<1>5. ConfigConsistent /\ \A k \in Keys \ Stray : rows[k] \in Current \cup {None}
  BY <1>1, <1>2 DEF ConfigConsistent, Current, InUse, Known
<1>6. VaultConsistent /\ RewrapConsistent
  BY <1>2 DEF VaultConsistent, RewrapConsistent, Down, NoRewrap
<1>7. (\A k \in Keys : GenConsistent(k)) /\ \A u \in Uses : UseConsistent(u)
  BY <1>2, <1>3 DEF GenConsistent, UseConsistent, NotUsing
<1> QED
  BY <1>4, <1>5, <1>6, <1>7 DEF RotationConsistent

-----------------------------------------------------------------------------
(* The vault.                                                               *)
LEMMA StartSafe == RotationConsistent /\ Start => RotationConsistent'
<1> SUFFICES ASSUME RotationConsistent, Start PROVE RotationConsistent'
  OBVIOUS
<1>1. /\ vault.status = "down"
      /\ vault' = [status |-> "up", active |-> config.active, known |-> InUse]
      /\ warned' \in BOOLEAN
      /\ phase' = IF phase = "reconfigured" THEN "restarted" ELSE phase
      /\ UNCHANGED <<rows, config, made, destroyed, gen, use, rewrap, kills>>
  BY DEF Start, InUse
<1>2. RotationTypeOK /\ ConfigConsistent /\ RewrapConsistent
      /\ (\A k \in Keys \ Stray : rows[k] \in Current \cup {None})
      /\ (\A k \in Keys : GenConsistent(k))
      /\ \A u \in Uses : UseConsistent(u)
  BY DEF RotationConsistent
<1>3. RotationTypeOK'
  <2>1. InUse \subseteq Keks /\ config.active \in Keks
    BY <1>2 DEF RotationTypeOK, InUse, Known
  <2>2. vault' \in [status : {"down", "up", "closing"}, active : Keks \cup {None},
                    known : SUBSET Keks]
    BY <1>1, <2>1
  <2> QED
    BY <1>1, <1>2, <2>2 DEF RotationTypeOK
<1>4. Current' = InUse /\ InUse' = InUse /\ Current \subseteq InUse
      /\ config.active \in InUse /\ Stray' = Stray
  BY <1>1 DEF Current, InUse, Known, Stray
<1>5. ConfigConsistent' /\ VaultConsistent'
  BY <1>1, <1>2, <1>4 DEF ConfigConsistent, VaultConsistent
<1>6. /\ \A k \in Keys \ Stray' : rows'[k] \in Current' \cup {None}
      /\ \A k \in Keys : GenConsistent(k)'
  BY <1>1, <1>2, <1>4 DEF GenConsistent
<1>7. \A u \in Uses : UseConsistent(u)'
  BY <1>1, <1>2, <1>4 DEF UseConsistent
<1>8. RewrapConsistent'
  BY <1>1, <1>2, <1>4 DEF RewrapConsistent, Outdated, Listed
<1> QED
  BY <1>3, <1>5, <1>6, <1>7, <1>8 DEF RotationConsistent

LEMMA ShutdownSafe == RotationConsistent /\ Shutdown => RotationConsistent'
<1> SUFFICES ASSUME RotationConsistent, Shutdown PROVE RotationConsistent'
  OBVIOUS
<1>1. /\ vault.status = "up" /\ vault' = [vault EXCEPT !.status = "closing"]
      /\ UNCHANGED <<rows, config, made, destroyed, warned, gen, use, rewrap, phase, kills>>
  BY DEF Shutdown
<1>2. /\ vault'.status = "closing" /\ vault'.active = vault.active /\ vault'.known = vault.known
      /\ RotationTypeOK'
  BY <1>1 DEF RotationConsistent, RotationTypeOK
<1> QED
  BY <1>1, <1>2 DEF RotationConsistent, ConfigConsistent, Current, InUse, VaultConsistent,
     GenConsistent, UseConsistent, RewrapConsistent, Outdated, Listed, Stray

LEMMA ExitSafe == RotationConsistent /\ Exit => RotationConsistent'
<1> SUFFICES ASSUME RotationConsistent, Exit PROVE RotationConsistent'
  OBVIOUS
<1>1. /\ ~ InFlight /\ vault' = Down
      /\ UNCHANGED <<rows, config, made, destroyed, warned, gen, use, rewrap, phase, kills>>
  BY DEF Exit
<1>2. RotationTypeOK'
  BY <1>1 DEF RotationConsistent, RotationTypeOK, Down
<1> QED
  BY <1>1, <1>2 DEF RotationConsistent, ConfigConsistent, Current, InUse, VaultConsistent,
     GenConsistent, UseConsistent, RewrapConsistent, Outdated, Listed, Stray, InFlight, Down

LEMMA KillSafe ==
  ASSUME RotationConsistent, Kill
  PROVE  RotationConsistent'
<1>1. /\ kills < MaxKills /\ kills' = kills + 1 /\ vault' = Down
      /\ gen' = [k \in Keys |-> AfterKill(gen[k])] /\ use' = [u \in Uses |-> NotUsing]
      /\ UNCHANGED <<rows, config, made, destroyed, warned, rewrap, phase>>
  BY DEF Kill
<1>2. \A k \in Keys : /\ gen'[k].pc \notin {"embedding", "inserting"}
                      /\ gen'[k].pc = "stray" <=> gen[k].pc = "stray"
                      /\ gen'[k] \in [pc : GenPcs, kek : Keks \cup {None}]
  <2> SUFFICES ASSUME NEW k \in Keys
               PROVE  /\ gen'[k].pc \notin {"embedding", "inserting"}
                      /\ gen'[k].pc = "stray" <=> gen[k].pc = "stray"
                      /\ gen'[k] \in [pc : GenPcs, kek : Keks \cup {None}]
    OBVIOUS
  <2>1. gen[k] \in [pc : GenPcs, kek : Keks \cup {None}]
    BY DEF RotationConsistent, RotationTypeOK
  <2>2. gen'[k] = CASE gen[k].pc = "inserting" -> [gen[k] EXCEPT !.pc = "late"]
                    [] gen[k].pc = "embedding" -> [gen[k] EXCEPT !.pc = "failed"]
                    [] OTHER -> gen[k]
    BY <1>1 DEF AfterKill
  <2> QED
    BY <2>1, <2>2 DEF GenPcs
<1>3. RotationTypeOK'
  BY <1>1, <1>2, RotationAssumption DEF RotationConsistent, RotationTypeOK, Down, NotUsing
<1>4. (\A k \in Keys : GenConsistent(k)') /\ (\A u \in Uses : UseConsistent(u)') /\ VaultConsistent'
  BY <1>1, <1>2 DEF GenConsistent, UseConsistent, VaultConsistent, NotUsing, Down
<1>5. Stray' = Stray
  BY <1>2 DEF Stray
<1> QED
  BY <1>1, <1>3, <1>4, <1>5 DEF RotationConsistent, ConfigConsistent, Current, InUse,
     RewrapConsistent, Outdated, Listed

-----------------------------------------------------------------------------
(* Requests.  What a generation or a use needs of the rest.                 *)
LEMMA GenerateSafe ==
  ASSUME RotationConsistent, NEW k \in Keys, NEW to,
         gen' = [gen EXCEPT ![k] = to], gen[k].pc # "stray",
         to \in [pc : {"embedding", "inserting", "stored", "stray", "failed"},
                kek : Keks \cup {None}],
         to.pc \in {"embedding", "inserting"} => vault.status # "down",
         to.pc = "inserting" => to.kek = vault.active,
         NEW row \in Keks \cup {None}, rows' = [rows EXCEPT ![k] = row],
         to.pc # "stray" =>
           /\ row \in Current \cup {None}
           /\ row # rows[k] => row = None \/ (phase # "reconfigured" => row = config.active),
         UNCHANGED <<operatorVars, vaultVars, use, rewrap, kills>>
  PROVE  RotationConsistent'
<1>1. rows' \in [Keys -> Keks \cup {None}]
  BY DEF RotationConsistent, RotationTypeOK
<1>2. RotationTypeOK'
  BY <1>1 DEF RotationConsistent, RotationTypeOK, GenPcs, operatorVars, vaultVars
<1>3. \A j \in Keys : j # k => gen'[j] = gen[j] /\ rows'[j] = rows[j]
  OBVIOUS
<1>4. gen'[k] = to /\ rows'[k] = row
  BY DEF RotationConsistent, RotationTypeOK
<1>5. Stray' = Stray \cup {j \in {k} : to.pc = "stray"} /\ k \notin Stray
  BY <1>3, <1>4 DEF Stray
<1>6. ConfigConsistent' /\ VaultConsistent' /\ Current' = Current
  BY DEF RotationConsistent, ConfigConsistent, VaultConsistent, Current, InUse,
     operatorVars, vaultVars
<1>7. \A u \in Uses : UseConsistent(u)'
  BY <1>5 DEF RotationConsistent, UseConsistent, vaultVars
<1>8. ASSUME NEW j \in Keys
      PROVE  GenConsistent(j)' /\ (j \notin Stray' => rows'[j] \in Current' \cup {None})
  <2>1. CASE j = k
    BY <1>4, <1>5, <1>6, <2>1 DEF GenConsistent, vaultVars
  <2>2. CASE j # k
    BY <1>3, <1>5, <1>6, <2>2 DEF RotationConsistent, GenConsistent, vaultVars
  <2> QED
    BY <2>1, <2>2
<1>9. phase \in {"restarted", "rewrapped"} =>
        Outdated(config.active)' \ Stray' \subseteq Outdated(config.active) \ Stray
  BY <1>3, <1>4, <1>5 DEF Outdated, operatorVars
<1>10. RewrapConsistent'
  BY <1>5, <1>9 DEF RotationConsistent, RewrapConsistent, Listed, operatorVars
<1> QED
  BY <1>2, <1>6, <1>7, <1>8, <1>10 DEF RotationConsistent

LEMMA UseSafe ==
  ASSUME RotationConsistent, NEW u \in Uses, NEW from, NEW to, Use(u, from, to),
         to \in [pc : {"idle", "loaded", "served", "unavailable"},
                key : Keys \cup {None}, kek : Keks \cup {None}],
         to.pc = "loaded" => /\ vault.status # "down"
                             /\ to.kek \in vault.known \/ to.key \in Stray,
         to.pc = "unavailable" => to.key \in Stray
  PROVE  RotationConsistent'
<1>1. /\ use' = [use EXCEPT ![u] = to]
      /\ UNCHANGED <<rows, operatorVars, vaultVars, gen, rewrap, kills>>
  BY DEF Use
<1>2. RotationTypeOK'
  BY <1>1 DEF RotationConsistent, RotationTypeOK, operatorVars, vaultVars
<1>3. use'[u] = to /\ Stray' = Stray /\ \A v \in Uses : v # u => use'[v] = use[v]
  BY <1>1 DEF RotationConsistent, RotationTypeOK, Stray
<1>4. \A v \in Uses : UseConsistent(v)'
  BY <1>1, <1>3 DEF RotationConsistent, UseConsistent, vaultVars
<1> QED
  BY <1>1, <1>2, <1>3, <1>4 DEF RotationConsistent, ConfigConsistent, Current, InUse,
     VaultConsistent, GenConsistent, RewrapConsistent, Outdated, Listed, operatorVars, vaultVars

LEMMA RevokeSafe ==
  ASSUME RotationConsistent, NEW k \in Keys, Revoke(k)
  PROVE  RotationConsistent'
<1>1. rows' = [rows EXCEPT ![k] = None]
      /\ UNCHANGED <<operatorVars, vaultVars, gen, use, rewrap, kills>>
  BY DEF Revoke
<1>2. RotationTypeOK'
  BY <1>1 DEF RotationConsistent, RotationTypeOK, operatorVars, vaultVars
<1>3. Stray' = Stray /\ \A j \in Keys : rows'[j] \in {rows[j], None}
  BY <1>1 DEF RotationConsistent, RotationTypeOK, Stray
<1>4. Outdated(config.active)' \subseteq Outdated(config.active)
  BY <1>1, <1>3 DEF Outdated, operatorVars
<1>5. RewrapConsistent'
  BY <1>1, <1>3, <1>4 DEF RotationConsistent, RewrapConsistent, Listed, operatorVars
<1> QED
  BY <1>1, <1>2, <1>3, <1>5 DEF RotationConsistent, ConfigConsistent, Current, InUse,
     VaultConsistent, GenConsistent, UseConsistent, operatorVars, vaultVars

LEMMA RequestSafe ==
  ASSUME RotationConsistent,
         \/ \E k \in Keys : \/ BeginGenerate(k) \/ SendInsert(k) \/ InsertRow(k)
                            \/ InsertLate(k) \/ DropInsert(k) \/ Revoke(k)
         \/ \E u \in Uses : Unwrap(u) \/ Answered(u) \/ \E k \in Keys : LoadRow(u, k)
  PROVE  RotationConsistent'
<1>0. /\ RotationTypeOK /\ VaultConsistent
      /\ \A k \in Keys \ Stray : rows[k] \in Current \cup {None}
      /\ \A k \in Keys : GenConsistent(k)
      /\ \A u \in Uses : UseConsistent(u)
  BY DEF RotationConsistent
<1>1. ASSUME NEW k \in Keys, gen[k].pc # "stray"
      PROVE  /\ rows' = rows => rows' = [rows EXCEPT ![k] = rows[k]]
             /\ rows[k] \in Current \cup {None} /\ rows[k] \in Keks \cup {None}
  BY <1>0, <1>1 DEF RotationTypeOK, Stray
<1>2. ASSUME NEW k \in Keys, BeginGenerate(k) PROVE RotationConsistent'
  BY <1>1, <1>2, GenerateSafe DEF BeginGenerate, Generate
<1>3. ASSUME NEW k \in Keys, SendInsert(k) PROVE RotationConsistent'
  <2>1. vault.active \in Keks \cup {None} /\ vault.status # "down"
    BY <1>0, <1>3 DEF SendInsert, Generate, GenConsistent, RotationTypeOK
  <2> QED
    BY <1>1, <1>3, <2>1, GenerateSafe DEF SendInsert, Generate
<1>4. ASSUME NEW k \in Keys, InsertRow(k) PROVE RotationConsistent'
  <2>1. /\ gen[k].pc = "inserting" /\ gen[k].kek = vault.active /\ vault.status # "down"
        /\ gen' = [gen EXCEPT ![k] = [pc |-> "stored", kek |-> gen[k].kek]]
        /\ rows' = [rows EXCEPT ![k] = gen[k].kek]
        /\ UNCHANGED <<operatorVars, vaultVars, use, rewrap, kills>>
    BY <1>0, <1>4 DEF InsertRow, Insert, Generate, GenConsistent
  <2>2. gen[k].kek \in Current /\ gen[k].kek \in Keks \cup {None}
        /\ (phase # "reconfigured" => gen[k].kek = config.active)
    BY <1>0, <2>1 DEF VaultConsistent, RotationTypeOK
  <2> QED
    BY <2>1, <2>2, GenerateSafe
<1>5. ASSUME NEW k \in Keys, InsertLate(k) PROVE RotationConsistent'
  <2>1. /\ gen[k].pc = "late" /\ gen[k].kek \in Keks \cup {None}
        /\ gen' = [gen EXCEPT ![k] = [pc |-> "stray", kek |-> gen[k].kek]]
        /\ rows' = [rows EXCEPT ![k] = gen[k].kek]
        /\ UNCHANGED <<operatorVars, vaultVars, use, rewrap, kills>>
    BY <1>0, <1>5 DEF InsertLate, Insert, Generate, RotationTypeOK
  <2> DEFINE to == [pc |-> "stray", kek |-> gen[k].kek]
  <2>2. /\ to \in [pc : {"embedding", "inserting", "stored", "stray", "failed"},
                   kek : Keks \cup {None}]
        /\ to.pc = "stray" /\ gen[k].pc # "stray"
    BY <2>1
  <2>3. gen' = [gen EXCEPT ![k] = to]
    BY <2>1
  <2> HIDE DEF to
  <2> QED
    BY <2>1, <2>2, <2>3, GenerateSafe
<1>6. ASSUME NEW k \in Keys, DropInsert(k) PROVE RotationConsistent'
  BY <1>1, <1>6, GenerateSafe DEF DropInsert, Generate
<1>7. ASSUME NEW k \in Keys, Revoke(k) PROVE RotationConsistent'
  BY <1>7, RevokeSafe
<1>8. ASSUME NEW u \in Uses, Unwrap(u) PROVE RotationConsistent'
  <2> DEFINE out == IF use[u].kek \in vault.known THEN "served" ELSE "unavailable"
             to == [use[u] EXCEPT !.pc = out]
  <2>1. /\ use[u].pc = "loaded" /\ Use(u, "loaded", to)
        /\ use[u] \in [pc : {"loaded"}, key : Keys \cup {None}, kek : Keks \cup {None}]
        /\ use[u].kek \in vault.known \/ use[u].key \in Stray
    <3>1. use[u].pc = "loaded" /\ Use(u, "loaded", to)
      BY <1>8 DEF Unwrap, Use
    <3>2. use[u] \in [pc : {"idle", "loaded", "served", "unavailable"},
                     key : Keys \cup {None}, kek : Keks \cup {None}]
      BY <1>0 DEF RotationTypeOK
    <3>3. use[u].kek \in vault.known \/ use[u].key \in Stray
      BY <1>0, <3>1 DEF UseConsistent
    <3> HIDE DEF to
    <3> QED
      BY <3>1, <3>2, <3>3
  <2>2. to \in [pc : {"served", "unavailable"}, key : Keys \cup {None}, kek : Keks \cup {None}]
        /\ (to.pc = "unavailable" => to.key \in Stray)
    BY <2>1
  <2> HIDE DEF to
  <2> QED
    BY <2>1, <2>2, UseSafe
<1>9. ASSUME NEW u \in Uses, Answered(u) PROVE RotationConsistent'
  <2>1. PICK pc \in {"served", "unavailable"} : Use(u, pc, NotUsing)
    BY <1>9 DEF Answered
  <2>2. /\ NotUsing \in [pc : {"idle", "loaded", "served", "unavailable"},
                         key : Keys \cup {None}, kek : Keks \cup {None}]
        /\ NotUsing.pc \notin {"loaded", "unavailable"}
    BY DEF NotUsing
  <2> QED
    BY <2>1, <2>2, UseSafe
<1>10. ASSUME NEW u \in Uses, NEW k \in Keys, LoadRow(u, k) PROVE RotationConsistent'
  <2> DEFINE to == [pc |-> "loaded", key |-> k, kek |-> rows[k]]
  <2>1. /\ Use(u, "idle", to)
        /\ vault.status = "up" /\ rows[k] # None /\ rows[k] \in Keks \cup {None}
    BY <1>0, <1>10 DEF LoadRow, RotationTypeOK
  <2>2. rows[k] \in vault.known \/ k \in Stray
    BY <1>0, <2>1 DEF VaultConsistent
  <2>3. /\ to \in [pc : {"idle", "loaded", "served", "unavailable"},
                   key : Keys \cup {None}, kek : Keks \cup {None}]
        /\ to.pc = "loaded" /\ to.kek = rows[k] /\ to.key = k
    BY <2>1
  <2> HIDE DEF to
  <2> QED
    BY <2>1, <2>2, <2>3, UseSafe
<1> QED
  BY <1>2, <1>3, <1>4, <1>5, <1>6, <1>7, <1>8, <1>9, <1>10

-----------------------------------------------------------------------------
(* kv-admin rewrap.  It leaves all but the rows and itself alone.           *)
LEMMA RewrapKeepsRest ==
  ASSUME RotationConsistent, NEW rw, Rewrap(rw), kills' \in 0..MaxKills,
         phase' \in {phase, "rewrapped"}, phase # "reconfigured",
         rw \in [pc : {"idle", "running"}, active : Keks \cup {None}, known : SUBSET Keks,
                list : SUBSET [key : Keys, kek : Keks], skipped : Nat],
         rows' \in [Keys -> Keks \cup {None}],
         \A k \in Keys : rows'[k] \in {rows[k], None, config.active},
         RewrapConsistent'
  PROVE  RotationConsistent'
<1>1. /\ rewrap' = rw /\ UNCHANGED <<config, made, destroyed, vault, warned, gen, use>>
      /\ phase' # "reconfigured"
  BY DEF Rewrap
<1>2. RotationTypeOK'
  BY <1>1 DEF RotationConsistent, RotationTypeOK
<1>3. Current' = Current /\ InUse' = InUse /\ config.active \in Current /\ Stray' = Stray
  BY <1>1 DEF Current, InUse, Known, Stray
<1>4. \A k \in Keys \ Stray' : rows'[k] \in Current' \cup {None}
  BY <1>3 DEF RotationConsistent
<1>5. ConfigConsistent' /\ VaultConsistent'
  BY <1>1, <1>3 DEF RotationConsistent, ConfigConsistent, VaultConsistent
<1> QED
  BY <1>1, <1>2, <1>3, <1>4, <1>5 DEF RotationConsistent, GenConsistent, UseConsistent

LEMMA RunRewrapSafe ==
  ASSUME RotationConsistent, NEW given \in SUBSET config.retired, RunRewrap(given)
  PROVE  RotationConsistent'
<1> DEFINE list == {[key |-> k, kek |-> rows[k]] : k \in Outdated(config.active)}
           rw == [pc |-> "running", active |-> config.active,
                  known |-> Known(config.active, given), list |-> list, skipped |-> 0]
<1>1. phase = "restarted" /\ Rewrap(rw) /\ UNCHANGED <<rows, phase, kills>>
  BY DEF RunRewrap
<1>2. RotationTypeOK
  BY DEF RotationConsistent
<1>3. list \subseteq [key : Keys, kek : Keks]
  BY <1>2 DEF RotationTypeOK, Outdated
<1>4. rw \in [pc : {"idle", "running"}, active : Keks \cup {None}, known : SUBSET Keks,
              list : SUBSET [key : Keys, kek : Keks], skipped : Nat]
  BY <1>2, <1>3 DEF RotationTypeOK, Known
<1>5. rewrap' = rw /\ config' = config
  BY <1>1 DEF Rewrap
<1>6. ASSUME NEW k \in Outdated(config.active) PROVE \E row \in list : row.key = k
  <2>1. [key |-> k, kek |-> rows[k]] \in list
    OBVIOUS
  <2>2. [key |-> k, kek |-> rows[k]].key = k
    OBVIOUS
  <2> QED
    BY <2>1, <2>2
<1>7. RewrapConsistent'
  BY <1>1, <1>5, <1>6 DEF RewrapConsistent, Listed, Outdated
<1> HIDE DEF rw
<1> QED
  BY <1>1, <1>2, <1>4, <1>7, RewrapKeepsRest DEF RotationTypeOK

LEMMA RewrapRowSafe ==
  ASSUME RotationConsistent, NEW row \in rewrap.list, RewrapRow(row)
  PROVE  RotationConsistent'
<1> DEFINE known == row.kek \in rewrap.known
           left == rewrap.list \ {row}
           rest == [rewrap EXCEPT !.list = left]
           rw == [pc |-> "running", active |-> rewrap.active, known |-> rewrap.known,
                  list |-> left, skipped |-> IF known THEN rewrap.skipped ELSE rewrap.skipped + 1]
<1>1. /\ RotationTypeOK /\ RewrapConsistent /\ rewrap.pc = "running"
      /\ phase = "restarted" /\ rewrap.active = config.active /\ row.key \in Keys
      /\ UNCHANGED <<phase, kills>>
  BY DEF RotationConsistent, RotationTypeOK, RewrapConsistent, RewrapRow
<1>2. rewrap = [pc |-> rewrap.pc, active |-> rewrap.active, known |-> rewrap.known,
                list |-> rewrap.list, skipped |-> rewrap.skipped]
      /\ rewrap.skipped \in Nat
  BY <1>1 DEF RotationTypeOK
<1>3. rest
        = [pc |-> "running", active |-> rewrap.active, known |-> rewrap.known,
           list |-> left, skipped |-> rewrap.skipped]
  BY <1>1, <1>2
<1>4. Rewrap(rw) /\ rows' = IF known
                            THEN [rows EXCEPT ![row.key] = IF @ = None THEN None ELSE config.active]
                            ELSE rows
  <2>1. CASE known
    BY <1>1, <1>3, <2>1 DEF RewrapRow
  <2>2. CASE ~ known
    <3>1. rows' = rows /\ Rewrap([rest EXCEPT !.skipped = Skipped(@)])
      BY <2>2 DEF RewrapRow
    <3> HIDE DEF rest
    <3>2. [rest EXCEPT !.skipped = rest.skipped + 1] = rw
      BY <1>3, <2>2
    <3>3. Skipped(rest.skipped) = rest.skipped + 1
      BY DEF Skipped
    <3> QED
      BY <2>2, <3>1, <3>2, <3>3
  <2> QED
    BY <2>1, <2>2
<1>5. rw \in [pc : {"idle", "running"}, active : Keks \cup {None}, known : SUBSET Keks,
              list : SUBSET [key : Keys, kek : Keks], skipped : Nat]
  BY <1>1, <1>2 DEF RotationTypeOK
<1>6. /\ rows' \in [Keys -> Keks \cup {None}]
      /\ \A k \in Keys : rows'[k] \in {rows[k], None, config.active}
      /\ known => rows'[row.key] \in {None, config.active}
      /\ rewrap' = rw /\ config' = config
  BY <1>1, <1>4 DEF RotationTypeOK, Rewrap
<1>7. RewrapConsistent'
  <2>0. Stray' = Stray
    BY <1>4 DEF Rewrap, Stray
  <2>1. ASSUME NEW k \in Outdated(config.active)' \ Stray PROVE rw.skipped > 0 \/ \E r \in left : r.key = k
    <3>1. k \in Outdated(config.active) /\ k \in Keys
      BY <1>6 DEF Outdated
    <3>2. rewrap.skipped > 0 \/ \E r \in rewrap.list : r.key = k
      BY <1>1, <3>1 DEF RewrapConsistent, Listed
    <3>3. CASE k = row.key
      BY <1>2, <1>6, <2>1, <3>3 DEF Outdated
    <3>4. CASE k # row.key
      BY <1>2, <3>2, <3>4
    <3> QED
      BY <3>3, <3>4
  <2>2. config'.active = config.active /\ rewrap'.list = left /\ rewrap'.skipped = rw.skipped
        /\ rewrap'.active = config.active /\ phase' = "restarted"
    BY <1>1, <1>6
  <2> HIDE DEF left, rw
  <2> QED
    BY <2>0, <2>1, <2>2 DEF RewrapConsistent, Listed, Outdated
<1> HIDE DEF rw
<1> QED
  BY <1>1, <1>4, <1>5, <1>6, <1>7, RewrapKeepsRest DEF RotationTypeOK

LEMMA RewrapEndsSafe ==
  ASSUME RotationConsistent, RewrapDone \/ KillRewrap
  PROVE  RotationConsistent'
<1>1. /\ RotationTypeOK /\ RewrapConsistent /\ rewrap.pc = "running"
      /\ phase = "restarted" /\ Rewrap(NoRewrap) /\ rows' = rows
      /\ kills' \in 0..MaxKills
  BY RotationAssumption DEF RotationConsistent, RotationTypeOK, RewrapConsistent, RewrapDone,
     KillRewrap
<1>2. NoRewrap \in [pc : {"idle", "running"}, active : Keks \cup {None}, known : SUBSET Keks,
                    list : SUBSET [key : Keys, kek : Keks], skipped : Nat]
      /\ NoRewrap.pc = "idle"
  BY DEF NoRewrap
<1>3. /\ phase' \in {phase, "rewrapped"}
      /\ phase' = "rewrapped" => rewrap.skipped = 0 /\ rewrap.list = {}
  BY <1>1 DEF RewrapDone, KillRewrap
<1>4. phase' = "rewrapped" => Outdated(config.active) \subseteq Stray
  BY <1>1, <1>3 DEF RewrapConsistent, Listed
<1>5. RewrapConsistent'
  BY <1>1, <1>2, <1>4 DEF RewrapConsistent, Rewrap, Outdated, Stray
<1> QED
  BY <1>1, <1>2, <1>3, <1>5, RewrapKeepsRest DEF RotationTypeOK

-----------------------------------------------------------------------------
(* The operator.                                                            *)
LEMMA ReconfigureSafe ==
  ASSUME RotationConsistent, NEW new \in Keks, Reconfigure(new)
  PROVE  RotationConsistent'
<1>1. /\ phase # "reconfigured" /\ phase' = "reconfigured" /\ rewrap.pc = "idle"
      /\ new \notin made /\ made' = made \cup {new}
      /\ config' = [active |-> new, retired |-> InUse]
      /\ UNCHANGED <<rows, destroyed, vaultVars, gen, use, rewrap, kills>>
  BY DEF Reconfigure, InUse
<1>2. RotationTypeOK /\ ConfigConsistent /\ VaultConsistent
      /\ Current = InUse /\ InUse \subseteq Keks
  BY <1>1 DEF RotationConsistent, RotationTypeOK, Current, InUse, Known
<1>3. RotationTypeOK'
  BY <1>1, <1>2 DEF RotationTypeOK, vaultVars
<1>4. /\ config'.active = new /\ config'.retired = InUse
      /\ Current' = InUse /\ InUse' = InUse \cup {new}
  BY <1>1 DEF Current, InUse, Known
<1>5. ConfigConsistent'
  BY <1>1, <1>2, <1>4 DEF ConfigConsistent, RotationTypeOK
<1>6. /\ VaultConsistent' /\ Stray' = Stray
      /\ \A k \in Keys \ Stray : rows'[k] \in Current' \cup {None}
  BY <1>1, <1>2, <1>4 DEF RotationConsistent, VaultConsistent, Stray, vaultVars
<1>7. RewrapConsistent'
  BY <1>1 DEF RewrapConsistent
<1> QED
  BY <1>1, <1>3, <1>5, <1>6, <1>7 DEF RotationConsistent, GenConsistent, UseConsistent, vaultVars

LEMMA RetireSafe == RotationConsistent /\ Retire => RotationConsistent'
<1> SUFFICES ASSUME RotationConsistent, Retire PROVE RotationConsistent'
  OBVIOUS
<1>1. /\ phase = "rewrapped" /\ phase' = "steady"
      /\ destroyed' = destroyed \cup config.retired
      /\ config' = [config EXCEPT !.retired = {}]
      /\ UNCHANGED <<rows, made, vaultVars, gen, use, rewrap, kills>>
  BY DEF Retire
<1>2. RotationTypeOK /\ ConfigConsistent /\ VaultConsistent /\ RewrapConsistent
      /\ InUse = {config.active} \cup config.retired /\ Current = InUse
  BY <1>1 DEF RotationConsistent, Current, InUse, Known
<1>3. config'.active = config.active /\ config'.retired = {}
      /\ Current' = {config.active} /\ InUse' = {config.active}
  BY <1>1, <1>2 DEF RotationTypeOK, Current, InUse, Known
<1>4. RotationTypeOK'
  BY <1>1, <1>2 DEF RotationTypeOK, ConfigConsistent, vaultVars
<1>5. ConfigConsistent'
  BY <1>1, <1>2, <1>3 DEF ConfigConsistent
<1>6. Stray' = Stray /\ \A k \in Keys \ Stray : rows'[k] \in Current' \cup {None}
  BY <1>1, <1>2, <1>3 DEF RewrapConsistent, Outdated, Stray
<1>7. VaultConsistent'
  BY <1>1, <1>2, <1>3 DEF VaultConsistent, vaultVars
<1>8. RewrapConsistent'
  BY <1>1, <1>2 DEF RewrapConsistent
<1> QED
  BY <1>1, <1>4, <1>5, <1>6, <1>7, <1>8 DEF RotationConsistent, GenConsistent, UseConsistent,
     vaultVars

-----------------------------------------------------------------------------
LEMMA StepSafe ==
  ASSUME RotationConsistent, [Next]_rotationVars
  PROVE  RotationConsistent'
<1>1. CASE UNCHANGED rotationVars
  BY <1>1 DEF rotationVars, RotationConsistent, RotationTypeOK, ConfigConsistent, Current, InUse,
     VaultConsistent, GenConsistent, UseConsistent, RewrapConsistent, Outdated, Listed, Stray
<1>2. CASE Next
  BY <1>2, StartSafe, ShutdownSafe, ExitSafe, KillSafe, RequestSafe, RunRewrapSafe,
     RewrapRowSafe, RewrapEndsSafe, ReconfigureSafe, RetireSafe DEF Next
<1> QED
  BY <1>1, <1>2

(* The reasons why a rotation is safe hold all along.                       *)
THEOREM RunbookConsistent == Spec => []RotationConsistent
<1>1. RotationConsistent /\ [Next]_rotationVars => RotationConsistent'
  BY StepSafe
<1> QED
  BY <1>1, InitConsistent, PTL DEF Spec

(* No key is ever wrapped with a KEK whose file is gone (README.md 277-292).*)
THEOREM RotationLosesNoKey == Spec => []NoKeyLost
<1>1. RotationConsistent => NoKeyLost
  BY RotationAssumption DEF RotationConsistent, RotationTypeOK, ConfigConsistent, Current, InUse,
     Known, NoKeyLost
<1> QED
  BY <1>1, RunbookConsistent, PTL

(* No request meets a row that the running vault cannot unwrap.             *)
THEOREM RotationIsSeamless == Spec => []NeverUnavailable
<1>1. RotationConsistent => NeverUnavailable
  BY DEF RotationConsistent, UseConsistent, NeverUnavailable
<1> QED
  BY <1>1, RunbookConsistent, PTL
=============================================================================
