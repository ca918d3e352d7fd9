--------------------------- MODULE VaultPromise ----------------------------
(* What the vault promises its clients about the two operations that change *)
(* it, with no process, queue, query or failure in sight: a key is issued   *)
(* once and revoked at most once, each by the one request that says so; a   *)
(* request changes at most one key, and nothing once it is answered; an     *)
(* operation is recorded as done only after it was done, and a success is   *)
(* sent only after it was recorded.                                         *)
CONSTANTS Request, Kid, None

VARIABLES live,     \* the keys that exist
          ever,     \* the keys that were ever issued
          kind,     \* what each request accepted asks for
          effect,   \* the key each request issued or revoked
          recorded, \* the requests recorded as done
          answer    \* the answers sent

promiseVars == <<live, ever, kind, effect, recorded, answer>>

Kinds == {"issue", "revoke", "use"}

Init == /\ live \in SUBSET Kid
        /\ ever = live
        /\ kind = [r \in Request |-> None]
        /\ effect = [r \in Request |-> None]
        /\ recorded = {}
        /\ answer = [r \in Request |-> None]

Accept(r) == /\ kind[r] = None
             /\ \E k \in Kinds : kind' = [kind EXCEPT ![r] = k]
             /\ UNCHANGED <<live, ever, effect, recorded, answer>>

Open(r) == kind[r] # None /\ answer[r] = None

Issue(r, k) == /\ Open(r) /\ kind[r] = "issue" /\ effect[r] = None
               /\ k \notin ever
               /\ live' = live \cup {k}
               /\ ever' = ever \cup {k}
               /\ effect' = [effect EXCEPT ![r] = k]
               /\ UNCHANGED <<kind, recorded, answer>>

Revoke(r, k) == /\ Open(r) /\ kind[r] = "revoke" /\ effect[r] = None
                /\ k \in live
                /\ live' = live \ {k}
                /\ effect' = [effect EXCEPT ![r] = k]
                /\ UNCHANGED <<ever, kind, recorded, answer>>

(* Expired keys are reaped, many at a time.                                 *)
Reap(K) == /\ live' = live \ K
           /\ UNCHANGED <<ever, kind, effect, recorded, answer>>

Record(r) == /\ Open(r)
             /\ kind[r] \in {"issue", "revoke"} => effect[r] # None
             /\ recorded' = recorded \cup {r}
             /\ UNCHANGED <<live, ever, kind, effect, answer>>

Answer(r, a) == /\ Open(r)
                /\ a = "ok" => r \in recorded
                /\ answer' = [answer EXCEPT ![r] = a]
                /\ UNCHANGED <<live, ever, kind, effect, recorded>>

Next == \/ \E r \in Request : \/ Accept(r) \/ Record(r)
                              \/ \E k \in Kid : Issue(r, k) \/ Revoke(r, k)
                              \/ \E a \in {"ok", "other"} : Answer(r, a)
        \/ \E K \in SUBSET live : Reap(K)

Spec == Init /\ [][Next]_promiseVars
=============================================================================
