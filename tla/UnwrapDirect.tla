---------------------------- MODULE UnwrapDirect ----------------------------
(* What the unwrap cache of keystore.js must look like from outside: as if  *)
(* there were none.  A call gets the secret out of the very row it loaded,  *)
(* or the error that this row deserves; whatever happened to the table, to  *)
(* other calls or to the clock since the row was loaded plays no part.      *)
EXTENDS Naturals

CONSTANTS Kids,       \* key ids
          Keks,       \* ids of embedding keys
          Configured, \* those this process was started with
          Callers,    \* requests being handled
          NoRow

VARIABLES rows,  \* the table of keys: the embedding in each row
          calls  \* what each request is doing

directVars == <<rows, calls>>

(* An embedding is a JWE text: made with one KEK, it holds the secret of    *)
(* one key, and no two encryptions are the same text.                       *)
Embeddings == [of : Kids, kek : Keks, ver : Nat]

(* KekManager.extract on the embedding of row kid.                          *)
Extraction(kid, emb) ==
  CASE emb.kek \notin Configured -> [error |-> "unavailable"]
    [] emb.kek \in Configured /\ emb.of # kid -> [error |-> "mismatch"]
    [] OTHER -> emb

Idle == [pc |-> "idle"]
Loaded(kid, emb) == [pc |-> "loaded", kid |-> kid, emb |-> emb]
Done(kid, emb, out) == [pc |-> "done", kid |-> kid, emb |-> emb, out |-> out]

Init == /\ rows = [k \in Kids |-> NoRow]
        /\ calls = [c \in Callers |-> Idle]

(* Anything may happen to the table.                                        *)
ChangeRows == /\ rows' \in [Kids -> Embeddings \cup {NoRow}]
              /\ UNCHANGED calls

Load(c, k) == /\ calls[c] = Idle
              /\ rows[k] # NoRow
              /\ calls' = [calls EXCEPT ![c] = Loaded(k, rows[k])]
              /\ UNCHANGED rows

Answer(c) == /\ calls[c].pc = "loaded"
             /\ LET kid == calls[c].kid
                    emb == calls[c].emb
                IN calls' = [calls EXCEPT ![c] = Done(kid, emb, Extraction(kid, emb))]
             /\ UNCHANGED rows

Finish(c) == /\ calls[c].pc = "done"
             /\ calls' = [calls EXCEPT ![c] = Idle]
             /\ UNCHANGED rows

Next == \/ ChangeRows
        \/ \E c \in Callers : \/ Answer(c) \/ Finish(c)
                              \/ \E k \in Kids : Load(c, k)

Spec == Init /\ [][Next]_directVars
=============================================================================
