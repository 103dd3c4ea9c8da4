----------------------------- MODULE ModelRegistry -----------------------------
(***************************************************************************)
(* The registered versions of one model name (apps/api/app/modules/pdm):   *)
(* training registers candidates, promotion makes one the production model *)
(* and archives the others of the name, also those of other keys (name,    *)
(* asset).  Promotions run in transactions of isolation READ COMMITTED: a  *)
(* statement works on the rows committed when it began, waits for rows     *)
(* another transaction has written, and rechecks them.                     *)
(***************************************************************************)
EXTENDS Integers, FiniteSets

CONSTANTS
    PlantModels,      \* versions for every asset of their type (asset_id is null)
    BoundModels,      \* versions bound to one asset
    RegistryWorkers,  \* requests and the training worker
    MaxPromotions     \* bound: promotions begun

ASSUME MaxPromotionsAssumption == MaxPromotions \in Nat

VARIABLES
    stage,       \* committed stage of each version; "absent" before its training
    promotion,   \* each worker's transaction
    promotions   \* bound

registryVars == <<stage, promotion, promotions>>

Models == PlantModels \cup BoundModels
NoModel == "no model"
ASSUME NoModelAssumption == NoModel \notin Models
NoPromotion == [pc |-> "idle", model |-> NoModel, victims |-> {}, archived |-> {}]

\* What models_one_production_uq compares: (name, coalesce(asset_id, 0)).
SameKey(m, n) == {m, n} \subseteq PlantModels \/ {m, n} \subseteq BoundModels

RegistryTypeOK ==
    /\ stage \in [Models -> {"absent", "candidate", "production", "archived"}]
    /\ \A w \in RegistryWorkers :
         /\ promotion[w].pc \in {"idle", "read", "archiving", "flushed"}
         /\ (promotion[w].pc # "idle") <=> (promotion[w].model \in Models)
         /\ promotion[w].victims \cup promotion[w].archived \subseteq Models
    /\ promotions \in 0..MaxPromotions

RegistryInit ==
    /\ stage = [m \in Models |-> "absent"]
    /\ promotion = [w \in RegistryWorkers |-> NoPromotion]
    /\ promotions = 0

-----------------------------------------------------------------------------
(* Rows a transaction has written and not committed. *)
Wrote(w) == promotion[w].archived
              \cup (IF promotion[w].pc = "flushed" THEN {promotion[w].model} ELSE {})

RowsFree(m, w) == \A v \in RegistryWorkers \ {w} : m \notin Wrote(v)

BeginPromotion(w, m) ==
    /\ promotion[w].pc = "idle" /\ promotions < MaxPromotions
    /\ promotion' = [promotion EXCEPT ![w] = [NoPromotion EXCEPT !.pc = "read", !.model = m]]
    /\ promotions' = promotions + 1

\* ModelService.promote: a model in production is refused.
ReadModel(w, m) ==
    /\ stage[m] \in {"candidate", "archived"}
    /\ BeginPromotion(w, m)
    /\ UNCHANGED stage

\* register_model, whose new row is committed before its promotion begins.
Register(m) ==
    /\ stage[m] = "absent"
    /\ stage' = [stage EXCEPT ![m] = "candidate"]
    /\ \/ UNCHANGED <<promotion, promotions>>
       \/ \E w \in RegistryWorkers : BeginPromotion(w, m)

\* The UPDATE that archives begins with the production rows of its snapshot.
FindVictims(w) ==
    /\ promotion[w].pc = "read"
    /\ promotion' = [promotion EXCEPT
         ![w].pc = "archiving",
         ![w].victims = {m \in Models \ {promotion[w].model} : stage[m] = "production"}]
    /\ UNCHANGED <<stage, promotions>>

\* Mutant: the archiving is committed on its own.
ArchiveVictimNow(w) ==
    /\ promotion[w].pc = "archiving"
    /\ \E m \in promotion[w].victims :
         /\ RowsFree(m, w)
         /\ stage' = [stage EXCEPT ![m] = "archived"]
         /\ promotion' = [promotion EXCEPT ![w].victims = @ \ {m}]
    /\ UNCHANGED promotions

\* It takes them one by one, and leaves one that has changed meanwhile.
ArchiveVictim(w) ==
    /\ promotion[w].pc = "archiving"
    /\ \E m \in promotion[w].victims :
         /\ RowsFree(m, w)
         /\ promotion' = [promotion EXCEPT
              ![w].victims = @ \ {m},
              ![w].archived = IF stage[m] = "production" THEN @ \cup {m} ELSE @]
    /\ UNCHANGED <<stage, promotions>>

RollbackPromotion(w) ==
    /\ promotion' = [promotion EXCEPT ![w] = NoPromotion]
    /\ UNCHANGED <<stage, promotions>>

\* Mutant: there is no unique index.
FlushPromotionUnchecked(w) ==
    /\ promotion[w].pc = "archiving" /\ promotion[w].victims = {}
    /\ promotion' = [promotion EXCEPT ![w].pc = "flushed"]
    /\ UNCHANGED <<stage, promotions>>

\* The flush waits for the model's row and for every row of its key that
\* another transaction is changing; then the index accepts it or refuses.
FlushPromotion(w) ==
    LET model == promotion[w].model
        peers == {m \in Models \ {model} : SameKey(m, model)}
    IN
    /\ promotion[w].pc = "archiving" /\ promotion[w].victims = {}
    /\ \A m \in peers \cup {model} : RowsFree(m, w)
    /\ IF \E m \in peers : stage[m] = "production" /\ m \notin promotion[w].archived
       THEN RollbackPromotion(w)
       ELSE /\ promotion' = [promotion EXCEPT ![w].pc = "flushed"]
            /\ UNCHANGED <<stage, promotions>>

CommitPromotion(w) ==
    /\ promotion[w].pc = "flushed"
    /\ stage' = [m \in Models |-> CASE m = promotion[w].model -> "production"
                                    [] m \in promotion[w].archived -> "archived"
                                    [] OTHER -> stage[m]]
    /\ promotion' = [promotion EXCEPT ![w] = NoPromotion]
    /\ UNCHANGED promotions

\* The database ends one of several transactions that wait for each other, and
\* a connection may be lost at any time.
AbortPromotion(w) == promotion[w].pc # "idle" /\ RollbackPromotion(w)

RegistryNext ==
    \/ \E m \in Models : Register(m)
    \/ \E w \in RegistryWorkers, m \in Models : ReadModel(w, m)
    \/ \E w \in RegistryWorkers :
         FindVictims(w) \/ ArchiveVictim(w) \/ FlushPromotion(w) \/ CommitPromotion(w) \/ AbortPromotion(w)

RegistrySpec == RegistryInit /\ [][RegistryNext]_registryVars

-----------------------------------------------------------------------------
(* Properties. *)

\* "One production model per (name, asset)", whatever promotions overlap and
\* however stale the stage was that they decided on.
OneProduction ==
    \A m, n \in Models : m # n /\ SameKey(m, n) => ~(stage[m] = "production" /\ stage[n] = "production")

\* Once the NAME has a production model it has one for ever: of the promotions
\* that overlap, wait, are refused by the index or lose their connection, none
\* leaves the archiving of the last production model behind without its own.
\* It is not so of each key: promote archives every production model of the
\* name, whatever its asset, and the index compares keys.  A key can be left
\* without by the promotion of another key's model, and only so.
ProductionReplaced ==
    (\E m \in Models : stage[m] = "archived") => \E m \in Models : stage[m] = "production"

\* The registry of models: at most one version in production of each key, and
\* always some version of the name, of this key or another, once there was one.
RegistrySound == OneProduction /\ ProductionReplaced
=============================================================================
