---------------------------- MODULE RegistryProofs ----------------------------
(***************************************************************************)
(* What the API keeps in its tables and tells its browsers, for any        *)
(* versions, codes, planners, topics, workers and bounds: promotions in    *)
(* the model registry, the asset registry and its twin store, maintenance  *)
(* plans, the live socket of a browser, the shift that is on and what is   *)
(* computed of the machines' stored events.                                *)
(***************************************************************************)
EXTENDS ModelRegistry, AssetRegistry, MaintenancePlans, LiveUpdates, ShiftCalendar, ProductionKpis,
        DataLemmas, FiniteSetTheorems, SequenceTheorems, TLAPS

-----------------------------------------------------------------------------
(* Promotions: the unique index and the locks of the rows keep two of one   *)
(* key apart, and a promotion archives only together with its own          *)
(* version's coming into production.                                       *)

\* A row is written by one transaction at a time.
WritersApart == \A v, w \in RegistryWorkers : v # w => Wrote(v) \cap Wrote(w) = {}

\* What a transaction has archived stays in production for the others until its
\* commit, and is never the version it promotes.
ArchivedHeld ==
    \A w \in RegistryWorkers :
        /\ \A m \in promotion[w].archived : stage[m] = "production"
        /\ promotion[w].model \notin promotion[w].victims \cup promotion[w].archived

\* Past the index, a promotion is alone in its key and archives whatever is in
\* production there.
FlushedAlone ==
    \A w \in RegistryWorkers : promotion[w].pc = "flushed" =>
        /\ \A m \in Models \ {promotion[w].model} :
             SameKey(m, promotion[w].model) /\ stage[m] = "production" => m \in promotion[w].archived
        /\ \A v \in RegistryWorkers \ {w} :
             promotion[v].pc = "flushed" =>
                 promotion[v].model # promotion[w].model /\ ~SameKey(promotion[v].model, promotion[w].model)

\* The type of a transaction, as a set.
Promotions == [pc : {"idle", "read", "archiving", "flushed"}, model : Models \cup {NoModel},
               victims : SUBSET Models, archived : SUBSET Models]

PromotionsTyped == promotion \in [RegistryWorkers -> Promotions]

RegistryInv ==
    /\ RegistryTypeOK /\ PromotionsTyped /\ WritersApart /\ ArchivedHeld /\ FlushedAlone
    /\ OneProduction /\ ProductionReplaced

LEMMA NoPromotionTyped ==
    /\ NoPromotion \in Promotions /\ NoPromotion.pc = "idle" /\ NoPromotion.model \notin Models
    /\ NoPromotion.victims = {} /\ NoPromotion.archived = {}
  BY NoModelAssumption DEF NoPromotion, Promotions

LEMMA RegistryInitHolds == RegistryInit => RegistryInv
  <1> SUFFICES ASSUME RegistryInit PROVE RegistryInv
    OBVIOUS
  <1>1. /\ \A w \in RegistryWorkers : promotion[w] = NoPromotion
        /\ \A m \in Models : stage[m] = "absent"
    BY DEF RegistryInit
  <1>2. RegistryTypeOK /\ PromotionsTyped
    <2>1. stage \in [Models -> {"absent", "candidate", "production", "archived"}] /\ promotions \in 0..MaxPromotions
      BY MaxPromotionsAssumption DEF RegistryInit
    <2>2. PromotionsTyped
      BY NoPromotionTyped DEF RegistryInit, PromotionsTyped
    <2>3. QED
      BY <1>1, <2>1, <2>2, NoPromotionTyped DEF RegistryTypeOK
  <1>3. WritersApart /\ ArchivedHeld /\ FlushedAlone
    BY <1>1, NoPromotionTyped DEF WritersApart, Wrote, ArchivedHeld, FlushedAlone
  <1>4. OneProduction /\ ProductionReplaced
    BY <1>1 DEF OneProduction, ProductionReplaced
  <1>5. QED
    BY <1>2, <1>3, <1>4 DEF RegistryInv

\* A transaction that ends, or begins, has written nothing.
LEMMA PromotionKeeps ==
    ASSUME RegistryInv, NEW w \in RegistryWorkers, NEW p \in Promotions, promotion' = [promotion EXCEPT ![w] = p],
           (p.pc # "idle") <=> (p.model \in Models), p.pc # "flushed", p.victims = {}, p.archived = {},
           promotions' \in 0..MaxPromotions, stage' \in [Models -> {"absent", "candidate", "production", "archived"}],
           \A m \in Models : stage'[m] = stage[m] \/ (stage[m] = "absent" /\ stage'[m] = "candidate")
    PROVE  RegistryInv'
  <1>1. promotion'[w] = p /\ (\A v \in RegistryWorkers \ {w} : promotion'[v] = promotion[v]) /\ PromotionsTyped'
    BY DEF RegistryInv, PromotionsTyped
  <1>2. RegistryTypeOK'
    BY <1>1 DEF RegistryInv, RegistryTypeOK, Promotions
  <1>3. Wrote(w)' = {} /\ \A v \in RegistryWorkers \ {w} : Wrote(v)' = Wrote(v)
    BY <1>1 DEF Wrote
  <1>4. WritersApart'
    BY <1>3 DEF RegistryInv, WritersApart
  <1>5. ArchivedHeld'
    <2>1. \A v \in RegistryWorkers : promotion[v].archived \subseteq Models
      BY DEF RegistryInv, PromotionsTyped, Promotions
    <2>2. p.model \notin p.victims \cup p.archived
      OBVIOUS
    <2>3. QED
      BY <1>1, <2>1, <2>2 DEF RegistryInv, ArchivedHeld
  <1>6. FlushedAlone'
    BY <1>1 DEF RegistryInv, FlushedAlone
  <1>7. OneProduction' /\ ProductionReplaced'
    BY DEF RegistryInv, OneProduction, ProductionReplaced
  <1>8. QED
    BY <1>1, <1>2, <1>4, <1>5, <1>6, <1>7 DEF RegistryInv

LEMMA ReadsKeep ==
    ASSUME RegistryInv, NEW m \in Models, Register(m) \/ \E w \in RegistryWorkers : ReadModel(w, m)
    PROVE  RegistryInv'
  <1>1. /\ stage' \in [Models -> {"absent", "candidate", "production", "archived"}]
        /\ \A n \in Models : stage'[n] = stage[n] \/ (stage[n] = "absent" /\ stage'[n] = "candidate")
    BY DEF RegistryInv, RegistryTypeOK, Register, ReadModel
  <1>2. ASSUME NEW w \in RegistryWorkers, BeginPromotion(w, m) PROVE RegistryInv'
    <2> DEFINE p == [NoPromotion EXCEPT !.pc = "read", !.model = m]
    <2>1. p \in Promotions /\ p.pc = "read" /\ p.model = m /\ p.victims = {} /\ p.archived = {}
      BY NoPromotionTyped DEF Promotions, NoPromotion
    <2>2. promotion' = [promotion EXCEPT ![w] = p] /\ promotions' = promotions + 1 /\ promotions < MaxPromotions
      BY <1>2 DEF BeginPromotion
    <2>3. promotions' \in 0..MaxPromotions
      BY <2>2, MaxPromotionsAssumption DEF RegistryInv, RegistryTypeOK
    <2> HIDE DEF p
    <2>4. QED
      BY <1>1, <2>1, <2>2, <2>3, PromotionKeeps
  <1>3. CASE UNCHANGED <<promotion, promotions>>
    <2>1. RegistryTypeOK' /\ PromotionsTyped'
      BY <1>1, <1>3 DEF RegistryInv, RegistryTypeOK, PromotionsTyped
    <2>2. \A v \in RegistryWorkers : promotion[v].archived \subseteq Models
      BY DEF RegistryInv, PromotionsTyped, Promotions
    <2>3. WritersApart' /\ ArchivedHeld' /\ FlushedAlone' /\ OneProduction' /\ ProductionReplaced'
      BY <1>1, <1>3, <2>2 DEF RegistryInv, WritersApart, Wrote, ArchivedHeld, FlushedAlone, OneProduction, ProductionReplaced
    <2>4. QED
      BY <2>1, <2>3 DEF RegistryInv
  <1>4. QED
    BY <1>2, <1>3 DEF Register, ReadModel

LEMMA PromotionRollbackKeeps == ASSUME RegistryInv, NEW w \in RegistryWorkers, RollbackPromotion(w) PROVE RegistryInv'
  <1>1. /\ promotions' \in 0..MaxPromotions /\ stage' \in [Models -> {"absent", "candidate", "production", "archived"}]
        /\ \A m \in Models : stage'[m] = stage[m]
    BY DEF RollbackPromotion, RegistryInv, RegistryTypeOK
  <1>2. QED
    BY <1>1, NoPromotionTyped, PromotionKeeps DEF RollbackPromotion

\* The statement that archives waits for the rows others have written.
LEMMA ArchivingKeeps == ASSUME RegistryInv, NEW w \in RegistryWorkers, FindVictims(w) \/ ArchiveVictim(w) PROVE RegistryInv'
  <1>1. promotion \in [RegistryWorkers -> Promotions] /\ promotion[w] \in Promotions /\ promotion[w].pc \in {"read", "archiving"}
    BY DEF RegistryInv, PromotionsTyped, FindVictims, ArchiveVictim
  <1>2. PICK p \in Promotions :
          /\ promotion' = [promotion EXCEPT ![w] = p] /\ p.pc = "archiving" /\ p.model = promotion[w].model
          /\ p.model \notin p.victims
          /\ \A m \in p.archived \ promotion[w].archived : stage[m] = "production" /\ RowsFree(m, w) /\ m \in promotion[w].victims
    <2>1. CASE FindVictims(w)
      <3> DEFINE p == [promotion[w] EXCEPT !.pc = "archiving",
                                           !.victims = {m \in Models \ {promotion[w].model} : stage[m] = "production"}]
      <3>1. p \in Promotions /\ p.pc = "archiving" /\ p.model = promotion[w].model /\ p.archived = promotion[w].archived
            /\ p.model \notin p.victims
        BY <1>1 DEF Promotions
      <3>2. promotion' = [promotion EXCEPT ![w] = p]
        BY <2>1, <1>1 DEF FindVictims, Promotions
      <3>3. QED
        BY <3>1, <3>2
    <2>2. CASE ArchiveVictim(w)
      <3>1. PICK m \in promotion[w].victims :
              /\ RowsFree(m, w)
              /\ promotion' = [promotion EXCEPT
                   ![w].victims = @ \ {m},
                   ![w].archived = IF stage[m] = "production" THEN @ \cup {m} ELSE @]
        BY <2>2 DEF ArchiveVictim
      <3> DEFINE p == [promotion[w] EXCEPT !.victims = @ \ {m}, !.archived = IF stage[m] = "production" THEN @ \cup {m} ELSE @]
      <3>2. /\ p \in Promotions /\ p.pc = "archiving" /\ p.model = promotion[w].model
            /\ p.victims = promotion[w].victims \ {m}
            /\ p.archived = IF stage[m] = "production" THEN promotion[w].archived \cup {m} ELSE promotion[w].archived
        BY <1>1, <2>2, <3>1 DEF Promotions, ArchiveVictim
      <3>3. promotion' = [promotion EXCEPT ![w] = p]
        BY <3>1, <1>1 DEF Promotions
      <3>4. p.model \notin p.victims
        BY <3>2 DEF RegistryInv, ArchivedHeld
      <3> HIDE DEF p
      <3>5. \A n \in p.archived \ promotion[w].archived :
               stage[n] = "production" /\ RowsFree(n, w) /\ n \in promotion[w].victims
        BY <3>1, <3>2
      <3>6. QED
        BY <3>2, <3>3, <3>4, <3>5
    <2>3. QED
      BY <2>1, <2>2
  <1>3. UNCHANGED <<stage, promotions>>
    BY DEF FindVictims, ArchiveVictim
  <1>4. promotion'[w] = p /\ (\A v \in RegistryWorkers \ {w} : promotion'[v] = promotion[v]) /\ PromotionsTyped'
    BY <1>1, <1>2 DEF PromotionsTyped
  <1>5. RegistryTypeOK'
    BY <1>1, <1>2, <1>3, <1>4 DEF RegistryInv, RegistryTypeOK, Promotions
  <1>6. (\A v \in RegistryWorkers \ {w} : Wrote(v)' = Wrote(v)) /\ Wrote(w)' = p.archived /\ promotion[w].archived \subseteq Wrote(w)
    BY <1>2, <1>4 DEF Wrote
  <1>7. WritersApart'
    <2>1. ASSUME NEW v \in RegistryWorkers \ {w} PROVE p.archived \cap Wrote(v) = {}
      BY <1>2, <1>6 DEF RegistryInv, WritersApart, RowsFree
    <2>2. QED
      BY <1>6, <2>1 DEF RegistryInv, WritersApart
  <1>8. ArchivedHeld'
    <2>1. p.model \notin p.archived
      BY <1>2 DEF RegistryInv, ArchivedHeld
    <2>2. QED
      BY <1>2, <1>3, <1>4, <2>1 DEF RegistryInv, ArchivedHeld
  <1>9. FlushedAlone'
    BY <1>2, <1>3, <1>4 DEF RegistryInv, FlushedAlone
  <1>10. OneProduction' /\ ProductionReplaced'
    BY <1>3 DEF RegistryInv, OneProduction, ProductionReplaced
  <1>11. QED
    BY <1>4, <1>5, <1>7, <1>8, <1>9, <1>10 DEF RegistryInv

\* The index lets a promotion pass when its key is free of others.
LEMMA PromotionFlushKeeps == ASSUME RegistryInv, NEW w \in RegistryWorkers, FlushPromotion(w) PROVE RegistryInv'
  <1> DEFINE model == promotion[w].model
             peers == {m \in Models \ {model} : SameKey(m, model)}
             p == [promotion[w] EXCEPT !.pc = "flushed"]
  <1>1. /\ promotion[w].pc = "archiving" /\ \A m \in peers \cup {model} : RowsFree(m, w)
        /\ promotion \in [RegistryWorkers -> Promotions] /\ promotion[w] \in Promotions
    BY DEF FlushPromotion, RegistryInv, PromotionsTyped
  <1>2. CASE RollbackPromotion(w)
    BY <1>2, PromotionRollbackKeeps
  <1>3. CASE /\ \A m \in peers : stage[m] = "production" => m \in promotion[w].archived
             /\ promotion' = [promotion EXCEPT ![w].pc = "flushed"] /\ UNCHANGED <<stage, promotions>>
    <2>1. /\ p \in Promotions /\ p.pc = "flushed" /\ p.model = model /\ p.victims = promotion[w].victims
          /\ p.archived = promotion[w].archived /\ model \in Models
      BY <1>1 DEF Promotions, RegistryInv, RegistryTypeOK
    <2>2. promotion'[w] = p /\ (\A v \in RegistryWorkers \ {w} : promotion'[v] = promotion[v]) /\ PromotionsTyped'
      BY <1>1, <1>3, <2>1 DEF PromotionsTyped
    <2>3. RegistryTypeOK'
      BY <1>3, <2>1, <2>2 DEF RegistryInv, RegistryTypeOK, Promotions
    <2>4. /\ \A v \in RegistryWorkers \ {w} : Wrote(v)' = Wrote(v) /\ model \notin Wrote(v)
          /\ Wrote(w)' = promotion[w].archived \cup {model} /\ Wrote(w) = promotion[w].archived
      BY <1>1, <2>1, <2>2 DEF Wrote, RowsFree
    <2>5. WritersApart'
      BY <2>4 DEF RegistryInv, WritersApart
    <2>6. ArchivedHeld'
      BY <1>3, <2>1, <2>2 DEF RegistryInv, ArchivedHeld
    <2>7. ASSUME NEW v \in RegistryWorkers \ {w}, promotion[v].pc = "flushed"
          PROVE  promotion[v].model # model /\ ~SameKey(promotion[v].model, model) /\ ~SameKey(model, promotion[v].model)
      <3>1. promotion[v].model \in Wrote(v) /\ promotion[v].model \in Models
        BY <2>7 DEF Wrote, RegistryInv, RegistryTypeOK
      <3>2. promotion[v].model \notin peers \cup {model}
        BY <1>1, <3>1 DEF RowsFree
      <3>3. QED
        BY <3>1, <3>2 DEF SameKey
    <2>8. FlushedAlone'
      BY <1>3, <2>1, <2>2, <2>7 DEF RegistryInv, FlushedAlone
    <2>9. OneProduction' /\ ProductionReplaced'
      BY <1>3 DEF RegistryInv, OneProduction, ProductionReplaced
    <2>10. QED
      BY <2>2, <2>3, <2>5, <2>6, <2>8, <2>9 DEF RegistryInv
  <1>4. QED
    BY <1>2, <1>3 DEF FlushPromotion

\* What has been archived goes out of production with the commit that brings
\* the promoted version in.
LEMMA PromotionCommitKeeps == ASSUME RegistryInv, NEW w \in RegistryWorkers, CommitPromotion(w) PROVE RegistryInv'
  <1> DEFINE model == promotion[w].model
             archived == promotion[w].archived
  <1>1. /\ promotion[w].pc = "flushed" /\ model \in Models /\ archived \subseteq Models /\ model \notin archived
        /\ promotion \in [RegistryWorkers -> Promotions]
    BY DEF CommitPromotion, RegistryInv, RegistryTypeOK, ArchivedHeld, PromotionsTyped, Promotions
  <1>2. /\ stage' \in [Models -> {"absent", "candidate", "production", "archived"}]
        /\ stage'[model] = "production"
        /\ \A m \in archived : stage'[m] = "archived"
        /\ \A m \in Models \ (archived \cup {model}) : stage'[m] = stage[m]
    BY <1>1 DEF CommitPromotion, RegistryInv, RegistryTypeOK
  <1>3. promotion'[w] = NoPromotion /\ (\A v \in RegistryWorkers \ {w} : promotion'[v] = promotion[v]) /\ PromotionsTyped'
    BY <1>1, NoPromotionTyped DEF CommitPromotion, PromotionsTyped
  <1>4. RegistryTypeOK'
    BY <1>2, <1>3, NoPromotionTyped DEF CommitPromotion, RegistryInv, RegistryTypeOK
  <1>5. Wrote(w)' = {} /\ \A v \in RegistryWorkers \ {w} : Wrote(v)' = Wrote(v)
    BY <1>3, NoPromotionTyped DEF Wrote
  <1>6. WritersApart'
    BY <1>5 DEF RegistryInv, WritersApart
  <1>7. Wrote(w) = archived \cup {model}
    BY <1>1 DEF Wrote
  <1>8. ArchivedHeld'
    <2>1. ASSUME NEW v \in RegistryWorkers \ {w}, NEW m \in promotion[v].archived PROVE stage'[m] = "production"
      <3>1. m \notin archived \cup {model} /\ m \in Models
        BY <1>1, <1>7 DEF RegistryInv, WritersApart, Wrote, Promotions
      <3>2. QED
        BY <3>1, <1>2 DEF RegistryInv, ArchivedHeld
    <2>2. QED
      BY <1>3, <2>1, NoPromotionTyped DEF RegistryInv, ArchivedHeld
  <1>9. FlushedAlone'
    <2>1. ASSUME NEW v \in RegistryWorkers \ {w}, promotion[v].pc = "flushed",
                 NEW m \in Models \ {promotion[v].model}, SameKey(m, promotion[v].model), stage'[m] = "production"
          PROVE  m \in promotion[v].archived
      <3>1. m # model
        BY <1>1, <2>1 DEF RegistryInv, FlushedAlone, SameKey
      <3>2. stage[m] = "production"
        BY <1>2, <2>1, <3>1
      <3>3. QED
        BY <2>1, <3>2 DEF RegistryInv, FlushedAlone
    <2>2. QED
      BY <1>3, <2>1, NoPromotionTyped DEF RegistryInv, FlushedAlone
  <1>10. OneProduction'
    <2>1. ASSUME NEW m \in Models, NEW n \in Models, m # n, SameKey(m, n), stage'[m] = "production", stage'[n] = "production"
          PROVE  FALSE
      <3>1. m \notin archived /\ n \notin archived
        BY <1>2, <2>1
      <3>2. m # model /\ n # model
        BY <1>1, <1>2, <2>1, <3>1 DEF RegistryInv, FlushedAlone, SameKey
      <3>3. QED
        BY <1>2, <2>1, <3>1, <3>2 DEF RegistryInv, OneProduction
    <2>2. QED
      BY <2>1 DEF OneProduction
  <1>11. ProductionReplaced'
    BY <1>1, <1>2 DEF ProductionReplaced
  <1>12. QED
    BY <1>3, <1>4, <1>6, <1>8, <1>9, <1>10, <1>11 DEF RegistryInv

LEMMA RegistryNextKeeps == RegistryInv /\ [RegistryNext]_registryVars => RegistryInv'
  <1> SUFFICES ASSUME RegistryInv, [RegistryNext]_registryVars PROVE RegistryInv'
    OBVIOUS
  <1>1. CASE UNCHANGED registryVars
    BY <1>1 DEF registryVars, RegistryInv, RegistryTypeOK, WritersApart, Wrote, ArchivedHeld, FlushedAlone, OneProduction,
                ProductionReplaced, PromotionsTyped
  <1>2. CASE RegistryNext
    BY <1>2, ReadsKeep, ArchivingKeeps, PromotionFlushKeeps, PromotionCommitKeeps, PromotionRollbackKeeps DEF RegistryNext, AbortPromotion
  <1>3. QED
    BY <1>1, <1>2

\* Every statement and commit of the promotions keeps who wrote which row and
\* who is alone past the index (ModelService.promote).
THEOREM RegistryInvariant == RegistrySpec => []RegistryInv
  BY RegistryInitHolds, RegistryNextKeeps, PTL DEF RegistrySpec

\* The stages of the versions and the transactions keep their types: a
\* transaction has a version to promote exactly while it is under way.
THEOREM RegistryTypeCorrect == RegistrySpec => []RegistryTypeOK
  <1>1. RegistryInv => RegistryTypeOK
    BY DEF RegistryInv
  <1>2. QED
    BY <1>1, RegistryInvariant, PTL

\* promote leaves at most one production version per key, through the unique
\* index, and never none of the name once there was one, through the one
\* transaction that archives and promotes. Per key the second is false of the
\* code, which archives by name.
THEOREM PromotionsSound == RegistrySpec => []RegistrySound
  <1>1. RegistryInv => RegistrySound
    BY DEF RegistryInv, RegistrySound
  <1>2. QED
    BY <1>1, RegistryInvariant, PTL

-----------------------------------------------------------------------------
(* Assets and their things: no asset without its thing, no retired thing   *)
(* written, and the two in step but for updates that overlapped.           *)

\* One transaction at a time has written the row of an asset.
OneWriter == \A v, w \in AssetWorkers, c \in Codes : Locks(v, c) /\ Locks(w, c) => v = w

\* An edit other than a creation is of a row that is there, and stays; what has
\* been created is not there before its commit.
EditsOfRows ==
    \A w \in AssetWorkers :
        LET e == edit[w] IN
        /\ e.pc # "idle" /\ e.kind # "create" => e.kind # "none" /\ row[e.code].state # "none"
        /\ e.pc = "flushed" /\ e.kind = "create" => row[e.code].state # "active"
        /\ e.pc = "sent" /\ e.kind = "create" => row[e.code].state = "none"
        /\ e.pc \in {"flushed", "sent"} /\ e.kind = "create" => e.held.state = "active"

\* What is to be committed is in the twin store.
SentIsThere ==
    \A w \in AssetWorkers :
        LET e == edit[w] t == thing[e.code] IN
        e.pc = "sent" =>
            /\ e.kind = "create"    => t.there /\ t.parts = e.held.parts /\ t.fields = e.held.fields
            /\ e.kind = "retire"    => t.readonly
            /\ e.kind = "component" => e.value \in t.parts

RetiredIsClosed == \A c \in Codes : row[c].state = "retired" => thing[c].readonly

\* An update that has not overlapped another holds the row as it is, with its
\* own field once it is flushed.
HeldFields(w) ==
    LET e == edit[w] IN
    e.held.fields = IF e.pc = "loaded" THEN row[e.code].fields ELSE [row[e.code].fields EXCEPT ![e.field] = e.value]

UpdatesApart ==
    /\ \A v, w \in AssetWorkers : edit[v].kind = "update" /\ edit[w].kind = "update" /\ edit[v].code = edit[w].code => v = w
    /\ \A w \in AssetWorkers : edit[w].kind = "update" => HeldFields(w)

Sending(w, c) == edit[w].kind = "update" /\ edit[w].pc = "sent" /\ edit[w].code = c

\* The twin store shows the row, or what is about to be committed to it.
AssetsInStep ==
    /\ \A c \in Codes : row[c].state = "active" /\ (\A w \in AssetWorkers : ~Sending(w, c)) => thing[c].fields = row[c].fields
    /\ \A w \in AssetWorkers : edit[w].kind = "update" /\ edit[w].pc = "sent" => thing[edit[w].code].fields = edit[w].held.fields

IdleIsBlank == \A w \in AssetWorkers : edit[w].pc = "idle" <=> edit[w].kind = "none"

AssetInv ==
    /\ AssetTypeOK /\ IdleIsBlank /\ OneWriter /\ EditsOfRows /\ SentIsThere /\ RetiredIsClosed /\ TwinForEveryAsset
    /\ faults = 0 /\ ~overlapped => UpdatesApart /\ AssetsInStep

AssetRows   == [state : {"none", "active", "retired"}, fields : [Fields -> FieldVersions], parts : SUBSET FieldVersions]
AssetThings == [there : BOOLEAN, readonly : BOOLEAN, fields : [Fields -> FieldVersions], parts : SUBSET FieldVersions]
AssetKinds  == {"create", "update", "retire", "component"}
AssetEdits  == [pc : {"idle", "loaded", "flushed", "sent"}, kind : AssetKinds \cup {"none"}, code : Codes, held : AssetRows,
                value : FieldVersions, field : Fields]

LEMMA AssetTyping ==
    AssetTypeOK <=>
      /\ row \in [Codes -> AssetRows] /\ thing \in [Codes -> AssetThings] /\ edit \in [AssetWorkers -> AssetEdits]
      /\ edits \in FieldVersions /\ faults \in 0..MaxFaults /\ overlapped \in BOOLEAN
  BY DEF AssetTypeOK, AssetRows, AssetThings, AssetEdits, AssetKinds

LEMMA NoEditTyped == NoEdit \in AssetEdits /\ NoRow \in AssetRows
  <1>1. (CHOOSE c \in Codes : TRUE) \in Codes
    BY AssetAssumption
  <1>2. 0 \in FieldVersions
    BY AssetAssumption DEF FieldVersions
  <1>3. NoRow \in AssetRows
    BY <1>2 DEF NoRow, AssetRows
  <1>4. QED
    BY <1>1, <1>2, <1>3 DEF NoEdit, AssetEdits, AssetKinds, Fields

LEMMA AssetInitHolds == AssetInit => AssetInv
  <1> SUFFICES ASSUME AssetInit PROVE AssetInv
    OBVIOUS
  <1> USE DEF AssetInit
  <1>1. /\ \A w \in AssetWorkers : edit[w].pc = "idle" /\ edit[w].kind = "none"
        /\ \A c \in Codes : row[c].state = "none"
    BY DEF NoEdit, NoRow
  <1>2. AssetTypeOK
    <2>1. 0 \in FieldVersions /\ 0 \in 0..MaxFaults
      BY AssetAssumption DEF FieldVersions
    <2>2. NoThing \in AssetThings
      BY <2>1 DEF NoThing, AssetThings
    <2>3. QED
      BY <2>1, <2>2, NoEditTyped, AssetTyping
  <1>3. IdleIsBlank /\ OneWriter /\ EditsOfRows /\ SentIsThere /\ RetiredIsClosed /\ TwinForEveryAsset
    BY <1>1 DEF IdleIsBlank, OneWriter, Locks, EditsOfRows, SentIsThere, RetiredIsClosed, TwinForEveryAsset
  <1>4. UpdatesApart /\ AssetsInStep
    BY <1>1 DEF UpdatesApart, AssetsInStep
  <1>5. QED
    BY <1>2, <1>3, <1>4 DEF AssetInv

\* A request that begins holds what it has loaded.
LEMMA LoadsKeeps ==
    ASSUME AssetInv, NEW w \in AssetWorkers, NEW kind \in AssetKinds, NEW c \in Codes, NEW r \in AssetRows, NEW field \in Fields,
           Loads(w, kind, c, r, field), kind # "create" => row[c].state # "none" /\ r = row[c]
    PROVE  AssetInv'
  <1> DEFINE E == [pc |-> "loaded", kind |-> kind, code |-> c, held |-> r, value |-> edits + 1, field |-> field]
  <1>1. /\ edit[w].pc = "idle" /\ edits < MaxEdits /\ edits' = edits + 1
        /\ edit' = [edit EXCEPT ![w] = E]
        /\ overlapped' = (overlapped \/ \E v \in AssetWorkers : kind = "update" /\ edit[v].kind = "update" /\ edit[v].code = c)
        /\ UNCHANGED <<row, thing, faults>>
    BY DEF Loads
  <1>2. edit \in [AssetWorkers -> AssetEdits] /\ edits \in FieldVersions
    BY AssetTyping DEF AssetInv
  <1>3. edits + 1 \in FieldVersions /\ E \in AssetEdits
    BY <1>1, <1>2, AssetAssumption DEF FieldVersions, AssetEdits
  <1>4. edit'[w] = E /\ \A v \in AssetWorkers \ {w} : edit'[v] = edit[v]
    BY <1>1, <1>2
  <1>5. E.pc = "loaded" /\ E.kind = kind /\ E.code = c /\ E.held = r
    OBVIOUS
  <1> HIDE DEF E
  <1>6. edit' \in [AssetWorkers -> AssetEdits]
    BY <1>1, <1>2, <1>3
  <1>7. AssetTypeOK'
    BY <1>1, <1>3, <1>6 DEF AssetInv, AssetTypeOK, AssetRows, AssetEdits, AssetKinds
  <1>8. IdleIsBlank' /\ OneWriter'
    BY <1>4, <1>5 DEF AssetInv, IdleIsBlank, OneWriter, Locks, AssetKinds
  <1>9. EditsOfRows' /\ SentIsThere'
    BY <1>1, <1>4, <1>5 DEF AssetInv, EditsOfRows, SentIsThere, AssetKinds
  <1>10. RetiredIsClosed' /\ TwinForEveryAsset'
    BY <1>1 DEF AssetInv, RetiredIsClosed, TwinForEveryAsset
  <1>11. ASSUME faults' = 0, ~overlapped' PROVE UpdatesApart' /\ AssetsInStep'
    <2>1. UpdatesApart /\ AssetsInStep /\ ~overlapped
      BY <1>1, <1>11 DEF AssetInv
    <2>2. kind = "update" => \A v \in AssetWorkers : ~(edit[v].kind = "update" /\ edit[v].code = c)
      BY <1>1, <1>11
    <2>3. UpdatesApart'
      BY <1>1, <1>4, <1>5, <2>1, <2>2 DEF UpdatesApart, HeldFields
    <2>4. edit[w].kind = "none"
      BY <1>1 DEF AssetInv, IdleIsBlank
    <2>5. \A v \in AssetWorkers, k \in Codes : Sending(v, k)' <=> Sending(v, k)
      BY <1>4, <1>5, <2>4 DEF Sending
    <2>6. AssetsInStep'
      BY <1>1, <1>4, <1>5, <2>1, <2>5 DEF AssetsInStep
    <2>7. QED
      BY <2>3, <2>6
  <1>12. QED
    BY <1>7, <1>8, <1>9, <1>10, <1>11 DEF AssetInv

LEMMA AssetRequestsKeep ==
    ASSUME AssetInv, NEW w \in AssetWorkers,
           CreateAsset(w) \/ CloneAsset(w) \/ ImportAsset(w) \/ UpdateAsset(w) \/ RetireAsset(w) \/ CreateComponent(w)
    PROVE  AssetInv'
  <1>1. row \in [Codes -> AssetRows] /\ edits \in FieldVersions /\ "name" \in Fields
    BY AssetTyping DEF AssetInv, Fields
  <1>2. ASSUME NEW c \in Codes, NEW parts, Created(w, c, parts), parts \subseteq FieldVersions \cup {edits + 1}
        PROVE  AssetInv'
    <2>1. Loads(w, "create", c, [NoRow EXCEPT !.parts = parts], "name")
      BY <1>2 DEF Created
    <2>2. edits < MaxEdits
      BY <2>1 DEF Loads
    <2>3. parts \subseteq FieldVersions
      BY <1>1, <1>2, <2>2, AssetAssumption DEF FieldVersions
    <2>4. [NoRow EXCEPT !.parts = parts] \in AssetRows
      BY <2>3, NoEditTyped DEF AssetRows
    <2>5. QED
      BY <1>1, <2>1, <2>4, LoadsKeeps DEF AssetKinds
  <1>3. CASE CreateAsset(w) \/ ImportAsset(w)
    BY <1>2, <1>3 DEF CreateAsset, ImportAsset
  <1>4. CASE CloneAsset(w)
    <2>1. PICK c \in Codes, source \in Codes : Created(w, c, row[source].parts)
      BY <1>4 DEF CloneAsset
    <2>2. row[source].parts \subseteq FieldVersions
      BY <1>1 DEF AssetRows
    <2>3. QED
      BY <1>2, <2>1, <2>2
  <1>5. CASE UpdateAsset(w) \/ RetireAsset(w) \/ CreateComponent(w)
    <2>1. PICK c \in Codes, kind \in {"update", "retire", "component"}, f \in Fields :
              row[c].state = "active" /\ Loads(w, kind, c, row[c], f)
      BY <1>1, <1>5 DEF UpdateAsset, RetireAsset, CreateComponent
    <2>2. row[c] \in AssetRows
      BY <1>1
    <2>3. QED
      BY <2>1, <2>2, LoadsKeeps DEF AssetKinds
  <1>6. QED
    BY <1>3, <1>4, <1>5

\* A transaction that ends without a commit leaves what was committed.
LEMMA AssetRollbackKeeps ==
    ASSUME AssetInv, NEW w \in AssetWorkers, RollbackEdit(w), edit[w].pc # "sent", UNCHANGED <<row, thing, edits, faults, overlapped>>
    PROVE  AssetInv'
  <1>1. edit' = [edit EXCEPT ![w] = NoEdit] /\ edit \in [AssetWorkers -> AssetEdits]
    BY AssetTyping DEF AssetInv, RollbackEdit
  <1>2. edit'[w] = NoEdit /\ \A v \in AssetWorkers \ {w} : edit'[v] = edit[v]
    BY <1>1
  <1>3. NoEdit.pc = "idle" /\ NoEdit.kind = "none" /\ edit' \in [AssetWorkers -> AssetEdits]
    BY <1>1, NoEditTyped DEF NoEdit
  <1>4. AssetTypeOK'
    BY <1>3 DEF AssetInv, AssetTypeOK, AssetRows, AssetEdits, AssetKinds
  <1>5. IdleIsBlank' /\ OneWriter' /\ EditsOfRows' /\ SentIsThere'
    BY <1>2, <1>3 DEF AssetInv, IdleIsBlank, OneWriter, Locks, EditsOfRows, SentIsThere
  <1>6. RetiredIsClosed' /\ TwinForEveryAsset'
    BY DEF AssetInv, RetiredIsClosed, TwinForEveryAsset
  <1>7. ASSUME UpdatesApart, AssetsInStep PROVE UpdatesApart' /\ AssetsInStep'
    <2>1. UpdatesApart'
      BY <1>2, <1>3, <1>7 DEF UpdatesApart, HeldFields
    <2>2. \A v \in AssetWorkers, k \in Codes : Sending(v, k)' <=> Sending(v, k)
      BY <1>2, <1>3 DEF Sending
    <2>3. AssetsInStep'
      BY <1>2, <1>3, <1>7, <2>2 DEF AssetsInStep
    <2>4. QED
      BY <2>1, <2>3
  <1>8. QED
    BY <1>4, <1>5, <1>6, <1>7 DEF AssetInv

LEMMA EditedTyped ==
    ASSUME NEW e \in AssetEdits, e.kind # "none"
    PROVE  /\ Edited(e) \in AssetRows
           /\ e.kind = "create" => Edited(e).state = "active"
           /\ e.kind = "update" => Edited(e).fields = [e.held.fields EXCEPT ![e.field] = e.value]
  <1>1. e.held \in AssetRows /\ e.value \in FieldVersions /\ e.field \in Fields
    BY DEF AssetEdits
  <1>2. CASE e.kind = "create"
    BY <1>1, <1>2 DEF Edited, AssetRows
  <1>3. CASE e.kind = "update"
    BY <1>1, <1>3 DEF Edited, AssetRows
  <1>4. CASE e.kind = "retire"
    BY <1>1, <1>4 DEF Edited, AssetRows
  <1>5. CASE e.kind = "component"
    BY <1>1, <1>5 DEF Edited, AssetRows
  <1>6. QED
    BY <1>2, <1>3, <1>4, <1>5 DEF AssetEdits, AssetKinds

\* The flush waits for whoever has written the row.
LEMMA AssetFlushKeeps == ASSUME AssetInv, NEW w \in AssetWorkers, FlushEdit(w) PROVE AssetInv'
  <1> DEFINE e == edit[w]
             F == [e EXCEPT !.pc = "flushed", !.held = Edited(e)]
  <1>1. /\ e.pc = "loaded" /\ UNCHANGED <<row, thing, edits, faults, overlapped>>
        /\ e.kind # "component" => \A v \in AssetWorkers : ~Locks(v, e.code)
        /\ IF e.kind = "create" /\ row[e.code].state = "active" THEN RollbackEdit(w) ELSE edit' = [edit EXCEPT ![w] = F]
    BY DEF FlushEdit
  <1>2. CASE RollbackEdit(w)
    BY <1>1, <1>2, AssetRollbackKeeps
  <1>3. CASE edit' = [edit EXCEPT ![w] = F] /\ ~(e.kind = "create" /\ row[e.code].state = "active")
    <2>1. edit \in [AssetWorkers -> AssetEdits] /\ e \in AssetEdits /\ e.kind # "none"
      BY <1>1, AssetTyping DEF AssetInv, IdleIsBlank
    <2>2. /\ Edited(e) \in AssetRows
          /\ e.kind = "create" => Edited(e).state = "active"
          /\ e.kind = "update" => Edited(e).fields = [e.held.fields EXCEPT ![e.field] = e.value]
      BY <2>1, EditedTyped
    <2>3. /\ F.pc = "flushed" /\ F.kind = e.kind /\ F.code = e.code /\ F.held = Edited(e) /\ F.value = e.value /\ F.field = e.field
          /\ F \in AssetEdits
      BY <2>1, <2>2 DEF AssetEdits
    <2>4. edit'[w] = F /\ (\A v \in AssetWorkers \ {w} : edit'[v] = edit[v]) /\ edit' \in [AssetWorkers -> AssetEdits]
      BY <1>3, <2>1, <2>3
    <2> HIDE DEF F
    <2>5. AssetTypeOK'
      BY <1>1, <2>4 DEF AssetInv, AssetTypeOK, AssetRows, AssetEdits, AssetKinds
    <2>6. IdleIsBlank'
      BY <2>1, <2>3, <2>4 DEF AssetInv, IdleIsBlank
    <2>7. OneWriter'
      <3>1. \A v \in AssetWorkers \ {w}, c \in Codes : Locks(v, c)' <=> Locks(v, c)
        BY <2>4 DEF Locks
      <3>2. \A c \in Codes : Locks(w, c)' => c = e.code /\ e.kind # "component"
        BY <2>3, <2>4 DEF Locks
      <3>3. QED
        BY <1>1, <3>1, <3>2 DEF AssetInv, OneWriter
    <2>8. EditsOfRows' /\ SentIsThere'
      BY <1>1, <1>3, <2>2, <2>3, <2>4 DEF AssetInv, EditsOfRows, SentIsThere
    <2>9. RetiredIsClosed' /\ TwinForEveryAsset'
      BY <1>1 DEF AssetInv, RetiredIsClosed, TwinForEveryAsset
    <2>10. ASSUME UpdatesApart, AssetsInStep PROVE UpdatesApart' /\ AssetsInStep'
      <3>1. \A v \in AssetWorkers : HeldFields(v)' <=> IF v = w THEN F.held.fields = [row[e.code].fields EXCEPT ![e.field] = e.value]
                                                       ELSE HeldFields(v)
        BY <1>1, <2>3, <2>4 DEF HeldFields
      <3>2. e.kind = "update" => e.held.fields = row[e.code].fields
        BY <1>1, <2>10 DEF UpdatesApart, HeldFields
      <3>3. UpdatesApart'
        BY <2>2, <2>3, <2>4, <2>10, <3>1, <3>2 DEF UpdatesApart
      <3>4. \A v \in AssetWorkers, k \in Codes : Sending(v, k)' <=> Sending(v, k)
        BY <1>1, <2>3, <2>4 DEF Sending
      <3>5. AssetsInStep'
        BY <1>1, <2>3, <2>4, <2>10, <3>4 DEF AssetsInStep
      <3>6. QED
        BY <3>3, <3>5
    <2>11. QED
      BY <1>1, <2>5, <2>6, <2>7, <2>8, <2>9, <2>10 DEF AssetInv
  <1>4. QED
    BY <1>1, <1>2, <1>3

LEMMA SyncedTyped ==
    ASSUME NEW e \in AssetEdits, e.kind # "none", NEW t \in AssetThings
    PROVE  /\ Synced(e, t) \in AssetThings
           /\ t.readonly => Synced(e, t).readonly
           /\ t.there => Synced(e, t).there
           /\ e.kind = "create" => Synced(e, t).there /\ Synced(e, t).parts = e.held.parts
           /\ e.kind # "create" => t.parts \subseteq Synced(e, t).parts
           /\ e.kind = "retire" => Synced(e, t).readonly
           /\ e.kind = "component" => e.value \in Synced(e, t).parts
           /\ Synced(e, t).fields = IF e.kind \in {"create", "update"} THEN e.held.fields ELSE t.fields
  <1>1. e.held \in AssetRows /\ e.value \in FieldVersions
    BY DEF AssetEdits
  <1>2. CASE e.kind = "create"
    BY <1>1, <1>2 DEF Synced, AssetThings, AssetRows
  <1>3. CASE e.kind = "update"
    BY <1>1, <1>3 DEF Synced, AssetThings, AssetRows
  <1>4. CASE e.kind = "retire"
    BY <1>1, <1>4 DEF Synced, AssetThings
  <1>5. CASE e.kind = "component"
    BY <1>1, <1>5 DEF Synced, AssetThings
  <1>6. QED
    BY <1>2, <1>3, <1>4, <1>5 DEF AssetEdits, AssetKinds

\* What the twin store takes from one transaction takes nothing from another.
LEMMA StoreKeeps ==
    ASSUME AssetInv, NEW w \in AssetWorkers, edit[w].pc = "flushed", Writable(thing[edit[w].code]), UNCHANGED row,
           thing' = [thing EXCEPT ![edit[w].code] = Synced(edit[w], thing[edit[w].code])]
    PROVE  /\ thing' \in [Codes -> AssetThings] /\ RetiredIsClosed' /\ TwinForEveryAsset'
           /\ \A v \in AssetWorkers \ {w} :
                LET f == edit[v] t == thing'[f.code] IN
                f.pc = "sent" =>
                    /\ f.kind = "create"    => t.there /\ t.parts = f.held.parts /\ t.fields = f.held.fields
                    /\ f.kind = "retire"    => t.readonly
                    /\ f.kind = "component" => f.value \in t.parts
  <1> DEFINE e == edit[w]
             c == e.code
             t0 == thing[c]
             t1 == Synced(e, t0)
  <1>1. /\ edit \in [AssetWorkers -> AssetEdits] /\ thing \in [Codes -> AssetThings] /\ row \in [Codes -> AssetRows]
        /\ e \in AssetEdits /\ e.kind # "none" /\ c \in Codes /\ t0 \in AssetThings
    BY AssetTyping DEF AssetInv, IdleIsBlank, AssetEdits
  <1>2. /\ t1 \in AssetThings
        /\ t0.readonly => t1.readonly
        /\ t0.there => t1.there
        /\ e.kind # "create" => t0.parts \subseteq t1.parts
    BY <1>1, SyncedTyped
  <1>3. thing'[c] = t1 /\ \A d \in Codes \ {c} : thing'[d] = thing[d]
    BY <1>1
  <1>4. thing' \in [Codes -> AssetThings]
    BY <1>1, <1>2
  <1>5. ~t0.readonly
    BY DEF Writable
  <1>6. e.kind = "create" => row[c].state = "none"
    BY <1>1, <1>5 DEF AssetInv, EditsOfRows, RetiredIsClosed, AssetRows
  <1>7. e.kind # "create" => row[c].state # "none"
    BY DEF AssetInv, EditsOfRows
  <1> HIDE DEF t1
  <1>8. RetiredIsClosed'
    BY <1>2, <1>3 DEF AssetInv, RetiredIsClosed
  <1>9. TwinForEveryAsset'
    <2>1. ASSUME NEW d \in Codes, row[d].state # "none" PROVE thing'[d].there /\ row[d].parts \subseteq thing'[d].parts
      <3>1. thing[d].there /\ row[d].parts \subseteq thing[d].parts
        BY <2>1 DEF AssetInv, TwinForEveryAsset
      <3>2. CASE d = c
        BY <2>1, <3>1, <3>2, <1>2, <1>3, <1>6
      <3>3. CASE d # c
        BY <3>1, <3>3, <1>3
      <3>4. QED
        BY <3>2, <3>3
    <2>2. QED
      BY <2>1 DEF TwinForEveryAsset
  <1>10. ASSUME NEW v \in AssetWorkers \ {w}, edit[v].pc = "sent"
         PROVE  LET f == edit[v] t == thing'[f.code] IN
                /\ f.kind = "create"    => t.there /\ t.parts = f.held.parts /\ t.fields = f.held.fields
                /\ f.kind = "retire"    => t.readonly
                /\ f.kind = "component" => f.value \in t.parts
    <2>1. edit[v].code \in Codes
      BY <1>1 DEF AssetEdits
    <2>2. LET f == edit[v] t == thing[f.code] IN
          /\ f.kind = "create"    => t.there /\ t.parts = f.held.parts /\ t.fields = f.held.fields
          /\ f.kind = "retire"    => t.readonly
          /\ f.kind = "component" => f.value \in t.parts
      BY <1>10 DEF AssetInv, SentIsThere
    <2>3. CASE edit[v].code # c
      BY <2>1, <2>2, <2>3, <1>3
    <2>4. CASE edit[v].code = c
      <3>1. edit[v].kind = "create" => row[c].state = "none"
        BY <1>10, <2>4 DEF AssetInv, EditsOfRows
      <3>2. edit[v].kind # "create" => row[c].state # "none"
        BY <1>10, <2>4 DEF AssetInv, EditsOfRows
      <3>3. edit[v].kind = "create" => e.kind # "create"
        <4>1. edit[v].kind = "create" => Locks(v, c)
          BY <1>10, <2>4 DEF Locks
        <4>2. e.kind = "create" => Locks(w, c)
          BY DEF Locks
        <4>3. QED
          BY <1>1, <4>1, <4>2 DEF AssetInv, OneWriter
      <3>4. edit[v].kind # "create" /\ e.kind # "create"
        BY <3>1, <3>2, <3>3, <1>6, <1>7
      <3>5. QED
        BY <3>4, <2>2, <2>4, <1>2, <1>3
    <2>5. QED
      BY <2>3, <2>4
  <1>11. QED
    BY <1>4, <1>8, <1>9, <1>10

\* The transaction ends without a commit after a fault.
LEMMA FaultKeeps ==
    ASSUME AssetInv, NEW w \in AssetWorkers, RollbackEdit(w), faults < MaxFaults, faults' = faults + 1, UNCHANGED <<row, edits, overlapped>>,
           \/ UNCHANGED thing
           \/ /\ edit[w].pc = "flushed" /\ Writable(thing[edit[w].code])
              /\ thing' = [thing EXCEPT ![edit[w].code] = Synced(edit[w], thing[edit[w].code])]
    PROVE  AssetInv'
  <1>1. edit' = [edit EXCEPT ![w] = NoEdit] /\ edit \in [AssetWorkers -> AssetEdits]
    BY AssetTyping DEF AssetInv, RollbackEdit
  <1>2. edit'[w] = NoEdit /\ \A v \in AssetWorkers \ {w} : edit'[v] = edit[v]
    BY <1>1
  <1>3. NoEdit.pc = "idle" /\ NoEdit.kind = "none" /\ edit' \in [AssetWorkers -> AssetEdits]
    BY <1>1, NoEditTyped DEF NoEdit
  <1>4. /\ thing' \in [Codes -> AssetThings] /\ RetiredIsClosed' /\ TwinForEveryAsset'
        /\ \A v \in AssetWorkers \ {w} :
             LET f == edit[v] t == thing'[f.code] IN
             f.pc = "sent" =>
                 /\ f.kind = "create"    => t.there /\ t.parts = f.held.parts /\ t.fields = f.held.fields
                 /\ f.kind = "retire"    => t.readonly
                 /\ f.kind = "component" => f.value \in t.parts
    <2>1. CASE UNCHANGED thing
      BY <2>1, AssetTyping DEF AssetInv, SentIsThere, RetiredIsClosed, TwinForEveryAsset
    <2>2. QED
      BY <2>1, StoreKeeps
  <1>5. faults' \in 0..MaxFaults /\ faults' # 0
    BY AssetAssumption, AssetTyping DEF AssetInv
  <1>6. AssetTypeOK'
    BY <1>3, <1>4, <1>5 DEF AssetInv, AssetTypeOK, AssetRows, AssetEdits, AssetKinds, AssetThings
  <1>7. IdleIsBlank' /\ OneWriter' /\ EditsOfRows'
    BY <1>2, <1>3 DEF AssetInv, IdleIsBlank, OneWriter, Locks, EditsOfRows
  <1>8. SentIsThere'
    BY <1>2, <1>3, <1>4 DEF SentIsThere
  <1>9. QED
    BY <1>4, <1>5, <1>6, <1>7, <1>8 DEF AssetInv

LEMMA SendKeeps == ASSUME AssetInv, NEW w \in AssetWorkers, SendThing(w) PROVE AssetInv'
  <1> DEFINE e == edit[w]
             c == e.code
             t0 == thing[c]
  <1>1. e.pc = "flushed" /\ UNCHANGED <<row, edits, overlapped>>
    BY DEF SendThing
  <1>2. CASE ~Writable(t0) /\ RollbackEdit(w) /\ UNCHANGED <<thing, faults>>
    BY <1>1, <1>2, AssetRollbackKeeps
  <1>3. CASE /\ faults < MaxFaults /\ faults' = faults + 1 /\ RollbackEdit(w)
             /\ thing' \in {thing} \cup (IF Writable(t0) THEN {[thing EXCEPT ![c] = Synced(e, t0)]} ELSE {})
    BY <1>1, <1>3, FaultKeeps
  <1>4. CASE /\ Writable(t0) /\ thing' = [thing EXCEPT ![c] = Synced(e, t0)]
             /\ edit' = [edit EXCEPT ![w].pc = "sent"] /\ UNCHANGED faults
    <2> DEFINE F == [e EXCEPT !.pc = "sent"]
               t1 == Synced(e, t0)
    <2>1. /\ edit \in [AssetWorkers -> AssetEdits] /\ thing \in [Codes -> AssetThings] /\ row \in [Codes -> AssetRows]
          /\ e \in AssetEdits /\ e.kind # "none" /\ c \in Codes /\ t0 \in AssetThings
      BY <1>1, AssetTyping DEF AssetInv, IdleIsBlank, AssetEdits
    <2>2. /\ e.kind = "create" => t1.there /\ t1.parts = e.held.parts
          /\ e.kind = "retire" => t1.readonly
          /\ e.kind = "component" => e.value \in t1.parts
          /\ t1.fields = IF e.kind \in {"create", "update"} THEN e.held.fields ELSE t0.fields
      BY <2>1, SyncedTyped
    <2>3. thing'[c] = t1 /\ \A d \in Codes \ {c} : thing'[d] = thing[d]
      BY <1>4, <2>1
    <2>4. /\ F.pc = "sent" /\ F.kind = e.kind /\ F.code = c /\ F.held = e.held /\ F.value = e.value /\ F.field = e.field
          /\ F \in AssetEdits
      BY <2>1 DEF AssetEdits
    <2>5. edit'[w] = F /\ (\A v \in AssetWorkers \ {w} : edit'[v] = edit[v]) /\ edit' \in [AssetWorkers -> AssetEdits]
      BY <1>4, <2>1, <2>4
    <2>6. /\ thing' \in [Codes -> AssetThings] /\ RetiredIsClosed' /\ TwinForEveryAsset'
          /\ \A v \in AssetWorkers \ {w} :
               LET f == edit[v] t == thing'[f.code] IN
               f.pc = "sent" =>
                   /\ f.kind = "create"    => t.there /\ t.parts = f.held.parts /\ t.fields = f.held.fields
                   /\ f.kind = "retire"    => t.readonly
                   /\ f.kind = "component" => f.value \in t.parts
      BY <1>1, <1>4, StoreKeeps
    <2>7. e.kind = "create" => row[c].state = "none"
      BY <1>1, <1>4, <2>1 DEF AssetInv, EditsOfRows, RetiredIsClosed, AssetRows, Writable
    <2> HIDE DEF F, t1
    <2>8. AssetTypeOK'
      <3>1. /\ row' \in [Codes -> AssetRows] /\ edits' \in FieldVersions /\ faults' \in 0..MaxFaults
            /\ overlapped' \in BOOLEAN
        BY <1>1, <1>4, AssetTyping DEF AssetInv
      <3>2. QED
        BY <3>1, <2>5, <2>6 DEF AssetTypeOK, AssetRows, AssetEdits, AssetKinds, AssetThings
    <2>9. IdleIsBlank'
      BY <2>1, <2>4, <2>5 DEF AssetInv, IdleIsBlank
    <2>10. OneWriter'
      <3>1. \A v \in AssetWorkers, d \in Codes : Locks(v, d)' <=> Locks(v, d)
        BY <1>1, <2>4, <2>5 DEF Locks
      <3>2. QED
        BY <3>1 DEF AssetInv, OneWriter
    <2>11. EditsOfRows'
      BY <1>1, <2>4, <2>5, <2>7 DEF AssetInv, EditsOfRows
    <2>12. SentIsThere'
      BY <2>2, <2>3, <2>4, <2>5, <2>6 DEF SentIsThere
    <2>13. ASSUME UpdatesApart, AssetsInStep PROVE UpdatesApart' /\ AssetsInStep'
      <3>1. \A v \in AssetWorkers : HeldFields(v)' <=> HeldFields(v)
        BY <1>1, <2>4, <2>5 DEF HeldFields
      <3>2. UpdatesApart'
        BY <2>4, <2>5, <2>13, <3>1 DEF UpdatesApart
      <3>3. ASSUME NEW d \in Codes, row[d].state = "active", \A v \in AssetWorkers : ~Sending(v, d)'
            PROVE  thing'[d].fields = row[d].fields
        <4>1. \A v \in AssetWorkers : ~Sending(v, d)
          BY <1>1, <2>5, <3>3 DEF Sending
        <4>2. thing[d].fields = row[d].fields
          BY <4>1, <3>3, <2>13 DEF AssetsInStep
        <4>3. d = c => e.kind \notin {"create", "update"}
          BY <2>4, <2>5, <2>7, <3>3 DEF Sending
        <4>4. QED
          BY <4>2, <4>3, <2>2, <2>3
      <3>4. ASSUME NEW v \in AssetWorkers, edit'[v].kind = "update", edit'[v].pc = "sent"
            PROVE  thing'[edit'[v].code].fields = edit'[v].held.fields
        <4>1. CASE v = w
          BY <4>1, <3>4, <2>2, <2>3, <2>4, <2>5
        <4>2. CASE v # w
          <5>1. edit'[v] = edit[v] /\ thing[edit[v].code].fields = edit[v].held.fields /\ edit[v].code \in Codes
            BY <4>2, <3>4, <2>1, <2>5, <2>13 DEF AssetsInStep, AssetEdits
          <5>2. edit[v].code = c => e.kind \notin {"create", "update"}
            BY <4>2, <5>1, <3>4, <2>7, <2>13 DEF AssetInv, EditsOfRows, UpdatesApart
          <5>3. QED
            BY <5>1, <5>2, <2>2, <2>3
        <4>3. QED
          BY <4>1, <4>2
      <3>5. AssetsInStep'
        BY <1>1, <3>3, <3>4 DEF AssetsInStep
      <3>6. QED
        BY <3>2, <3>5
    <2>14. QED
      BY <1>1, <1>4, <2>6, <2>8, <2>9, <2>10, <2>11, <2>12, <2>13 DEF AssetInv
  <1>5. QED
    BY <1>2, <1>3, <1>4 DEF SendThing

\* What a commit writes to the row, and what it leaves.
LEMMA CommittedTyped ==
    ASSUME NEW e \in AssetEdits, e.kind # "none", NEW r \in AssetRows
    PROVE  /\ Committed(e, r) \in AssetRows
           /\ e.kind = "create" => Committed(e, r) = e.held
           /\ e.kind # "create" => Committed(e, r).state = IF e.kind = "retire" THEN "retired" ELSE r.state
           /\ e.kind # "create" => Committed(e, r).parts = IF e.kind = "component" THEN r.parts \cup {e.value} ELSE r.parts
           /\ e.kind # "create" => Committed(e, r).fields = IF e.kind = "update" THEN [r.fields EXCEPT ![e.field] = e.value]
                                                            ELSE r.fields
  <1>1. e.held \in AssetRows /\ e.value \in FieldVersions /\ e.field \in Fields
    BY DEF AssetEdits
  <1>2. CASE e.kind = "create"
    BY <1>1, <1>2 DEF Committed
  <1>3. CASE e.kind = "update"
    BY <1>1, <1>3 DEF Committed, AssetRows
  <1>4. CASE e.kind = "retire"
    BY <1>1, <1>4 DEF Committed, AssetRows
  <1>5. CASE e.kind = "component"
    BY <1>1, <1>5 DEF Committed, AssetRows
  <1>6. QED
    BY <1>2, <1>3, <1>4, <1>5 DEF AssetEdits, AssetKinds

\* The commit makes the registry say what the twin store was sent.
LEMMA AssetCommitKeeps == ASSUME AssetInv, NEW w \in AssetWorkers, CommitEdit(w) PROVE AssetInv'
  <1> DEFINE e == edit[w]
             c == e.code
             r1 == Committed(e, row[c])
  <1>1. e.pc = "sent" /\ RollbackEdit(w) /\ UNCHANGED <<thing, edits, overlapped>>
    BY DEF CommitEdit
  <1>2. CASE faults < MaxFaults /\ faults' = faults + 1 /\ UNCHANGED row
    BY <1>1, <1>2, FaultKeeps
  <1>3. CASE row' = [row EXCEPT ![c] = Committed(e, @)] /\ UNCHANGED faults
    <2>1. /\ edit \in [AssetWorkers -> AssetEdits] /\ thing \in [Codes -> AssetThings] /\ row \in [Codes -> AssetRows]
          /\ e \in AssetEdits /\ e.kind # "none" /\ c \in Codes /\ row[c] \in AssetRows
      BY <1>1, AssetTyping DEF AssetInv, IdleIsBlank, AssetEdits
    <2>2. /\ r1 \in AssetRows
          /\ e.kind = "create" => r1 = e.held
          /\ e.kind # "create" => r1.state = IF e.kind = "retire" THEN "retired" ELSE row[c].state
          /\ e.kind # "create" => r1.parts = IF e.kind = "component" THEN row[c].parts \cup {e.value} ELSE row[c].parts
          /\ e.kind # "create" => r1.fields = IF e.kind = "update" THEN [row[c].fields EXCEPT ![e.field] = e.value]
                                              ELSE row[c].fields
      BY <2>1, CommittedTyped
    <2> HIDE DEF r1
    <2>3. row'[c] = r1 /\ (\A d \in Codes \ {c} : row'[d] = row[d]) /\ row' \in [Codes -> AssetRows]
      BY <1>3, <2>1, <2>2 DEF r1
    <2>4. /\ edit'[w] = NoEdit /\ (\A v \in AssetWorkers \ {w} : edit'[v] = edit[v])
          /\ edit' \in [AssetWorkers -> AssetEdits] /\ NoEdit.pc = "idle" /\ NoEdit.kind = "none"
      BY <1>1, <2>1, NoEditTyped DEF RollbackEdit, NoEdit
    <2>5. AssetTypeOK'
      <3>1. /\ thing' \in [Codes -> AssetThings] /\ edits' \in FieldVersions /\ faults' \in 0..MaxFaults
            /\ overlapped' \in BOOLEAN
        BY <1>1, <1>3, AssetTyping DEF AssetInv
      <3>2. QED
        BY <3>1, <2>3, <2>4 DEF AssetTypeOK, AssetRows, AssetEdits, AssetKinds, AssetThings
    <2>6. IdleIsBlank' /\ OneWriter'
      BY <2>4 DEF AssetInv, IdleIsBlank, OneWriter, Locks
    <2>7. /\ e.kind = "create" => row[c].state = "none" /\ e.held.state = "active"
          /\ e.kind # "create" => row[c].state # "none"
      BY <1>1 DEF AssetInv, EditsOfRows
    <2>8. row'[c].state # "none" /\ (row'[c].state = "active" => row[c].state \in {"none", "active"})
      BY <2>2, <2>3, <2>7
    <2>9. EditsOfRows'
      <3>1. ASSUME NEW v \in AssetWorkers \ {w}, edit[v].kind = "create", edit[v].pc \in {"flushed", "sent"},
                   edit[v].code = c
            PROVE  e.kind = "component"
        <4>1. Locks(v, c)
          BY <3>1 DEF Locks
        <4>2. e.kind # "component" => Locks(w, c)
          BY <1>1 DEF Locks
        <4>3. QED
          BY <2>1, <4>1, <4>2 DEF AssetInv, OneWriter
      <3>2. ASSUME NEW v \in AssetWorkers
            PROVE  LET f == edit'[v] IN
                   /\ f.pc # "idle" /\ f.kind # "create" => f.kind # "none" /\ row'[f.code].state # "none"
                   /\ f.pc = "flushed" /\ f.kind = "create" => row'[f.code].state # "active"
                   /\ f.pc = "sent" /\ f.kind = "create" => row'[f.code].state = "none"
                   /\ f.pc \in {"flushed", "sent"} /\ f.kind = "create" => f.held.state = "active"
        <4>1. CASE v = w
          BY <4>1, <2>4
        <4>2. CASE v # w
          <5>1. edit'[v] = edit[v] /\ edit[v].code \in Codes
            BY <4>2, <2>1, <2>4 DEF AssetEdits
          <5>2. LET f == edit[v] IN
                /\ f.pc # "idle" /\ f.kind # "create" => f.kind # "none" /\ row[f.code].state # "none"
                /\ f.pc = "flushed" /\ f.kind = "create" => row[f.code].state # "active"
                /\ f.pc = "sent" /\ f.kind = "create" => row[f.code].state = "none"
                /\ f.pc \in {"flushed", "sent"} /\ f.kind = "create" => f.held.state = "active"
            BY DEF AssetInv, EditsOfRows
          <5>3. CASE edit[v].code # c
            BY <5>1, <5>2, <5>3, <2>3
          <5>4. CASE edit[v].code = c
            BY <4>2, <5>1, <5>2, <5>4, <3>1, <2>2, <2>3, <2>7, <2>8
          <5>5. QED
            BY <5>3, <5>4
        <4>3. QED
          BY <4>1, <4>2
      <3>3. QED
        BY <3>2 DEF EditsOfRows
    <2>10. SentIsThere'
      BY <1>1, <2>4 DEF AssetInv, SentIsThere
    <2>11. LET t == thing[c] IN
           /\ e.kind = "create"    => t.there /\ t.parts = e.held.parts /\ t.fields = e.held.fields
           /\ e.kind = "retire"    => t.readonly
           /\ e.kind = "component" => e.value \in t.parts
      BY <1>1 DEF AssetInv, SentIsThere
    <2>12. RetiredIsClosed'
      <3>1. row'[c].state = "retired" => thing[c].readonly
        BY <2>1, <2>2, <2>3, <2>7, <2>11 DEF AssetInv, RetiredIsClosed
      <3>2. QED
        BY <1>1, <2>3, <3>1 DEF AssetInv, RetiredIsClosed
    <2>13. TwinForEveryAsset'
      <3>1. row[c].state # "none" => thing[c].there /\ row[c].parts \subseteq thing[c].parts
        BY <2>1 DEF AssetInv, TwinForEveryAsset
      <3>2. thing[c].there /\ r1.parts \subseteq thing[c].parts
        BY <3>1, <2>2, <2>7, <2>11
      <3>3. QED
        BY <1>1, <2>3, <3>2 DEF AssetInv, TwinForEveryAsset
    <2>14. ASSUME UpdatesApart, AssetsInStep PROVE UpdatesApart' /\ AssetsInStep'
      <3>1. ASSUME NEW v \in AssetWorkers, edit'[v].kind = "update"
            PROVE  /\ v # w /\ edit'[v] = edit[v] /\ edit[v].code \in Codes
                   /\ row'[edit[v].code].fields = row[edit[v].code].fields
        <4>1. v # w /\ edit'[v] = edit[v] /\ edit[v].code \in Codes
          BY <3>1, <2>1, <2>4 DEF AssetEdits
        <4>2. edit[v].code = c => e.kind # "update"
          BY <4>1, <3>1, <2>14 DEF UpdatesApart
        <4>3. row[edit[v].code].state # "none"
          BY <4>1, <3>1 DEF AssetInv, IdleIsBlank, EditsOfRows
        <4>4. edit[v].code = c => e.kind # "create"
          BY <4>3, <2>7
        <4>5. QED
          BY <4>1, <4>2, <4>4, <2>2, <2>3
      <3>2. ASSUME NEW v \in AssetWorkers, edit'[v].kind = "update" PROVE HeldFields(v)'
        <4>1. edit'[v] = edit[v] /\ row'[edit[v].code].fields = row[edit[v].code].fields
          BY <3>1, <3>2
        <4>2. HeldFields(v)
          BY <4>1, <3>2, <2>14 DEF UpdatesApart
        <4>3. HeldFields(v)' <=> HeldFields(v)
          BY <4>1 DEF HeldFields
        <4>4. QED
          BY <4>2, <4>3
      <3>3. UpdatesApart'
        BY <3>1, <3>2, <2>14 DEF UpdatesApart
      <3>4. ASSUME NEW d \in Codes, row'[d].state = "active", \A v \in AssetWorkers : ~Sending(v, d)'
            PROVE  thing'[d].fields = row'[d].fields
        <4>1. \A v \in AssetWorkers \ {w} : ~Sending(v, d)
          BY <2>4, <3>4 DEF Sending
        <4>2. CASE d # c
          <5>1. \A v \in AssetWorkers : ~Sending(v, d)
            BY <4>1, <4>2 DEF Sending
          <5>2. QED
            BY <5>1, <4>2, <3>4, <2>3, <1>1, <2>14 DEF AssetsInStep
        <4>3. CASE d = c /\ e.kind = "create"
          BY <4>3, <1>1, <2>2, <2>3, <2>11
        <4>4. CASE d = c /\ e.kind = "update"
          <5>1. thing[c].fields = e.held.fields /\ e.held.fields = [row[c].fields EXCEPT ![e.field] = e.value]
            BY <4>4, <1>1, <2>14 DEF AssetsInStep, UpdatesApart, HeldFields
          <5>2. QED
            BY <5>1, <4>4, <1>1, <2>2, <2>3
        <4>5. CASE d = c /\ e.kind \notin {"create", "update"}
          <5>1. \A v \in AssetWorkers : ~Sending(v, d)
            BY <4>1, <4>5 DEF Sending
          <5>2. row[d].state = "active"
            BY <4>5, <3>4, <2>2, <2>3, <2>7
          <5>3. QED
            BY <5>1, <5>2, <4>5, <1>1, <2>2, <2>3, <2>14 DEF AssetsInStep
        <4>6. QED
          BY <4>2, <4>3, <4>4, <4>5
      <3>5. \A v \in AssetWorkers : edit'[v].kind = "update" /\ edit'[v].pc = "sent" => thing'[edit'[v].code].fields = edit'[v].held.fields
        BY <3>1, <1>1, <2>14 DEF AssetsInStep
      <3>6. AssetsInStep'
        BY <3>4, <3>5 DEF AssetsInStep
      <3>7. QED
        BY <3>3, <3>6
    <2>15. QED
      BY <1>1, <1>3, <2>5, <2>6, <2>9, <2>10, <2>12, <2>13, <2>14 DEF AssetInv
  <1>4. QED
    BY <1>1, <1>2, <1>3 DEF CommitEdit

LEMMA AssetNextKeeps == AssetInv /\ [AssetNext]_assetVars => AssetInv'
  <1> SUFFICES ASSUME AssetInv, [AssetNext]_assetVars PROVE AssetInv'
    OBVIOUS
  <1>1. CASE UNCHANGED assetVars
    BY <1>1 DEF assetVars, AssetInv, AssetTypeOK, IdleIsBlank, OneWriter, Locks, EditsOfRows, SentIsThere, RetiredIsClosed,
                TwinForEveryAsset, UpdatesApart, HeldFields, AssetsInStep, Sending
  <1>2. CASE AssetNext
    <2>1. PICK w \in AssetWorkers :
             \/ CreateAsset(w) \/ CloneAsset(w) \/ ImportAsset(w) \/ UpdateAsset(w) \/ RetireAsset(w) \/ CreateComponent(w)
             \/ FlushEdit(w) \/ SendThing(w) \/ CommitEdit(w)
      BY <1>2 DEF AssetNext
    <2>2. QED
      BY <2>1, AssetRequestsKeep, AssetFlushKeeps, SendKeeps, AssetCommitKeeps
  <1>3. QED
    BY <1>1, <1>2

\* Every step of the requests about assets, failures included, keeps what the
\* rows, the things and the pending requests say of one another.
THEOREM AssetInvariant == AssetSpec => []AssetInv
  BY AssetInitHolds, AssetNextKeeps, PTL DEF AssetSpec

\* Every variable keeps its type: rows and things hold what requests have
\* written, and a request under way is one that the service has begun.
THEOREM AssetTypeCorrect == AssetSpec => []AssetTypeOK
  <1>1. AssetInv => AssetTypeOK
    BY DEF AssetInv
  <1>2. QED
    BY <1>1, AssetInvariant, PTL

\* The twin store has a thing for every asset of the registry and every
\* component of it, and shows the registry's fields once the requests are over,
\* but for one that failed and updates that overlapped: the thing is written
\* before the commit, and what a transaction sends is what it commits.
THEOREM TwinsAgree == AssetSpec => []TwinsSound
  <1>1. AssetInv => TwinsSound
    <2> SUFFICES ASSUME AssetInv PROVE TwinsSound
      OBVIOUS
    <2>1. (\A w \in AssetWorkers : edit[w].pc = "idle") => \A c \in Codes, w \in AssetWorkers : ~Sending(w, c)
      BY DEF Sending
    <2>2. TwinInStep
      BY <2>1 DEF AssetInv, AssetsInStep, TwinInStep
    <2>3. QED
      BY <2>2 DEF AssetInv, TwinsSound
  <1>2. QED
    BY <1>1, AssetInvariant, PTL

\* The thing of a retired asset never changes again: the read-only policy came
\* with the retirement, before its commit, and refuses what any request, one
\* begun before included, still sends.
THEOREM RetiredStays == AssetSpec => RetiredIsReadOnly
  <1>1. AssetInv /\ [AssetNext]_assetVars
          => [\A c \in Codes : row[c].state = "retired" => thing'[c] = thing[c] /\ thing[c].readonly]_<<row, thing>>
    <2> SUFFICES ASSUME AssetInv, AssetNext, NEW c \in Codes, row[c].state = "retired"
                 PROVE  thing'[c] = thing[c] /\ thing[c].readonly
      BY DEF assetVars
    <2>1. thing[c].readonly /\ thing \in [Codes -> AssetThings]
      BY AssetTyping DEF AssetInv, RetiredIsClosed
    <2>2. ASSUME NEW w \in AssetWorkers, SendThing(w) PROVE thing'[c] = thing[c]
      <3>1. CASE edit[w].code = c
        BY <2>1, <2>2, <3>1 DEF SendThing, Writable
      <3>2. CASE edit[w].code # c
        BY <2>1, <2>2, <3>2 DEF SendThing
      <3>3. QED
        BY <3>1, <3>2
    <2>3. ASSUME NEW w \in AssetWorkers,
                 \/ CreateAsset(w) \/ CloneAsset(w) \/ ImportAsset(w) \/ UpdateAsset(w) \/ RetireAsset(w)
                 \/ CreateComponent(w) \/ FlushEdit(w) \/ CommitEdit(w)
          PROVE  UNCHANGED thing
      BY <2>3 DEF CreateAsset, CloneAsset, ImportAsset, UpdateAsset, RetireAsset, CreateComponent, Created, Loads,
                  FlushEdit, CommitEdit
    <2>4. QED
      BY <2>1, <2>2, <2>3 DEF AssetNext
  <1>2. QED
    BY <1>1, AssetInvariant, PTL DEF AssetSpec, RetiredIsReadOnly

-----------------------------------------------------------------------------
(* Maintenance plans: one active plan, whose conflicts the sweep finds.     *)

\* A transaction that has flushed its plan has deactivated every other and is
\* the only one to have flushed.
FlushedLast ==
    \A p \in Planners : planner[p].pc = "flushed" =>
        /\ planner[p].plan \in 1..MaxPlans /\ active \subseteq planner[p].seen
        /\ \A q \in Planners : planner[q].pc = "flushed" => q = p

PlansNumbered == \A p \in Planners : planner[p].pc # "idle" => planner[p].plan \in 1..MaxPlans

\* One plan is active, and there are items only of one.
ActiveApart ==
    /\ \A a, b \in active : a = b
    /\ (\E o \in PlanOrders : items[o] # NoItem) => active # {}

\* What is planned lasts.
ItemsLast == \A o \in Planned : items[o].start < items[o].end

\* Until an item is moved the plan is one the solver's constraints allow.
AsSolved ==
    drags = 0 => \A o \in Planned :
        /\ \A k \in SlotsIn(items[o]) : Available(items[o].tech, k)
        /\ \A p \in Planned \ {o} : Apart(items, o, p)

PlanInv == PlanTypeOK /\ FlushedLast /\ PlansNumbered /\ ActiveApart /\ ItemsLast /\ AsSolved

LEMMA HorizonTyped ==
    /\ SlotLength \in Nat \ {0} /\ Slots \in Nat /\ HorizonEnd \in Nat
    /\ \A k \in Nat : SlotTime(k) \in Nat
    /\ \A k, l \in Nat : k < l => SlotTime(k) < SlotTime(l)
  <1>1. /\ SlotLength \in Nat \ {0} /\ Slots \in Nat /\ \A k \in Nat : SlotLength * k \in Nat
    BY PlanAssumption
  <1>2. ASSUME NEW k \in Nat, NEW l \in Nat, k < l PROVE SlotLength * k < SlotLength * l
    <2>1. SlotLength * k + SlotLength <= SlotLength * l
      BY <1>1, <1>2, Multiple
    <2>2. QED
      BY <1>1, <2>1
  <1>3. QED
    BY <1>1, <1>2 DEF HorizonEnd, SlotTime

LEMMA NoItemTyped ==
    NoItem \in ItemRows /\ NoItem.tech = "none"
  <1>1. HorizonEnd \in Nat
    BY HorizonTyped
  <1>2. QED
    BY <1>1 DEF NoItem, ItemRows

LEMMA PlanInitHolds == PlanInit => PlanInv
  <1> SUFFICES ASSUME PlanInit PROVE PlanInv
    OBVIOUS
  <1>1. /\ \A o \in PlanOrders : items[o] = NoItem
        /\ \A p \in Planners : planner[p].pc = "idle"
        /\ active = {}
    BY DEF PlanInit, NoPlan
  <1>2. Planned = {}
    BY <1>1 DEF Planned, NoItem
  <1>3. NoItem \in ItemRows
    BY NoItemTyped
  <1>4. NoPlan \in [pc : {"idle", "deactivate", "activate", "flushed"}, plan : 0..MaxPlans, seen : SUBSET (1..MaxPlans)]
    BY PlanAssumption DEF NoPlan
  <1>5. PlanTypeOK
    <2>1. items \in Items
      BY <1>3 DEF PlanInit, Items
    <2>2. planner \in [Planners -> [pc : {"idle", "deactivate", "activate", "flushed"},
                                    plan : 0..MaxPlans, seen : SUBSET (1..MaxPlans)]]
      BY <1>4 DEF PlanInit
    <2>3. drags \in 0..MaxDrags /\ active = {}
      BY PlanAssumption DEF PlanInit
    <2>4. plans \in 0..MaxPlans
      BY PlanAssumption DEF PlanInit
    <2>5. QED
      BY <2>1, <2>2, <2>3, <2>4 DEF PlanTypeOK
  <1>6. FlushedLast /\ PlansNumbered /\ ActiveApart /\ ItemsLast /\ AsSolved
    BY <1>1, <1>2 DEF FlushedLast, PlansNumbered, ActiveApart, ItemsLast, AsSolved
  <1>7. QED
    BY <1>5, <1>6 DEF PlanInv

\* A step of a transaction before its commit.
LEMMA TransactionKeeps ==
    ASSUME PlanInv, NEW p \in Planners, UNCHANGED <<active, items, drags>>, plans' \in 0..MaxPlans,
           NEW t \in [pc : {"idle", "deactivate", "activate", "flushed"}, plan : 0..MaxPlans, seen : SUBSET (1..MaxPlans)],
           planner' = [planner EXCEPT ![p] = t], t.pc # "idle" => t.plan \in 1..MaxPlans,
           t.pc = "flushed" => active \subseteq t.seen /\ \A q \in Planners \ {p} : planner[q].pc # "flushed"
    PROVE  PlanInv'
  <1>1. /\ \A q \in Planners : planner'[q] = IF q = p THEN t ELSE planner[q]
        /\ PlanTypeOK'
    BY DEF PlanInv, PlanTypeOK
  <1>2. FlushedLast' /\ PlansNumbered'
    BY <1>1 DEF PlanInv, FlushedLast, PlansNumbered
  <1>3. ActiveApart' /\ ItemsLast' /\ AsSolved'
    BY DEF PlanInv, ActiveApart, ItemsLast, AsSolved, Planned, Apart, Overlap, Available, Covers, SlotsIn
  <1>4. QED
    BY <1>1, <1>2, <1>3 DEF PlanInv

LEMMA TransactionsKeep ==
    ASSUME PlanInv, NEW p \in Planners, Optimise(p) \/ Deactivate(p) \/ Activate(p) \/ PlanFails(p) PROVE PlanInv'
  <1> DEFINE Transactions == [pc : {"idle", "deactivate", "activate", "flushed"}, plan : 0..MaxPlans, seen : SUBSET (1..MaxPlans)]
  <1>1. /\ planner \in [Planners -> Transactions] /\ planner[p] \in Transactions
        /\ NoPlan \in Transactions /\ NoPlan.pc = "idle" /\ plans \in 0..MaxPlans /\ active \subseteq 1..MaxPlans
    BY PlanAssumption DEF PlanInv, PlanTypeOK, NoPlan
  <1>2. UNCHANGED <<active, items, drags>>
    BY DEF Optimise, Deactivate, Activate, PlanFails
  <1>3. CASE Optimise(p)
    <2> DEFINE t == [pc |-> "deactivate", plan |-> plans', seen |-> active]
    <2>1. plans' \in 1..MaxPlans
      BY <1>1, <1>3, PlanAssumption DEF Optimise
    <2>2. t \in Transactions /\ planner' = [planner EXCEPT ![p] = t] /\ t.pc = "deactivate" /\ t.plan = plans'
      BY <1>1, <1>3, <2>1, PlanAssumption DEF Optimise
    <2> HIDE DEF t
    <2>3. QED
      BY <1>2, <2>1, <2>2, TransactionKeeps
  <1>4. CASE Deactivate(p)
    <2> DEFINE t == [planner[p] EXCEPT !.pc = "activate", !.seen = @ \cap active]
    <2>1. t \in Transactions /\ t.pc = "activate" /\ t.plan = planner[p].plan
      BY <1>1
    <2>2. planner' = [planner EXCEPT ![p] = t] /\ planner[p].pc # "idle" /\ plans' = plans
      BY <1>1, <1>4 DEF Deactivate
    <2>3. t.plan \in 1..MaxPlans
      BY <2>1, <2>2 DEF PlanInv, PlansNumbered
    <2> HIDE DEF t
    <2>4. QED
      BY <1>1, <1>2, <2>1, <2>2, <2>3, TransactionKeeps
  <1>5. CASE Activate(p)
    <2> DEFINE t == IF active \subseteq planner[p].seen THEN [planner[p] EXCEPT !.pc = "flushed"] ELSE NoPlan
    <2>1. /\ t \in Transactions
          /\ t.pc # "idle" => t.plan = planner[p].plan /\ active \subseteq t.seen
      BY <1>1
    <2>2. /\ planner' = [planner EXCEPT ![p] = t] /\ planner[p].pc # "idle" /\ plans' = plans
          /\ \A q \in Planners \ {p} : planner[q].pc # "flushed"
      BY <1>1, <1>5 DEF Activate
    <2>3. t.pc # "idle" => t.plan \in 1..MaxPlans
      BY <2>1, <2>2 DEF PlanInv, PlansNumbered
    <2> HIDE DEF t
    <2>4. QED
      BY <1>1, <1>2, <2>1, <2>2, <2>3, TransactionKeeps
  <1>6. CASE PlanFails(p)
    BY <1>1, <1>2, <1>6, TransactionKeeps DEF PlanFails
  <1>7. QED
    BY <1>3, <1>4, <1>5, <1>6

LEMMA PlanCommitKeeps == ASSUME PlanInv, NEW p \in Planners, CommitPlan(p) PROVE PlanInv'
  <1>1. /\ planner[p].pc = "flushed" /\ active' = (active \ planner[p].seen) \cup {planner[p].plan}
        /\ items' \in Solutions /\ drags' = 0 /\ planner' = [planner EXCEPT ![p] = NoPlan] /\ plans' = plans
    BY DEF CommitPlan
  <1>2. active' = {planner[p].plan} /\ planner[p].plan \in 1..MaxPlans
    BY <1>1 DEF PlanInv, FlushedLast
  <1>3. /\ \A q \in Planners : planner'[q] = IF q = p THEN NoPlan ELSE planner[q]
        /\ planner' \in [Planners -> [pc : {"idle", "deactivate", "activate", "flushed"}, plan : 0..MaxPlans, seen : SUBSET (1..MaxPlans)]]
    BY <1>1, PlanAssumption DEF PlanInv, PlanTypeOK, NoPlan
  <1>4. PICK starts \in [PlanOrders -> 0..(Slots - 1)], techs \in [PlanOrders -> Technicians] :
          items' = PlanOf(starts, techs) /\ Sound(items')
    BY <1>1 DEF Solutions
  <1>5. \A o \in PlanOrders : items'[o] = IF o \in Plannable
          THEN [start |-> SlotTime(starts[o]), end |-> SlotTime(starts[o] + Duration(o)), tech |-> techs[o]] ELSE NoItem
    BY <1>4 DEF PlanOf
  <1>6. ASSUME NEW o \in Plannable
        PROVE  /\ items'[o].start \in 0..HorizonEnd /\ items'[o].end \in 0..HorizonEnd /\ items'[o].start < items'[o].end
               /\ items'[o].tech \in Technicians
    <2>1. /\ items'[o].start = SlotTime(starts[o]) /\ items'[o].end = SlotTime(starts[o] + Duration(o))
          /\ items'[o].tech = techs[o]
          /\ starts[o] \in 0..(Slots - 1) /\ Duration(o) \in Nat \ {0} /\ techs[o] \in Technicians
      <3>1. o \in PlanOrders
        BY DEF Plannable
      <3>2. items'[o] = [start |-> SlotTime(starts[o]), end |-> SlotTime(starts[o] + Duration(o)), tech |-> techs[o]]
        BY <1>5, <3>1
      <3>3. starts[o] \in 0..(Slots - 1) /\ techs[o] \in Technicians
        BY <3>1
      <3>4. Duration(o) \in Nat \ {0}
        BY <3>1, PlanAssumption
      <3>5. QED
        BY <3>2, <3>3, <3>4
    <2>2. items'[o].end <= HorizonEnd
      BY <1>4 DEF Sound
    <2>3. starts[o] \in Nat /\ starts[o] + Duration(o) \in Nat /\ starts[o] < starts[o] + Duration(o)
      BY <2>1, PlanAssumption
    <2>4. SlotTime(starts[o]) \in Nat /\ SlotTime(starts[o] + Duration(o)) \in Nat
          /\ SlotTime(starts[o]) < SlotTime(starts[o] + Duration(o))
      BY <2>3, HorizonTyped
    <2>5. QED
      BY <2>1, <2>2, <2>4, HorizonTyped
  <1>7. items' \in Items
    <2>1. ASSUME NEW o \in PlanOrders
          PROVE  items'[o] \in ItemRows
      <3>1. CASE o \in Plannable
        <4>1. items'[o] = [start |-> SlotTime(starts[o]), end |-> SlotTime(starts[o] + Duration(o)), tech |-> techs[o]]
          BY <1>5, <3>1
        <4>2. /\ items'[o].start \in 0..HorizonEnd /\ items'[o].end \in 0..HorizonEnd /\ items'[o].tech \in Technicians
          BY <1>6, <3>1
        <4>3. QED
          BY <4>1, <4>2 DEF ItemRows
      <3>2. CASE o \notin Plannable
        <4>1. items'[o] = NoItem
          BY <1>5, <3>2
        <4>2. QED
          BY <4>1, NoItemTyped
      <3>3. QED
        BY <3>1, <3>2
    <2>2. QED
      BY <1>4, <2>1 DEF PlanOf, Items
  <1>8. PlanTypeOK'
    BY <1>1, <1>2, <1>3, <1>7, PlanAssumption DEF PlanInv, PlanTypeOK
  <1>9. FlushedLast' /\ PlansNumbered'
    BY <1>1, <1>2, <1>3 DEF PlanInv, FlushedLast, PlansNumbered, NoPlan
  <1>10. ActiveApart'
    BY <1>2 DEF ActiveApart
  <1>11. Planned' \subseteq Plannable
    <2>1. \A o \in PlanOrders : o \notin Plannable => items'[o].tech = "none"
      BY <1>5, NoItemTyped
    <2>2. QED
      BY <2>1 DEF Planned
  <1>12. ItemsLast' /\ AsSolved'
    <2>1. ItemsLast'
      BY <1>6, <1>11 DEF ItemsLast
    <2>2. AsSolved'
      BY <1>4, <1>11 DEF AsSolved, Sound, Apart
    <2>3. QED
      BY <2>1, <2>2
  <1>13. QED
    BY <1>8, <1>9, <1>10, <1>12 DEF PlanInv

LEMMA PatchKeeps == ASSUME PlanInv, NEW o \in PlanOrders, PatchItem(o) PROVE PlanInv'
  <1>1. PICK start \in 0..HorizonEnd, end \in 0..HorizonEnd, tech \in Technicians :
          /\ start < end
          /\ items' = [items EXCEPT ![o] = [start |-> start, end |-> end, tech |-> tech]]
    BY DEF PatchItem
  <1>2. /\ items[o].tech # "none" /\ UNCHANGED <<active, planner, plans>>
        /\ drags' \in 0..MaxDrags /\ drags' # 0
    BY PlanAssumption DEF PatchItem, PlanInv, PlanTypeOK
  <1> DEFINE item == [start |-> start, end |-> end, tech |-> tech]
  <1>3. item \in ItemRows /\ item.start < item.end
    BY <1>1 DEF ItemRows
  <1>4. items' \in Items /\ \A p \in PlanOrders : items'[p] = IF p = o THEN item ELSE items[p]
    BY <1>1, <1>3 DEF PlanInv, PlanTypeOK, Items
  <1>5. PlanTypeOK' /\ FlushedLast' /\ PlansNumbered'
    BY <1>2, <1>4 DEF PlanInv, PlanTypeOK, FlushedLast, PlansNumbered
  <1>6. ActiveApart'
    <2>1. items[o] # NoItem
      BY <1>2 DEF NoItem
    <2>2. QED
      BY <1>2, <2>1 DEF PlanInv, ActiveApart
  <1>7. ItemsLast' /\ AsSolved'
    BY <1>2, <1>3, <1>4 DEF PlanInv, ItemsLast, AsSolved, Planned
  <1>8. QED
    BY <1>5, <1>6, <1>7 DEF PlanInv

LEMMA PlanStep == PlanInv /\ [PlanNext]_planVars => PlanInv'
  <1>1. ASSUME PlanInv, PlanNext PROVE PlanInv'
    BY <1>1, TransactionsKeep, PlanCommitKeeps, PatchKeeps DEF PlanNext
  <1>2. ASSUME PlanInv, UNCHANGED planVars PROVE PlanInv'
    <2>1. UNCHANGED <<active, items, planner, drags, plans>>
      BY <1>2 DEF planVars
    <2>2. PlanTypeOK' /\ FlushedLast' /\ PlansNumbered' /\ ActiveApart'
      BY <1>2, <2>1 DEF PlanInv, PlanTypeOK, FlushedLast, PlansNumbered, ActiveApart
    <2>3. ItemsLast' /\ AsSolved'
      BY <1>2, <2>1 DEF PlanInv, ItemsLast, AsSolved, Planned, Apart, Overlap, Available, Covers, SlotsIn
    <2>4. QED
      BY <2>2, <2>3 DEF PlanInv
  <1>3. QED
    BY <1>1, <1>2

-----------------------------------------------------------------------------
(* The sweep. *)

\* Rounding down keeps the order, and times a slot apart are in other slots.
LEMMA SlotsOrdered ==
    ASSUME NEW a \in Nat, NEW b \in Nat
    PROVE  /\ SlotOf(a) \in Int /\ SlotOf(b) \in Int
           /\ a <= b => SlotOf(a) <= SlotOf(b)
           /\ a + SlotLength <= b => SlotOf(a) < SlotOf(b)
  <1> DEFINE q == a \div SlotLength
             c == b \div SlotLength
             x == a % SlotLength
             y == b % SlotLength
  <1>1. SlotLength \in Nat \ {0}
    BY PlanAssumption
  <1>2. q \in Int /\ x \in 0..(SlotLength - 1) /\ a = SlotLength * q + x
    <2>1. a \in Int
      OBVIOUS
    <2>2. QED
      BY <1>1, <2>1, Divided
  <1>3. c \in Int /\ y \in 0..(SlotLength - 1) /\ b = SlotLength * c + y
    <2>1. b \in Int
      OBVIOUS
    <2>2. QED
      BY <1>1, <2>1, Divided
  <1> HIDE DEF q, c, x, y
  <1>4. SlotLength * q \in Int /\ SlotLength * c \in Int
    BY <1>1, <1>2, <1>3
  <1>5. ASSUME a <= b PROVE q <= c
    <2>1. SUFFICES ASSUME c < q PROVE FALSE
      BY <1>2, <1>3
    <2>2. SlotLength * c + SlotLength <= SlotLength * q
      BY <1>1, <1>2, <1>3, <2>1, Multiple
    <2>3. QED
      BY <1>1, <1>2, <1>3, <1>4, <1>5, <2>2
  <1>6. ASSUME a + SlotLength <= b PROVE q < c
    <2>1. q <= c
      BY <1>1, <1>5, <1>6
    <2>2. q # c
      BY <1>1, <1>2, <1>3, <1>4, <1>6
    <2>3. QED
      BY <1>2, <1>3, <2>1, <2>2
  <1>7. SlotOf(a) = q /\ SlotOf(b) = c
    BY DEF SlotOf, q, c
  <1>8. QED
    BY <1>2, <1>3, <1>5, <1>6, <1>7

LEMMA PlannedTyped ==
    ASSUME PlanInv, NEW q \in Planned
    PROVE  /\ items[q].start \in Nat /\ items[q].end \in Nat /\ q \in Int
           /\ items[q].start < items[q].end
  <1>1. items[q] \in ItemRows /\ q \in Nat
    BY PlanAssumption DEF PlanInv, PlanTypeOK, Items, Planned
  <1>2. QED
    BY <1>1, HorizonTyped DEF PlanInv, ItemsLast, ItemRows

\* Of two orders that are planned one comes before the other; what the sweep
\* reaches overlaps; and of two that overlap by a slot it reaches the later
\* from the earlier.
LEMMA SweepReaches ==
    ASSUME PlanInv, NEW o \in Planned, NEW p \in Planned
    PROVE  /\ o # p => Before(o, p) \/ Before(p, o)
           /\ Reached(o, p) => o # p /\ Overlap(items[o], items[p])
           /\ Before(o, p) /\ items[p].start + SlotLength <= items[o].end => Reached(o, p)
  <1>1. \A q \in Planned : /\ items[q].start \in Nat /\ items[q].end \in Nat /\ q \in Int
                           /\ items[q].start < items[q].end
    BY PlannedTyped
  <1>2. o # p => Before(o, p) \/ Before(p, o)
    BY <1>1 DEF Before
  <1>3. ASSUME Reached(o, p) PROVE o # p /\ Overlap(items[o], items[p])
    <2>1. Before(o, p) /\ SlotOf(items[p].start) < SlotOf(items[o].end)
      BY <1>3 DEF Reached, BeginsWithin
    <2>2. items[o].start <= items[p].start /\ o # p
      BY <1>1, <2>1 DEF Before
    <2>3. ~(items[o].end <= items[p].start)
      <3>1. SUFFICES ASSUME items[o].end <= items[p].start PROVE FALSE
        OBVIOUS
      <3>2. /\ SlotOf(items[o].end) \in Int /\ SlotOf(items[p].start) \in Int
            /\ SlotOf(items[o].end) <= SlotOf(items[p].start)
        BY <1>1, <3>1, SlotsOrdered
      <3>3. QED
        BY <2>1, <3>2
    <2>4. QED
      BY <1>1, <2>2, <2>3 DEF Overlap
  <1>4. ASSUME Before(o, p), items[p].start + SlotLength <= items[o].end PROVE Reached(o, p)
    <2>1. ASSUME NEW q \in Planned, q = p \/ Before(q, p) PROVE BeginsWithin(q, o)
      <3>1. items[q].start <= items[p].start
        BY <1>1, <2>1 DEF Before
      <3>2. items[q].start + SlotLength <= items[o].end
        BY <1>1, <1>4, <3>1, PlanAssumption
      <3>3. QED
        BY <1>1, <3>2, SlotsOrdered DEF BeginsWithin
    <2>2. QED
      BY <1>4, <2>1 DEF Reached
  <1>5. QED
    BY <1>2, <1>3, <1>4

LEMMA SweepFinds == PlanInv => ConflictsFound
  <1> SUFFICES ASSUME PlanInv PROVE ConflictsFound
    OBVIOUS
  <1>1. ASSUME NEW pair \in Conflicts PROVE \E o, p \in Planned : pair = {o, p} /\ Collide(o, p)
    <2>1. PICK o, p \in pair : pair \in SUBSET Planned /\ pair = {o, p} /\ Reached(o, p) /\ Shared(o, p)
      BY DEF Conflicts
    <2>2. o \in Planned /\ p \in Planned
      BY <2>1
    <2>3. Collide(o, p)
      BY <2>1, <2>2, SweepReaches DEF Collide
    <2>4. QED
      BY <2>1, <2>2, <2>3
  <1>2. ASSUME NEW o \in Planned, NEW p \in Planned, CollideForASlot(o, p) PROVE {o, p} \in Conflicts
    <2>1. /\ o # p /\ Shared(o, p) /\ Shared(p, o)
          /\ items[p].start + SlotLength <= items[o].end /\ items[o].start + SlotLength <= items[p].end
      BY <1>2 DEF CollideForASlot, Shared
    <2>2. Reached(o, p) \/ Reached(p, o)
      BY <2>1, SweepReaches
    <2>3. {o, p} \in SUBSET Planned /\ o \in {o, p} /\ p \in {o, p} /\ {o, p} = {p, o}
      OBVIOUS
    <2>4. QED
      BY <2>1, <2>2, <2>3 DEF Conflicts
  <1>3. QED
    BY <1>1, <1>2 DEF ConflictsFound

LEMMA PlanInvGives == PlanInv => PlansSound
  <1> SUFFICES ASSUME PlanInv PROVE PlansSound
    OBVIOUS
  <1>1. OneActivePlan
    <2>1. PICK a : active \subseteq {a}
      BY DEF PlanInv, ActiveApart
    <2>2. Cardinality(active) <= 1
      <3>1. IsFiniteSet({a}) /\ Cardinality({a}) = 1
        BY FS_Singleton
      <3>2. QED
        BY <2>1, <3>1, FS_Subset
    <2>3. QED
      BY <2>2 DEF PlanInv, ActiveApart, OneActivePlan
  <1>2. PlanIsSound
    <2>1. SUFFICES ASSUME drags = 0, NEW o \in Planned
          PROVE  /\ \A p \in Planned : ~Collide(o, p)
                 /\ \A k \in SlotsIn(items[o]), w \in Windows(items[o].tech) : w.kind # "available" => ~Covers(w, k)
      BY DEF PlanIsSound
    <2>2. ASSUME NEW p \in Planned, Collide(o, p) PROVE FALSE
      BY <2>1, <2>2 DEF PlanInv, AsSolved, Apart, Collide, Shared
    <2>3. ASSUME NEW k \in SlotsIn(items[o]), NEW w \in Windows(items[o].tech), w.kind # "available", Covers(w, k)
          PROVE  FALSE
      <3>1. Available(items[o].tech, k)
        BY <2>1 DEF PlanInv, AsSolved
      <3>2. QED
        BY <2>3, <3>1 DEF Available
    <2>4. QED
      BY <2>2, <2>3
  <1>3. QED
    BY <1>1, <1>2, SweepFinds DEF PlansSound

\* The plans, their items and the transactions under way keep their types.
THEOREM PlanTypeCorrect == PlanSpec => []PlanTypeOK
  <1>1. PlanInv => PlanTypeOK
    BY DEF PlanInv
  <1>2. QED
    BY <1>1, PlanInitHolds, PlanStep, PTL DEF PlanSpec

\* One plan is in force, as sound as it was solved until somebody drags an item,
\* and the early-stopping sweep over the sorted items, rounded to slots
\* (_conflicts), still reports only pairs that collide and every pair that
\* collides for a slot or more; for any orders, technicians, calendars, slots,
\* planners and drags.
THEOREM PlansStaySound == PlanSpec => []PlansSound
  BY PlanInvGives, PlanInitHolds, PlanStep, PTL DEF PlanSpec

-----------------------------------------------------------------------------
(* The live socket: its topics reach the hub, and there is one at a time.   *)

LiveMessages == [kind : {"subscribe", "unsubscribe"}, topics : SUBSET Topics]

SocketsTyped ==
    /\ socket \in [Sockets -> [state : {"none", "connecting", "open", "closing"}, inbox : Seq(LiveMessages)]]
    /\ \A s \in Sockets : Len(socket[s].inbox) <= MaxInbox

\* A token is asked for under a generation that has begun, the timer waits
\* under the present one, and who is stopped has and awaits nothing.
SocketAsks ==
    /\ \A g \in 1..MaxGen : g > browser.gen => asking[g] = 0
    /\ browser.timer \in {0, browser.gen}
    /\ browser.stopped =>
         browser.timer = 0 /\ browser.ws = NoSocket /\ \A g \in 1..MaxGen : g = browser.gen => asking[g] = 0

\* The browser's socket is on its way to be open or open; nothing has been
\* sent over one that was never open.
CurrentIsLive ==
    /\ browser.ws # NoSocket => socket[browser.ws].state \in {"connecting", "open"}
    /\ \A s \in Sockets : socket[s].state \in {"none", "connecting"} => socket[s].inbox = <<>> /\ hub[s] = {}

\* Of a token request, a timer and a socket there is one at a time.
OneAtATime ==
    ~raced =>
      /\ \A s \in Sockets : socket[s].state \in {"connecting", "open"} => s = browser.ws
      /\ ~browser.stopped => \A g \in 1..MaxGen : g = browser.gen =>
           /\ asking[g] <= 1
           /\ browser.timer # 0 => asking[g] = 0
           /\ browser.ws # NoSocket => browser.timer = 0 /\ asking[g] = 0

\* Of the topic t the hub knows, or will once the queue q has arrived, whether
\* it is in w: the last message about it says so, or none is and the hub's h does.
Told(q, h, w, t) ==
    \/ \E i \in 1..Len(q) : /\ t \in q[i].topics /\ \A j \in 1..Len(q) : j > i => t \notin q[j].topics
                            /\ (q[i].kind = "subscribe") <=> (t \in w)
    \/ (\A i \in 1..Len(q) : t \notin q[i].topics) /\ ((t \in h) <=> (t \in w))

HubTold == IsOpen => \A t \in Topics : Told(socket[Current].inbox, hub[Current], Wanted, t)

LiveInv == LiveTypeOK /\ SocketsTyped /\ SocketAsks /\ CurrentIsLive /\ OneAtATime /\ HubTold

\* A message added at the end is the last about its topics.
LEMMA ToldByNew ==
    ASSUME NEW q \in Seq(LiveMessages), NEW h, NEW w, NEW v, NEW t, NEW m \in LiveMessages, Told(q, h, w, t),
           t \in m.topics => ((m.kind = "subscribe") <=> (t \in v)),
           t \notin m.topics => ((t \in w) <=> (t \in v))
    PROVE  Told(Append(q, m), h, v, t)
  <1> DEFINE r == Append(q, m)
  <1>1. /\ Len(r) = Len(q) + 1 /\ Len(q) \in Nat /\ r[Len(q) + 1] = m
        /\ \A i \in 1..Len(q) : r[i] = q[i]
    OBVIOUS
  <1> HIDE DEF r
  <1>2. CASE t \in m.topics
    BY <1>1, <1>2 DEF Told
  <1>3. CASE t \notin m.topics
    <2>1. CASE \A i \in 1..Len(q) : t \notin q[i].topics
      <3>1. \A i \in 1..Len(r) : t \notin r[i].topics
        BY <2>1, <1>1, <1>3
      <3>2. QED
        BY <3>1, <2>1, <1>3 DEF Told
    <2>2. ASSUME NEW i \in 1..Len(q), t \in q[i].topics, \A j \in 1..Len(q) : j > i => t \notin q[j].topics,
                 (q[i].kind = "subscribe") <=> (t \in w)
          PROVE  Told(r, h, v, t)
      <3>1. i \in 1..Len(r) /\ r[i] = q[i]
        BY <1>1
      <3>2. \A j \in 1..Len(r) : j > i => t \notin r[j].topics
        BY <1>1, <2>2, <1>3
      <3>3. QED
        BY <3>1, <3>2, <2>2, <1>3 DEF Told
    <2>3. QED
      BY <2>1, <2>2 DEF Told, r
  <1>4. QED
    BY <1>2, <1>3 DEF r

\* The hub takes the first message in.
LEMMA ToldByHead ==
    ASSUME NEW q \in Seq(LiveMessages), q # <<>>, NEW h, NEW w, NEW t, Told(q, h, w, t)
    PROVE  Told(Tail(q), IF Head(q).kind = "subscribe" THEN h \cup Head(q).topics ELSE h \ Head(q).topics, w, t)
  <1> DEFINE r == Tail(q)
  <1> DEFINE k == IF Head(q).kind = "subscribe" THEN h \cup Head(q).topics ELSE h \ Head(q).topics
  <1>1. /\ Len(r) = Len(q) - 1 /\ Len(q) \in Nat \ {0} /\ Head(q) = q[1]
        /\ \A i \in 1..Len(r) : r[i] = q[i + 1]
    OBVIOUS
  <1>2. (t \in k) <=> IF t \in q[1].topics THEN q[1].kind = "subscribe" ELSE t \in h
    BY <1>1
  <1> HIDE DEF r, k
  <1>3. CASE \A i \in 1..Len(q) : t \notin q[i].topics
    <2>1. \A i \in 1..Len(r) : t \notin r[i].topics
      BY <1>1, <1>3
    <2>2. QED
      BY <1>1, <1>2, <1>3, <2>1 DEF Told, r, k
  <1>4. ASSUME NEW i \in 1..Len(q), t \in q[i].topics, \A j \in 1..Len(q) : j > i => t \notin q[j].topics,
               (q[i].kind = "subscribe") <=> (t \in w)
        PROVE  Told(r, k, w, t)
    <2>1. CASE i = 1
      <3>1. \A j \in 1..Len(r) : t \notin r[j].topics
        BY <1>1, <1>4, <2>1
      <3>2. QED
        BY <1>2, <1>4, <2>1, <3>1 DEF Told
    <2>2. CASE i > 1
      <3>1. i - 1 \in 1..Len(r) /\ r[i - 1] = q[i]
        BY <1>1, <2>2
      <3>2. \A j \in 1..Len(r) : j > i - 1 => t \notin r[j].topics
        BY <1>1, <1>4, <2>2
      <3>3. QED
        BY <3>1, <3>2, <1>4 DEF Told
    <2>3. QED
      BY <2>1, <2>2, <1>1
  <1>5. QED
    BY <1>3, <1>4 DEF Told, r, k

LEMMA LiveInitHolds == LiveInit => LiveInv
  <1> SUFFICES ASSUME LiveInit PROVE LiveInv
    OBVIOUS
  <1>1. \A s \in Sockets : socket[s] = Gone
    BY DEF LiveInit
  <1>2. Gone \in [state : {"none", "connecting", "open", "closing"}, inbox : Seq(LiveMessages)] /\ Len(Gone.inbox) = 0
    BY DEF Gone
  <1>3. LiveTypeOK
    <2>1. \A s \in Sockets : socket[s].state = "none" /\ Len(socket[s].inbox) = 0
      BY <1>1, <1>2 DEF Gone
    <2>2. browser \in [stopped : BOOLEAN, gen : 0..MaxGen, timer : 0..MaxGen, ws : Sockets \cup {NoSocket}]
      BY LiveAssumption DEF LiveInit
    <2>3. asking \in [1..MaxGen -> 0..2] /\ refs \in [Topics -> 0..2]
      BY DEF LiveInit
    <2>6. raced \in BOOLEAN
      BY DEF LiveInit
    <2>5. hub \in [Sockets -> SUBSET Topics]
      BY DEF LiveInit
    <2>4. QED
      BY <2>1, <2>2, <2>3, <2>5, <2>6, LiveAssumption DEF LiveTypeOK
  <1>4. SocketsTyped
    BY <1>1, <1>2, LiveAssumption DEF LiveInit, SocketsTyped
  <1>5. SocketAsks /\ CurrentIsLive /\ OneAtATime /\ HubTold
    BY <1>1, LiveAssumption DEF LiveInit, SocketAsks, CurrentIsLive, OneAtATime, HubTold, IsOpen, Current, Gone
  <1>6. QED
    BY <1>3, <1>4, <1>5 DEF LiveInv

\* What is sent: nothing, or a message at the end of the current socket's inbox.
LEMMA SentToCurrent ==
    ASSUME LiveInv, NEW sockets, sockets \in [Sockets -> [state : {"none", "connecting", "open", "closing"}, inbox : Seq(LiveMessages)]],
           \A s \in Sockets : sockets[s].inbox = socket[s].inbox,
           NEW kind \in {"subscribe", "unsubscribe"}, NEW topics \in SUBSET Topics,
           Room, socket' = SentTo(sockets, kind, topics)
    PROVE  /\ SocketsTyped'
           /\ \A s \in Sockets : socket'[s].state = sockets[s].state
           /\ \A s \in Sockets : s # Current \/ sockets[s].state # "open" => socket'[s].inbox = socket[s].inbox
           /\ Current # NoSocket /\ sockets[Current].state = "open" =>
                \/ topics = {} /\ socket'[Current].inbox = socket[Current].inbox
                \/ socket'[Current].inbox = Append(socket[Current].inbox, [kind |-> kind, topics |-> topics])
  <1>1. Current # NoSocket => Current \in Sockets
    BY DEF LiveInv, LiveTypeOK, Current
  <1>2. \A s \in Sockets : Len(sockets[s].inbox) < MaxInbox /\ Len(sockets[s].inbox) \in Nat /\ MaxInbox \in Nat
    BY LiveAssumption DEF Room
  <1> DEFINE m == [kind |-> kind, topics |-> topics]
  <1>3. m \in LiveMessages
    BY DEF LiveMessages
  <1> HIDE DEF m
  <1>4. CASE topics # {} /\ Current # NoSocket /\ sockets[Current].state = "open"
    <2>1. socket' = [sockets EXCEPT ![Current].inbox = Append(@, m)]
      BY <1>4 DEF SentTo, m
    <2>2. Append(sockets[Current].inbox, m) \in Seq(LiveMessages) /\ Len(Append(sockets[Current].inbox, m)) <= MaxInbox
      BY <1>1, <1>2, <1>3, <1>4
    <2>3. /\ \A s \in Sockets : socket'[s].state = sockets[s].state
          /\ \A s \in Sockets \ {Current} : socket'[s] = sockets[s]
          /\ socket'[Current].inbox = Append(sockets[Current].inbox, m)
      BY <2>1, <1>1, <1>4
    <2>4. socket' \in [Sockets -> [state : {"none", "connecting", "open", "closing"}, inbox : Seq(LiveMessages)]]
      BY <2>1, <2>2, <1>1, <1>4
    <2>5. ASSUME NEW s \in Sockets PROVE Len(socket'[s].inbox) <= MaxInbox
      <3>1. CASE s = Current
        BY <3>1, <2>2, <2>3
      <3>2. CASE s # Current
        <4>1. socket'[s] = sockets[s]
          BY <3>2, <2>3
        <4>2. Len(sockets[s].inbox) < MaxInbox /\ Len(sockets[s].inbox) \in Nat /\ MaxInbox \in Nat
          BY <1>2
        <4>3. QED
          BY <4>1, <4>2
      <3>3. QED
        BY <3>1, <3>2
    <2>6. QED
      BY <2>3, <2>4, <2>5, <1>1, <1>4 DEF SocketsTyped, m
  <1>5. CASE ~(topics # {} /\ Current # NoSocket /\ sockets[Current].state = "open")
    <2>1. socket' = sockets
      BY <1>5 DEF SentTo
    <2>2. QED
      BY <2>1, <1>1, <1>2, <1>5 DEF SocketsTyped
  <1>6. QED
    BY <1>4, <1>5

LEMMA StartKeeps == ASSUME LiveInv, Start PROVE LiveInv'
  <1> DEFINE g == browser.gen + 1
  <1>1. /\ browser' = [browser EXCEPT !.stopped = FALSE, !.gen = g] /\ g \in 1..MaxGen /\ browser'.gen = g
        /\ browser.timer = 0 /\ browser.ws = NoSocket /\ asking[g] = 0 /\ browser.gen \in 0..MaxGen
    BY LiveAssumption DEF Start, LiveInv, LiveTypeOK, SocketAsks
  <1>2. asking' = [asking EXCEPT ![g] = @ + 1] /\ UNCHANGED <<socket, refs, hub, raced>>
    BY <1>1 DEF Start
  <1>3. LiveTypeOK' /\ SocketsTyped'
    <2>1. browser' \in [stopped : BOOLEAN, gen : 0..MaxGen, timer : 0..MaxGen, ws : Sockets \cup {NoSocket}]
      <3>1. browser \in [stopped : BOOLEAN, gen : 0..MaxGen, timer : 0..MaxGen, ws : Sockets \cup {NoSocket}] /\ g \in 0..MaxGen
        BY <1>1, LiveAssumption DEF LiveInv, LiveTypeOK
      <3> HIDE DEF g
      <3>2. QED
        BY <1>1, <3>1
    <2>2. asking' \in [1..MaxGen -> 0..2]
      BY <1>1, <1>2 DEF LiveInv, LiveTypeOK
    <2>3. QED
      BY <1>2, <2>1, <2>2 DEF LiveInv, LiveTypeOK, SocketsTyped
  <1>4. SocketAsks'
    BY <1>1, <1>2, LiveAssumption DEF LiveInv, LiveTypeOK, SocketAsks
  <1>5. CurrentIsLive' /\ HubTold'
    BY <1>1, <1>2 DEF LiveInv, LiveTypeOK, CurrentIsLive, HubTold, IsOpen, Current
  <1>6. OneAtATime'
    BY <1>1, <1>2 DEF LiveInv, LiveTypeOK, OneAtATime
  <1>7. QED
    BY <1>3, <1>4, <1>5, <1>6 DEF LiveInv

LEMMA StopKeeps == ASSUME LiveInv, Stop PROVE LiveInv'
  <1> DEFINE g == browser.gen + 1
  <1>1. /\ browser' = [stopped |-> TRUE, gen |-> g, timer |-> 0, ws |-> NoSocket] /\ g \in 1..MaxGen
        /\ asking[g] = 0 /\ browser.gen \in 0..MaxGen /\ UNCHANGED <<asking, refs, hub, raced>>
        /\ (Current # NoSocket => Current \in Sockets)
    BY LiveAssumption DEF Stop, LiveInv, LiveTypeOK, SocketAsks, Current
  <1>2. /\ \A s \in Sockets : socket'[s].inbox = socket[s].inbox
        /\ \A s \in Sockets : socket'[s].state = IF s = Current THEN "closing" ELSE socket[s].state
        /\ SocketsTyped'
    BY <1>1, LiveAssumption DEF Stop, LiveInv, SocketsTyped
  <1>3. LiveTypeOK'
    <2>1. browser' \in [stopped : BOOLEAN, gen : 0..MaxGen, timer : 0..MaxGen, ws : Sockets \cup {NoSocket}]
      BY <1>1, LiveAssumption
    <2>2. \A s \in Sockets : socket'[s].state \in {"none", "connecting", "open", "closing"}
      BY <1>2 DEF LiveInv, SocketsTyped
    <2>3. QED
      BY <1>1, <1>2, <2>1, <2>2 DEF LiveInv, LiveTypeOK, SocketsTyped
  <1>4. SocketAsks'
    BY <1>1, LiveAssumption DEF LiveInv, LiveTypeOK, SocketAsks
  <1>5. CurrentIsLive' /\ HubTold'
    BY <1>1, <1>2 DEF LiveInv, LiveTypeOK, CurrentIsLive, HubTold, IsOpen, Current
  <1>6. OneAtATime'
    BY <1>1, <1>2 DEF LiveInv, LiveTypeOK, OneAtATime, Current
  <1>7. QED
    BY <1>2, <1>3, <1>4, <1>5, <1>6 DEF LiveInv

LEMMA TokenArrivesKeeps == ASSUME LiveInv, NEW g \in 1..MaxGen, TokenArrives(g) PROVE LiveInv'
  <1>1. /\ asking' = [asking EXCEPT ![g] = @ - 1] /\ asking[g] \in 1..2 /\ UNCHANGED <<refs, hub, raced>>
        /\ \A i \in 1..MaxGen : asking'[i] = IF i = g THEN asking[g] - 1 ELSE asking[i]
        /\ asking' \in [1..MaxGen -> 0..2]
    BY DEF TokenArrives, Answered, LiveInv, LiveTypeOK
  <1>2. CASE g # browser.gen
    <2>1. UNCHANGED <<socket, browser>>
      BY <1>2 DEF TokenArrives
    <2>2. LiveTypeOK' /\ SocketsTyped' /\ SocketAsks'
      BY <1>1, <1>2, <2>1, LiveAssumption DEF LiveInv, LiveTypeOK, SocketsTyped, SocketAsks
    <2>3. CurrentIsLive' /\ HubTold' /\ OneAtATime'
      BY <1>1, <1>2, <2>1 DEF LiveInv, LiveTypeOK, CurrentIsLive, HubTold, OneAtATime, IsOpen, Current, Wanted, Told
    <2>4. QED
      BY <2>2, <2>3 DEF LiveInv
  <1>3. CASE g = browser.gen
    <2>1. PICK s \in Sockets :
            /\ socket[s].state = "none" /\ socket' = [socket EXCEPT ![s].state = "connecting"]
            /\ browser' = [browser EXCEPT !.ws = s]
      BY <1>3 DEF TokenArrives
    <2>2. /\ \A r \in Sockets : socket'[r].inbox = socket[r].inbox
          /\ \A r \in Sockets : socket'[r].state = IF r = s THEN "connecting" ELSE socket[r].state
          /\ SocketsTyped' /\ s # NoSocket
          /\ browser'.ws = s /\ browser'.gen = browser.gen /\ browser'.timer = browser.timer /\ browser'.stopped = browser.stopped
      <3>1. browser'.ws = s /\ browser'.gen = browser.gen /\ browser'.timer = browser.timer /\ browser'.stopped = browser.stopped
        BY <2>1 DEF LiveInv, LiveTypeOK
      <3>2. /\ \A r \in Sockets : socket'[r].inbox = socket[r].inbox
            /\ \A r \in Sockets : socket'[r].state = IF r = s THEN "connecting" ELSE socket[r].state
            /\ SocketsTyped'
        BY <2>1 DEF LiveInv, SocketsTyped
      <3>3. QED
        BY <3>1, <3>2, LiveAssumption
    <2>3. LiveTypeOK'
      BY <1>1, <2>1, <2>2 DEF LiveInv, LiveTypeOK, SocketsTyped
    <2>4. ~browser.stopped
      BY <1>1, <1>3 DEF LiveInv, SocketAsks
    <2>5. SocketAsks'
      BY <1>1, <1>3, <2>2, <2>4, LiveAssumption DEF LiveInv, LiveTypeOK, SocketAsks
    <2>6. CurrentIsLive' /\ HubTold'
      BY <1>1, <2>1, <2>2 DEF LiveInv, CurrentIsLive, HubTold, IsOpen, Current
    <2>7. OneAtATime'
      <3>1. SUFFICES ASSUME ~raced PROVE OneAtATime'
        BY <1>1 DEF OneAtATime
      <3>2. browser.ws = NoSocket /\ browser.timer = 0 /\ asking[g] = 1
        BY <1>1, <1>3, <2>4, <3>1 DEF LiveInv, LiveTypeOK, OneAtATime
      <3>3. \A r \in Sockets : socket[r].state \notin {"connecting", "open"}
        BY <3>1, <3>2, LiveAssumption DEF LiveInv, OneAtATime
      <3>4. QED
        BY <1>1, <1>3, <2>2, <3>2, <3>3 DEF OneAtATime
    <2>8. QED
      BY <2>2, <2>3, <2>5, <2>6, <2>7 DEF LiveInv
  <1>4. QED
    BY <1>2, <1>3

LEMMA TokenFailsKeeps == ASSUME LiveInv, NEW g \in 1..MaxGen, TokenFails(g) PROVE LiveInv'
  <1>1. /\ asking[g] \in 1..2 /\ UNCHANGED <<socket, refs, hub>>
        /\ \A i \in 1..MaxGen : asking'[i] = IF i = g THEN asking[g] - 1 ELSE asking[i]
        /\ asking' \in [1..MaxGen -> 0..2] /\ raced' = (raced \/ g # browser.gen) /\ raced' \in BOOLEAN
    BY DEF TokenFails, Answered, LiveInv, LiveTypeOK
  <1>2. /\ browser'.ws = browser.ws /\ browser'.gen = browser.gen /\ browser'.stopped = browser.stopped
        /\ browser'.timer = (IF browser.stopped THEN browser.timer ELSE browser.gen)
        /\ browser' \in [stopped : BOOLEAN, gen : 0..MaxGen, timer : 0..MaxGen, ws : Sockets \cup {NoSocket}]
    BY DEF TokenFails, Scheduled, LiveInv, LiveTypeOK
  <1>3. LiveTypeOK' /\ SocketsTyped'
    BY <1>1, <1>2 DEF LiveInv, LiveTypeOK, SocketsTyped
  <1>4. SocketAsks'
    BY <1>1, <1>2, LiveAssumption DEF LiveInv, LiveTypeOK, SocketAsks
  <1>5. CurrentIsLive' /\ HubTold'
    BY <1>1, <1>2 DEF LiveInv, LiveTypeOK, CurrentIsLive, HubTold, IsOpen, Current, Wanted, Told
  <1>6. OneAtATime'
    <2>1. SUFFICES ASSUME ~raced, g = browser.gen PROVE OneAtATime'
      BY <1>1 DEF OneAtATime
    <2>2. QED
      BY <1>1, <1>2, <2>1, LiveAssumption DEF LiveInv, LiveTypeOK, OneAtATime
  <1>7. QED
    BY <1>3, <1>4, <1>5, <1>6 DEF LiveInv

LEMMA TimerFiresKeeps == ASSUME LiveInv, TimerFires PROVE LiveInv'
  <1> DEFINE g == browser.timer
  <1>1. /\ g = browser.gen /\ g \in 1..MaxGen /\ asking[g] \in 0..1 /\ UNCHANGED <<socket, refs, hub, raced>>
        /\ \A i \in 1..MaxGen : asking'[i] = IF i = g THEN asking[g] + 1 ELSE asking[i]
        /\ asking' \in [1..MaxGen -> 0..2]
    BY LiveAssumption DEF TimerFires, LiveInv, LiveTypeOK, SocketAsks
  <1>2. /\ browser'.ws = browser.ws /\ browser'.gen = browser.gen /\ browser'.stopped = browser.stopped /\ browser'.timer = 0
        /\ browser' \in [stopped : BOOLEAN, gen : 0..MaxGen, timer : 0..MaxGen, ws : Sockets \cup {NoSocket}]
    BY LiveAssumption DEF TimerFires, LiveInv, LiveTypeOK
  <1>3. LiveTypeOK' /\ SocketsTyped'
    BY <1>1, <1>2 DEF LiveInv, LiveTypeOK, SocketsTyped
  <1>4. SocketAsks'
    BY <1>1, <1>2, LiveAssumption DEF LiveInv, LiveTypeOK, SocketAsks
  <1>5. CurrentIsLive' /\ HubTold'
    BY <1>1, <1>2 DEF LiveInv, LiveTypeOK, CurrentIsLive, HubTold, IsOpen, Current, Wanted, Told
  <1>6. OneAtATime'
    BY <1>1, <1>2 DEF LiveInv, LiveTypeOK, OneAtATime
  <1>7. QED
    BY <1>3, <1>4, <1>5, <1>6 DEF LiveInv

LEMMA SocketOpensKeeps == ASSUME LiveInv, NEW s \in Sockets, SocketOpens(s) PROVE LiveInv'
  <1> DEFINE sockets == [socket EXCEPT ![s].state = "open"]
  <1>1. /\ socket[s].state = "connecting" /\ Room /\ socket' = SentTo(sockets, "subscribe", Wanted)
        /\ UNCHANGED <<browser, asking, refs, hub, raced>>
    BY DEF SocketOpens
  <1>2. /\ sockets \in [Sockets -> [state : {"none", "connecting", "open", "closing"}, inbox : Seq(LiveMessages)]]
        /\ \A r \in Sockets : sockets[r].inbox = socket[r].inbox
        /\ \A r \in Sockets : sockets[r].state = IF r = s THEN "open" ELSE socket[r].state
    BY DEF LiveInv, SocketsTyped
  <1>3. Wanted \in SUBSET Topics
    BY DEF Wanted
  <1> HIDE DEF sockets
  <1>4. /\ SocketsTyped'
        /\ \A r \in Sockets : socket'[r].state = sockets[r].state
        /\ \A r \in Sockets : r # Current \/ sockets[r].state # "open" => socket'[r].inbox = socket[r].inbox
        /\ Current # NoSocket /\ sockets[Current].state = "open" =>
             \/ Wanted = {} /\ socket'[Current].inbox = socket[Current].inbox
             \/ socket'[Current].inbox = Append(socket[Current].inbox, [kind |-> "subscribe", topics |-> Wanted])
    BY <1>1, <1>2, <1>3, SentToCurrent
  <1>5. LiveTypeOK'
    BY <1>1, <1>2, <1>4 DEF LiveInv, LiveTypeOK, SocketsTyped
  <1>6. SocketAsks' /\ OneAtATime'
    BY <1>1, <1>2, <1>4 DEF LiveInv, SocketAsks, OneAtATime
  <1>7. CurrentIsLive'
    BY <1>1, <1>2, <1>4 DEF LiveInv, LiveTypeOK, CurrentIsLive, Current
  <1>8. HubTold'
    <2>1. SUFFICES ASSUME Current # NoSocket, sockets[Current].state = "open", NEW t \in Topics
                   PROVE  Told(socket'[Current].inbox, hub[Current], Wanted, t)
      BY <1>1, <1>4 DEF HubTold, IsOpen, Current, Wanted, LiveInv, LiveTypeOK
    <2> DEFINE q == socket[Current].inbox
               m == [kind |-> "subscribe", topics |-> Wanted]
    <2>2. Current \in Sockets /\ q \in Seq(LiveMessages) /\ m \in LiveMessages
      BY <2>1, <1>3 DEF LiveInv, LiveTypeOK, SocketsTyped, Current, LiveMessages
    <2>3. CASE Current = s
      <3>1. q = <<>> /\ hub[Current] = {}
        BY <2>3, <1>1 DEF LiveInv, CurrentIsLive
      <3>2. CASE Wanted = {}
        BY <3>1, <3>2, <1>4, <2>1 DEF Told
      <3>3. CASE Wanted # {}
        <4>1. socket'[Current].inbox = <<m>>
          BY <3>1, <3>3, <1>4, <2>1
        <4>2. QED
          BY <4>1, <3>1 DEF Told
      <3>4. QED
        BY <3>2, <3>3
    <2>4. CASE Current # s
      <3>1. Told(q, hub[Current], Wanted, t)
        BY <2>1, <2>2, <2>4, <1>2 DEF LiveInv, HubTold, IsOpen
      <3>2. CASE socket'[Current].inbox = Append(q, m)
        <4>1. t \in m.topics => ((m.kind = "subscribe") <=> (t \in Wanted))
          OBVIOUS
        <4> HIDE DEF q, m
        <4>2. QED
          BY <3>1, <3>2, <4>1, <2>2, ToldByNew
      <3>3. QED
        BY <3>1, <3>2, <1>4, <2>1
    <2>5. QED
      BY <2>3, <2>4
  <1>9. QED
    BY <1>4, <1>5, <1>6, <1>7, <1>8 DEF LiveInv

LEMMA SocketClosesKeeps == ASSUME LiveInv, NEW s \in Sockets, SocketCloses(s) PROVE LiveInv'
  <1>1. /\ socket[s].state # "none" /\ socket' = [socket EXCEPT ![s] = Gone] /\ hub' = [hub EXCEPT ![s] = {}]
        /\ UNCHANGED <<asking, refs, raced>>
    BY DEF SocketCloses
  <1>2. /\ \A r \in Sockets : socket'[r] = (IF r = s THEN Gone ELSE socket[r]) /\ hub'[r] = (IF r = s THEN {} ELSE hub[r])
        /\ SocketsTyped'
    <2>1. Gone \in [state : {"none", "connecting", "open", "closing"}, inbox : Seq(LiveMessages)] /\ Len(Gone.inbox) = 0
      BY DEF Gone
    <2>2. QED
      BY <1>1, <2>1, LiveAssumption DEF LiveInv, LiveTypeOK, SocketsTyped
  <1>3. CASE Current = s
    <2>1. /\ browser'.ws = NoSocket /\ browser'.gen = browser.gen /\ browser'.stopped = browser.stopped
          /\ browser'.timer = (IF browser.stopped THEN browser.timer ELSE browser.gen)
          /\ browser' \in [stopped : BOOLEAN, gen : 0..MaxGen, timer : 0..MaxGen, ws : Sockets \cup {NoSocket}]
      BY <1>3 DEF SocketCloses, Scheduled, LiveInv, LiveTypeOK
    <2>2. LiveTypeOK'
      BY <1>1, <1>2, <2>1 DEF LiveInv, LiveTypeOK, SocketsTyped, Gone
    <2>3. SocketAsks'
      BY <1>1, <2>1, LiveAssumption DEF LiveInv, LiveTypeOK, SocketAsks
    <2>4. CurrentIsLive' /\ HubTold'
      BY <1>1, <1>2, <2>1 DEF LiveInv, LiveTypeOK, CurrentIsLive, HubTold, IsOpen, Current, Gone
    <2>5. OneAtATime'
      BY <1>1, <1>2, <1>3, <2>1, LiveAssumption DEF LiveInv, LiveTypeOK, OneAtATime, Current, Gone
    <2>6. QED
      BY <1>2, <2>2, <2>3, <2>4, <2>5 DEF LiveInv
  <1>4. CASE Current # s
    <2>1. browser' = browser
      BY <1>4 DEF SocketCloses
    <2>2. LiveTypeOK'
      BY <1>1, <1>2, <2>1 DEF LiveInv, LiveTypeOK, SocketsTyped, Gone
    <2>3. SocketAsks' /\ OneAtATime'
      BY <1>1, <1>2, <2>1 DEF LiveInv, SocketAsks, OneAtATime, Gone
    <2>4. CurrentIsLive'
      BY <1>2, <1>4, <2>1 DEF LiveInv, LiveTypeOK, CurrentIsLive, Current, Gone
    <2>5. HubTold'
      <3>1. Current' = Current /\ Wanted' = Wanted
        BY <1>1, <2>1 DEF Current, Wanted
      <3>2. SUFFICES ASSUME IsOpen', NEW t \in Topics
                     PROVE  Told(socket'[Current].inbox, hub'[Current], Wanted, t)
        BY <3>1 DEF HubTold
      <3>3. Current \in Sockets /\ socket'[Current] = socket[Current] /\ hub'[Current] = hub[Current]
        BY <1>2, <1>4, <2>1, <3>2 DEF LiveInv, LiveTypeOK, IsOpen, Current
      <3>4. IsOpen
        BY <2>1, <3>1, <3>2, <3>3 DEF IsOpen
      <3>5. QED
        BY <3>3, <3>4 DEF LiveInv, HubTold
    <2>6. QED
      BY <1>2, <2>2, <2>3, <2>4, <2>5 DEF LiveInv
  <1>5. QED
    BY <1>3, <1>4

\* A handler comes or goes: what is sent says what is wanted from now on.
LEMMA HandlersKeep ==
    ASSUME LiveInv, NEW kind \in {"subscribe", "unsubscribe"}, NEW topics \in SUBSET Topics, Room,
           socket' = SentTo(socket, kind, topics), UNCHANGED <<browser, asking, hub, raced>>,
           refs' \in [Topics -> 0..2],
           \A t \in topics : (kind = "subscribe") <=> (refs'[t] > 0),
           \A t \in Topics \ topics : (refs[t] > 0) <=> (refs'[t] > 0)
    PROVE  LiveInv'
  <1>1. /\ SocketsTyped'
        /\ \A s \in Sockets : socket'[s].state = socket[s].state
        /\ \A s \in Sockets : s # Current \/ socket[s].state # "open" => socket'[s].inbox = socket[s].inbox
        /\ Current # NoSocket /\ socket[Current].state = "open" =>
             \/ topics = {} /\ socket'[Current].inbox = socket[Current].inbox
             \/ socket'[Current].inbox = Append(socket[Current].inbox, [kind |-> kind, topics |-> topics])
    BY SentToCurrent DEF LiveInv, SocketsTyped
  <1>2. LiveTypeOK'
    BY <1>1 DEF LiveInv, LiveTypeOK, SocketsTyped
  <1>3. SocketAsks' /\ OneAtATime' /\ CurrentIsLive'
    BY <1>1 DEF LiveInv, LiveTypeOK, SocketAsks, OneAtATime, CurrentIsLive, Current
  <1>4. HubTold'
    <2>1. SUFFICES ASSUME Current # NoSocket, socket[Current].state = "open", NEW t \in Topics
                   PROVE  Told(socket'[Current].inbox, hub[Current], Wanted', t)
      BY <1>1 DEF HubTold, IsOpen, Current, LiveInv, LiveTypeOK
    <2> DEFINE q == socket[Current].inbox
               m == [kind |-> kind, topics |-> topics]
    <2>2. Current \in Sockets /\ q \in Seq(LiveMessages) /\ m \in LiveMessages
      BY <2>1 DEF LiveInv, LiveTypeOK, SocketsTyped, Current, LiveMessages
    <2>3. Told(q, hub[Current], Wanted, t)
      BY <2>1 DEF LiveInv, HubTold, IsOpen
    <2>4. /\ t \in m.topics => ((m.kind = "subscribe") <=> (t \in Wanted'))
          /\ t \notin m.topics => ((t \in Wanted) <=> (t \in Wanted'))
      BY DEF Wanted
    <2>5. CASE socket'[Current].inbox = Append(q, m)
      <3> HIDE DEF q, m
      <3>1. QED
        BY <2>2, <2>3, <2>4, <2>5, ToldByNew
    <2>6. CASE topics = {} /\ socket'[Current].inbox = q
      BY <2>3, <2>4, <2>6 DEF Told
    <2>7. QED
      BY <1>1, <2>1, <2>5, <2>6
  <1>5. QED
    BY <1>1, <1>2, <1>3, <1>4 DEF LiveInv

LEMMA SubscribeKeeps == ASSUME LiveInv, NEW t \in Topics, Subscribe(t) PROVE LiveInv'
  <1>1. /\ refs[t] \in 0..1 /\ Room /\ refs' \in [Topics -> 0..2]
        /\ \A u \in Topics : refs'[u] = IF u = t THEN refs[t] + 1 ELSE refs[u]
    BY DEF Subscribe, LiveInv, LiveTypeOK
  <1>2. \A u \in {t} \ Wanted : refs'[u] > 0
    BY <1>1
  <1>3. \A u \in Topics \ ({t} \ Wanted) : (refs[u] > 0) <=> (refs'[u] > 0)
    BY <1>1 DEF Wanted
  <1>4. QED
    BY <1>1, <1>2, <1>3, HandlersKeep DEF Subscribe

LEMMA UnsubscribeKeeps == ASSUME LiveInv, NEW t \in Topics, Unsubscribe(t) PROVE LiveInv'
  <1> DEFINE topics == IF refs[t] = 1 THEN {t} ELSE {}
  <1>1. /\ refs[t] \in 1..2 /\ Room /\ refs' \in [Topics -> 0..2]
        /\ \A u \in Topics : refs'[u] = IF u = t THEN refs[t] - 1 ELSE refs[u]
    BY DEF Unsubscribe, LiveInv, LiveTypeOK
  <1>2. \A u \in topics : ~(refs'[u] > 0)
    BY <1>1
  <1>3. \A u \in Topics \ topics : (refs[u] > 0) <=> (refs'[u] > 0)
    BY <1>1 DEF LiveInv, LiveTypeOK
  <1>4. topics \in SUBSET Topics /\ socket' = SentTo(socket, "unsubscribe", topics)
    BY DEF Unsubscribe
  <1>5. UNCHANGED <<browser, asking, hub, raced>>
    BY DEF Unsubscribe
  <1> HIDE DEF topics
  <1>6. QED
    BY <1>1, <1>2, <1>3, <1>4, <1>5, HandlersKeep

LEMMA HubReceivesKeeps == ASSUME LiveInv, NEW s \in Sockets, HubReceives(s) PROVE LiveInv'
  <1> DEFINE q == socket[s].inbox
             h == IF Head(q).kind = "subscribe" THEN hub[s] \cup Head(q).topics ELSE hub[s] \ Head(q).topics
  <1>1. /\ socket[s].state = "open" /\ q # <<>> /\ q \in Seq(LiveMessages) /\ Head(q) \in LiveMessages
        /\ socket' = [socket EXCEPT ![s].inbox = Tail(@)] /\ hub' = [hub EXCEPT ![s] = h]
        /\ UNCHANGED <<browser, asking, refs, raced>>
    BY DEF HubReceives, LiveInv, SocketsTyped
  <1>2. Tail(q) \in Seq(LiveMessages) /\ Len(Tail(q)) <= MaxInbox
    BY <1>1, LiveAssumption DEF LiveInv, SocketsTyped
  <1>3. h \in SUBSET Topics
    BY <1>1 DEF LiveInv, LiveTypeOK, LiveMessages
  <1> HIDE DEF h
  <1>4. /\ \A r \in Sockets : socket'[r].state = socket[r].state
        /\ \A r \in Sockets \ {s} : socket'[r].inbox = socket[r].inbox /\ hub'[r] = hub[r]
        /\ socket'[s].inbox = Tail(q) /\ hub'[s] = h /\ SocketsTyped' /\ hub' \in [Sockets -> SUBSET Topics]
    BY <1>1, <1>2, <1>3 DEF LiveInv, LiveTypeOK, SocketsTyped
  <1>5. LiveTypeOK'
    BY <1>1, <1>4 DEF LiveInv, LiveTypeOK, SocketsTyped
  <1>6. SocketAsks' /\ OneAtATime' /\ CurrentIsLive'
    BY <1>1, <1>4 DEF LiveInv, LiveTypeOK, SocketAsks, OneAtATime, CurrentIsLive
  <1>7. HubTold'
    <2>1. CASE Current = s
      <3>1. ASSUME NEW t \in Topics PROVE Told(Tail(q), h, Wanted, t)
        <4>1. Told(q, hub[s], Wanted, t)
          BY <1>1, <2>1, LiveAssumption DEF LiveInv, HubTold, IsOpen
        <4> HIDE DEF q
        <4>2. QED
          BY <1>1, <4>1, ToldByHead DEF h
      <3>2. QED
        BY <1>1, <1>4, <2>1, <3>1 DEF HubTold, Current, Wanted
    <2>2. CASE Current # s
      BY <1>1, <1>4, <2>2 DEF LiveInv, LiveTypeOK, HubTold, IsOpen, Current, Wanted, Told
    <2>3. QED
      BY <2>1, <2>2
  <1>8. QED
    BY <1>4, <1>5, <1>6, <1>7 DEF LiveInv

LEMMA LiveStep == LiveInv /\ [LiveNext]_liveVars => LiveInv'
  <1>1. ASSUME LiveInv, LiveNext PROVE LiveInv'
    BY <1>1, StartKeeps, StopKeeps, TimerFiresKeeps, TokenArrivesKeeps, TokenFailsKeeps, SocketOpensKeeps,
       SocketClosesKeeps, HubReceivesKeeps, SubscribeKeeps, UnsubscribeKeeps DEF LiveNext
  <1>2. ASSUME LiveInv, UNCHANGED liveVars PROVE LiveInv'
    BY <1>2 DEF liveVars, LiveInv, LiveTypeOK, SocketsTyped, SocketAsks, CurrentIsLive, OneAtATime, HubTold, IsOpen, Current,
         Wanted, Told
  <1>3. QED
    BY <1>1, <1>2

LEMMA LiveInvGives == LiveInv => LiveTypeOK /\ LiveSound
  <1> SUFFICES ASSUME LiveInv PROVE LiveSound
    BY DEF LiveInv
  <1>1. HubKnowsTopics
    <2>1. SUFFICES ASSUME IsOpen, socket[Current].inbox = <<>> PROVE hub[Current] = Wanted
      BY DEF HubKnowsTopics
    <2>2. Current \in Sockets /\ hub[Current] \subseteq Topics /\ Wanted \subseteq Topics
      BY <2>1 DEF LiveInv, LiveTypeOK, IsOpen, Current, Wanted
    <2>3. \A t \in Topics : (t \in hub[Current]) <=> (t \in Wanted)
      BY <2>1 DEF LiveInv, HubTold, Told
    <2>4. QED
      BY <2>2, <2>3
  <1>2. OneSocket
    <2> DEFINE live == {s \in Sockets : socket[s].state \in {"connecting", "open"}}
    <2>1. SUFFICES ASSUME ~raced PROVE Cardinality(live) <= 1 /\ (browser.stopped => live = {})
      BY DEF OneSocket
    <2>2. live \subseteq {browser.ws}
      BY <2>1 DEF LiveInv, OneAtATime
    <2>3. Cardinality(live) <= 1
      <3> HIDE DEF live
      <3>1. IsFiniteSet({browser.ws}) /\ Cardinality({browser.ws}) = 1
        BY FS_Singleton
      <3>2. QED
        BY <2>2, <3>1, FS_Subset
    <2>4. browser.stopped => live = {}
      BY <2>2, LiveAssumption DEF LiveInv, SocketAsks
    <2>5. QED
      BY <2>3, <2>4
  <1>3. QED
    BY <1>1, <1>2 DEF LiveSound

\* The type of the browser's and the hub's state (ws.ts, ws_hub.py).
THEOREM LiveTypeCorrect == LiveSpec => []LiveTypeOK
  <1>1. LiveInv => LiveTypeOK
    BY LiveInvGives
  <1>2. QED
    BY <1>1, LiveInitHolds, LiveStep, PTL DEF LiveSpec

\* The hub of an open socket knows the topics that have a handler once what
\* was sent has arrived, and the browser has one socket (ws.ts: send,
\* subscribe, connect; ws_hub.py: handle).
THEOREM LiveStaysSound == LiveSpec => []LiveSound
  <1>1. LiveInv => LiveSound
    BY LiveInvGives
  <1>2. QED
    BY <1>1, LiveInitHolds, LiveStep, PTL DEF LiveSpec

-----------------------------------------------------------------------------
(* The shift calendar: which instants somebody works, whoever asks. *)

\* The shift of row r on day d, counted over all weeks.
StartOf(rows, r, d) == Hours * d + rows[r].starts
EndOf(rows, r, d)   == (IF rows[r].ends <= rows[r].starts THEN Hours * d + Hours ELSE Hours * d) + rows[r].ends
Worked(rows, r, d)  == r \in DOMAIN rows /\ d % Days \in rows[r].days

\* Somebody is at work.
On(rows, h) == \E r \in DOMAIN rows, d \in Int : Worked(rows, r, d) /\ StartOf(rows, r, d) <= h /\ h < EndOf(rows, r, d)

LEMMA RowIs ==
    ASSUME NEW rows \in Seq(ShiftRows), NEW r \in DOMAIN rows
    PROVE  rows[r] \in ShiftRows /\ rows[r].starts \in Clock /\ rows[r].ends \in Clock /\ r \in 1..Len(rows)
  <1>1. DOMAIN rows = 1..Len(rows) /\ rows[r] \in ShiftRows
    OBVIOUS
  <1>2. QED
    BY <1>1 DEF ShiftRows

\* A shift starts in its day, ends in it or in the next, and lasts a day at most.
LEMMA SpanOf ==
    ASSUME NEW rows \in Seq(ShiftRows), NEW r \in DOMAIN rows, NEW d \in Int
    PROVE  LET s == StartOf(rows, r, d)
               e == EndOf(rows, r, d) IN
           /\ Hours * d \in Int /\ s \in Int /\ e \in Int
           /\ Hours * d <= s /\ s < Hours * d + Hours /\ s < e
           /\ e < Hours * d + Hours + Hours /\ e - s <= Hours
  <1> DEFINE x == Hours * d
             a == rows[r].starts
             b == rows[r].ends
  <1>1. x \in Int /\ a \in 0..(Hours - 1) /\ b \in 0..(Hours - 1) /\ Hours \in Nat
    BY CalendarAssumption, RowIs DEF Clock
  <1> HIDE DEF x, a, b
  <1>2. StartOf(rows, r, d) = x + a /\ EndOf(rows, r, d) = (IF b <= a THEN x + Hours ELSE x) + b
    BY DEF StartOf, EndOf, x, a, b
  <1>3. QED
    BY <1>1, <1>2 DEF x

\* An instant is an hour of a day.
LEMMA InstantIs ==
    ASSUME NEW h \in Int
    PROVE  \E q \in Int, c \in Clock : /\ h = Hours * q + c /\ Midnight(h) = Hours * q /\ Hours * q \in Int
                                      /\ h \div Hours = q /\ h % Hours = c /\ Weekday(h) = q % Days
  <1> DEFINE q == h \div Hours
             c == h % Hours
  <1>1. h = Hours * q + c /\ c \in 0..(Hours - 1) /\ q \in Int
    BY CalendarAssumption, Divided
  <1>2. Midnight(h) = h - c /\ Weekday(h) = q % Days
    BY DEF Midnight, Weekday
  <1>3. Hours * q \in Int
    BY <1>1, CalendarAssumption
  <1> HIDE DEF q, c
  <1>4. Midnight(h) = Hours * q
    BY <1>1, <1>2, <1>3, CalendarAssumption
  <1>5. QED
    BY <1>1, <1>2, <1>3, <1>4 DEF Clock, q, c

LEMMA InDay ==
    ASSUME NEW d \in Int, NEW c \in Clock
    PROVE  (Hours * d + c) \div Hours = d /\ (Hours * d + c) % Hours = c /\ Weekday(Hours * d + c) = d % Days
  <1>1. Hours * d + c \in Int /\ Hours \in Nat \ {0} /\ c \in 0..(Hours - 1)
    BY CalendarAssumption DEF Clock
  <1>2. (Hours * d + c) \div Hours = d /\ (Hours * d + c) % Hours = c
    <2> DEFINE a == Hours * d + c
    <2>1. a \in Int /\ a = Hours * d + c
      BY <1>1
    <2> HIDE DEF a
    <2>2. a \div Hours = d /\ a % Hours = c
      BY <1>1, <2>1, DivisionIs
    <2>3. QED
      BY <2>2 DEF a
  <1>3. QED
    BY <1>2 DEF Weekday

\* The engine's search finds the shifts of the days it goes through.
LEMMA InstancesAre ==
    ASSUME NEW rows \in Seq(ShiftRows), NEW q \in Int, NEW count \in Nat
    PROVE  \A i : i \in Instances(rows, Hours * q, count) <=>
             \E d \in q..(q + count - 1), r \in DOMAIN rows :
               /\ Worked(rows, r, d)
               /\ i = [row |-> r, starts |-> StartOf(rows, r, d), ends |-> EndOf(rows, r, d)]
  <1> USE CalendarAssumption
  <1>1. \A d \in Int : \A r : Instance(rows, r, Hours * d) =
          [row |-> r, starts |-> StartOf(rows, r, d), ends |-> EndOf(rows, r, d)]
    BY DEF Instance, StartOf, EndOf
  <1>2. \A d \in Int : Weekday(Hours * d) = d % Days
    <2>1. TAKE d \in Int
    <2>2. 0 \in Clock /\ Hours * d + 0 = Hours * d
      BY DEF Clock
    <2>3. QED
      BY <2>2, InDay
  <1>3. \A k \in Int : Hours * q + Hours * k = Hours * (q + k)
    OBVIOUS
  <1>4. \A i : i \in Instances(rows, Hours * q, count) <=>
          \E k \in 0..(count - 1), r \in DOMAIN rows :
            Worked(rows, r, q + k) /\ i = Instance(rows, r, Hours * (q + k))
    <2> DEFINE Of(day) == {Instance(rows, r, day) : r \in {x \in DOMAIN rows : Weekday(day) \in rows[x].days}}
    <2>1. \A day, i : i \in Of(day) <=> \E r \in DOMAIN rows : Weekday(day) \in rows[r].days /\ i = Instance(rows, r, day)
      OBVIOUS
    <2>2. Instances(rows, Hours * q, count) = UNION {Of(day) : day \in {Hours * q + Hours * k : k \in 0..(count - 1)}}
      BY DEF Instances
    <2> HIDE DEF Of
    <2>3. \A i : i \in Instances(rows, Hours * q, count) <=> \E k \in 0..(count - 1) : i \in Of(Hours * q + Hours * k)
      BY <2>2, Zenon
    <2>4. \A k \in 0..(count - 1) : Of(Hours * q + Hours * k) = Of(Hours * (q + k))
      BY <1>3
    <2>5. \A k \in 0..(count - 1) : Weekday(Hours * (q + k)) = (q + k) % Days
      <3>1. TAKE k \in 0..(count - 1)
      <3>2. q + k \in Int
        OBVIOUS
      <3>3. QED
        BY <1>2, <3>2
    <2>6. ASSUME NEW i, NEW k \in 0..(count - 1)
          PROVE  i \in Of(Hours * q + Hours * k) <=>
                   \E r \in DOMAIN rows : Worked(rows, r, q + k) /\ i = Instance(rows, r, Hours * (q + k))
      <3>1. i \in Of(Hours * (q + k)) <=>
              \E r \in DOMAIN rows : Weekday(Hours * (q + k)) \in rows[r].days /\ i = Instance(rows, r, Hours * (q + k))
        BY <2>1
      <3>2. QED
        BY <2>4, <2>5, <3>1 DEF Worked
    <2>7. QED
      BY <2>3, <2>6
  <1>5. \A d : d \in q..(q + count - 1) <=> \E k \in 0..(count - 1) : d = q + k
    <2>1. ASSUME NEW d \in q..(q + count - 1) PROVE \E k \in 0..(count - 1) : d = q + k
      <3>1. d - q \in 0..(count - 1) /\ d = q + (d - q)
        BY <2>1
      <3>2. QED
        BY <3>1
    <2>2. ASSUME NEW k \in 0..(count - 1) PROVE q + k \in q..(q + count - 1)
      BY <2>2
    <2>3. QED
      BY <2>1, <2>2
  <1>6. \A k \in 0..(count - 1) : \A r : Instance(rows, r, Hours * (q + k)) =
          [row |-> r, starts |-> StartOf(rows, r, q + k), ends |-> EndOf(rows, r, q + k)]
    <2>1. TAKE k \in 0..(count - 1)
    <2>2. TAKE r
    <2>3. q + k \in Int
      OBVIOUS
    <2>4. QED
      BY <1>1, <2>3
  <1>7. ASSUME NEW i, NEW k \in 0..(count - 1), NEW d, d = q + k
        PROVE  (\E r \in DOMAIN rows : Worked(rows, r, q + k) /\ i = Instance(rows, r, Hours * (q + k)))
               <=> \E r \in DOMAIN rows : Worked(rows, r, d)
                     /\ i = [row |-> r, starts |-> StartOf(rows, r, d), ends |-> EndOf(rows, r, d)]
    BY <1>6, <1>7
  <1>8. TAKE i
  <1>9. ASSUME i \in Instances(rows, Hours * q, count)
        PROVE  \E d \in q..(q + count - 1), r \in DOMAIN rows : Worked(rows, r, d)
                 /\ i = [row |-> r, starts |-> StartOf(rows, r, d), ends |-> EndOf(rows, r, d)]
    <2>1. PICK k \in 0..(count - 1) :
            \E r \in DOMAIN rows : Worked(rows, r, q + k) /\ i = Instance(rows, r, Hours * (q + k))
      BY <1>4, <1>9
    <2>2. q + k \in q..(q + count - 1)
      BY <1>5
    <2>3. QED
      BY <1>7, <2>1, <2>2
  <1>10. ASSUME NEW d \in q..(q + count - 1), NEW r \in DOMAIN rows, Worked(rows, r, d),
                i = [row |-> r, starts |-> StartOf(rows, r, d), ends |-> EndOf(rows, r, d)]
         PROVE  i \in Instances(rows, Hours * q, count)
    <2>1. PICK k \in 0..(count - 1) : d = q + k
      BY <1>5
    <2>2. QED
      BY <1>4, <1>7, <1>10, <2>1
  <1>11. QED
    BY <1>9, <1>10

\* A shift on at an instant is of its day or of the day before.
LEMMA OnIs ==
    ASSUME NEW rows \in Seq(ShiftRows), NEW h \in Int, NEW q \in Int, NEW c \in Clock, h = Hours * q + c,
           NEW r \in DOMAIN rows, NEW d \in Int, StartOf(rows, r, d) <= h, h < EndOf(rows, r, d)
    PROVE  d \in {q - 1, q}
  <1> USE CalendarAssumption
  <1>1. /\ Hours * d \in Int /\ Hours * d <= h /\ h < Hours * d + Hours + Hours
        /\ Hours * q \in Int /\ c \in 0..(Hours - 1)
    <2>1. /\ Hours * d \in Int /\ StartOf(rows, r, d) \in Int /\ EndOf(rows, r, d) \in Int
          /\ Hours * d <= StartOf(rows, r, d) /\ EndOf(rows, r, d) < Hours * d + Hours + Hours
      BY SpanOf
    <2>2. QED
      BY <2>1 DEF Clock
  <1>2. ~(q < d)
    <2>1. SUFFICES ASSUME q < d PROVE FALSE
      OBVIOUS
    <2>2. Hours * q + Hours <= Hours * d
      BY <2>1, Multiple
    <2>3. QED
      BY <1>1, <2>2
  <1>3. ~(d < q - 1)
    <2>1. SUFFICES ASSUME d < q - 1 PROVE FALSE
      OBVIOUS
    <2>2. d + 1 \in Int /\ d < d + 1 /\ d + 1 < q
      BY <2>1
    <2>3. Hours * d + Hours <= Hours * (d + 1) /\ Hours * (d + 1) + Hours <= Hours * q /\ Hours * (d + 1) \in Int
      BY <2>2, Multiple
    <2>4. QED
      BY <1>1, <2>3
  <1>4. QED
    BY <1>2, <1>3

\* The engine has a shift exactly if somebody is at work.
LEMMA ActiveIs ==
    ASSUME NEW rows \in Seq(ShiftRows), NEW h \in Nat, h >= Hours
    PROVE  Active(rows, h) \in 0..Len(rows) /\ (Active(rows, h) # 0 <=> On(rows, h))
  <1> USE CalendarAssumption
  <1> DEFINE in == {i \in Instances(rows, Midnight(h) - Hours, 2) : i.starts <= h /\ h < i.ends}
             first == Min({i.starts \div Hours : i \in in})
             rest == {j \in in : j.starts \div Hours = first}
  <1>1. PICK q \in Int, c \in Clock : h = Hours * q + c /\ Midnight(h) = Hours * q /\ Hours * q \in Int
    <2>1. h \in Int
      OBVIOUS
    <2>2. QED
      BY <2>1, InstantIs
  <1>2. c \in 0..(Hours - 1) /\ Midnight(h) - Hours = Hours * (q - 1)
    BY <1>1 DEF Clock
  <1>3. q >= 1
    <2>1. SUFFICES ASSUME q < 1 PROVE FALSE
      OBVIOUS
    <2>2. Hours * q + Hours <= Hours * 1
      BY <2>1, Multiple
    <2>3. QED
      BY <1>1, <1>2, <2>2
  <1>4. \A i : i \in in <=> \E d \in {q - 1, q}, r \in DOMAIN rows :
                              /\ Worked(rows, r, d) /\ StartOf(rows, r, d) <= h /\ h < EndOf(rows, r, d)
                              /\ i = [row |-> r, starts |-> StartOf(rows, r, d), ends |-> EndOf(rows, r, d)]
    <2>1. \A i : i \in Instances(rows, Hours * (q - 1), 2) <=>
             \E d \in (q - 1)..(q - 1 + 2 - 1), r \in DOMAIN rows :
               /\ Worked(rows, r, d)
               /\ i = [row |-> r, starts |-> StartOf(rows, r, d), ends |-> EndOf(rows, r, d)]
      <3>1. q - 1 \in Int /\ 2 \in Nat
        OBVIOUS
      <3>2. QED
        BY <3>1, InstancesAre
    <2>2. (q - 1)..(q - 1 + 2 - 1) = {q - 1, q}
      BY <1>3
    <2>3. QED
      BY <1>2, <2>1, <2>2
  <1>5. in # {} <=> On(rows, h)
    <2>1. ASSUME On(rows, h) PROVE in # {}
      <3>1. PICK r \in DOMAIN rows, d \in Int : Worked(rows, r, d) /\ StartOf(rows, r, d) <= h /\ h < EndOf(rows, r, d)
        BY <2>1 DEF On
      <3>2. d \in {q - 1, q}
        BY <1>1, <3>1, OnIs
      <3>3. QED
        BY <1>4, <3>1, <3>2
    <2>2. ASSUME in # {} PROVE On(rows, h)
      <3>1. PICK i : i \in in
        BY <2>2
      <3> HIDE DEF in
      <3>2. QED
        BY <1>4, <3>1 DEF On
    <2>3. QED
      BY <2>1, <2>2
  <1>6. \A i \in in : i.row \in 1..Len(rows) /\ i.starts \div Hours \in Nat
    <2>1. TAKE i \in in
    <2>2. PICK d \in {q - 1, q}, r \in DOMAIN rows :
            i = [row |-> r, starts |-> StartOf(rows, r, d), ends |-> EndOf(rows, r, d)]
      <3> HIDE DEF in
      <3>1. QED
        BY <1>4
    <2>3. i.row \in 1..Len(rows)
      BY <2>2, RowIs
    <2>4. i.starts = Hours * d + rows[r].starts /\ rows[r].starts \in Clock
      BY <2>2, RowIs DEF StartOf
    <2>5. i.starts \div Hours = d
      BY <2>4, InDay, d \in Int
    <2>6. QED
      BY <1>3, <2>3, <2>5
  <1>7. Active(rows, h) = IF in = {} THEN 0 ELSE Min({i.row : i \in rest})
    BY DEF Active
  <1> HIDE DEF in
  <1>8. in # {} => Active(rows, h) \in 1..Len(rows)
    <2>1. SUFFICES ASSUME in # {} PROVE Active(rows, h) \in 1..Len(rows)
      OBVIOUS
    <2>2. {i.starts \div Hours : i \in in} \subseteq Nat /\ {i.starts \div Hours : i \in in} # {}
      BY <1>6, <2>1
    <2>3. first \in {i.starts \div Hours : i \in in}
      BY <2>2, MinIs
    <2> HIDE DEF first
    <2>4. rest # {} /\ rest \subseteq in
      BY <2>3
    <2> HIDE DEF rest
    <2>5. {i.row : i \in rest} \subseteq 1..Len(rows) /\ {i.row : i \in rest} # {} /\ 1..Len(rows) \subseteq Nat
      BY <1>6, <2>4
    <2>6. Min({i.row : i \in rest}) \in {i.row : i \in rest}
      BY <2>5, MinIs
    <2>7. QED
      BY <1>7, <2>1, <2>5, <2>6
  <1>9. QED
    BY <1>5, <1>7, <1>8

\* The hours that OnShiftWhenWorking counts are those.
LastsFor(r) == IF r.ends > r.starts THEN r.ends - r.starts ELSE Hours + r.ends - r.starts
OnTheWall(rows, h) ==
    \E r \in DOMAIN rows, back \in 0..(Hours - 1) :
        /\ back < LastsFor(rows[r]) /\ (h - back) % Hours = rows[r].starts
        /\ Weekday(h - back) \in rows[r].days

LEMMA OnWall ==
    ASSUME NEW rows \in Seq(ShiftRows), NEW h \in Int
    PROVE  OnTheWall(rows, h) <=> On(rows, h)
  <1> USE CalendarAssumption
  <1>1. \A r \in DOMAIN rows, d \in Int :
          /\ StartOf(rows, r, d) \in Int /\ EndOf(rows, r, d) = StartOf(rows, r, d) + LastsFor(rows[r])
          /\ LastsFor(rows[r]) \in 1..Hours
    <2>1. TAKE r \in DOMAIN rows, d \in Int
    <2> DEFINE x == Hours * d
               a == rows[r].starts
               b == rows[r].ends
    <2>2. x \in Int /\ a \in 0..(Hours - 1) /\ b \in 0..(Hours - 1)
      BY RowIs DEF Clock
    <2> HIDE DEF x, a, b
    <2>3. /\ StartOf(rows, r, d) = x + a /\ EndOf(rows, r, d) = (IF b <= a THEN x + Hours ELSE x) + b
          /\ LastsFor(rows[r]) = IF b > a THEN b - a ELSE Hours + b - a
      BY DEF StartOf, EndOf, LastsFor, x, a, b
    <2>4. QED
      BY <2>2, <2>3
  <1>2. ASSUME OnTheWall(rows, h) PROVE On(rows, h)
    <2>1. PICK r \in DOMAIN rows, back \in 0..(Hours - 1) :
            /\ back < LastsFor(rows[r]) /\ (h - back) % Hours = rows[r].starts
            /\ Weekday(h - back) \in rows[r].days
      BY <1>2 DEF OnTheWall
    <2>2. h - back \in Int
      OBVIOUS
    <2>3. PICK d \in Int, c \in Clock : /\ h - back = Hours * d + c
                                        /\ (h - back) % Hours = c /\ Weekday(h - back) = d % Days
      BY <2>2, InstantIs
    <2>4. StartOf(rows, r, d) = h - back /\ Worked(rows, r, d)
      BY <2>1, <2>3 DEF StartOf, Worked
    <2>5. StartOf(rows, r, d) <= h /\ h < EndOf(rows, r, d)
      <3>1. PICK s, e, l : s = StartOf(rows, r, d) /\ e = EndOf(rows, r, d) /\ l = LastsFor(rows[r])
        OBVIOUS
      <3>2. s \in Int /\ e = s + l /\ l \in 1..Hours
        BY <1>1, <3>1
      <3>3. s = h - back /\ back < l
        BY <2>1, <2>4, <3>1
      <3>4. s <= h /\ h < e
        BY <3>2, <3>3
      <3>5. QED
        BY <3>1, <3>4
    <2>6. QED
      BY <2>4, <2>5 DEF On
  <1>3. ASSUME On(rows, h) PROVE OnTheWall(rows, h)
    <2>1. PICK r \in DOMAIN rows, d \in Int : Worked(rows, r, d) /\ StartOf(rows, r, d) <= h /\ h < EndOf(rows, r, d)
      BY <1>3 DEF On
    <2> DEFINE back == h - StartOf(rows, r, d)
    <2>2. back \in 0..(Hours - 1) /\ back < LastsFor(rows[r]) /\ h - back = StartOf(rows, r, d)
      <3>1. PICK s, e, l : s = StartOf(rows, r, d) /\ e = EndOf(rows, r, d) /\ l = LastsFor(rows[r])
        OBVIOUS
      <3>2. s \in Int /\ e = s + l /\ l \in 1..Hours /\ s <= h /\ h < e
        BY <1>1, <2>1, <3>1
      <3>3. h - s \in 0..(Hours - 1) /\ h - s < l /\ h - (h - s) = s
        BY <3>2
      <3>4. QED
        BY <3>1, <3>3
    <2> HIDE DEF back
    <2>3. h - back = Hours * d + rows[r].starts /\ rows[r].starts \in Clock
      BY <2>2, RowIs DEF StartOf
    <2>4. (h - back) % Hours = rows[r].starts /\ Weekday(h - back) = d % Days
      BY <2>3, InDay
    <2>5. QED
      BY <2>1, <2>2, <2>4 DEF OnTheWall, Worked
  <1>4. QED
    BY <1>2, <1>3

\* Every week is like the one before.
LEMMA WeekOn ==
    ASSUME NEW rows \in Seq(ShiftRows), NEW h \in Int
    PROVE  On(rows, h + Week) <=> On(rows, h)
  <1> USE CalendarAssumption
  <1>1. ASSUME NEW r \in DOMAIN rows, NEW d \in Int
        PROVE  /\ StartOf(rows, r, d + Days) = StartOf(rows, r, d) + Week
               /\ EndOf(rows, r, d + Days) = EndOf(rows, r, d) + Week
               /\ Worked(rows, r, d + Days) <=> Worked(rows, r, d)
               /\ StartOf(rows, r, d) \in Int /\ EndOf(rows, r, d) \in Int /\ d + Days \in Int
    <2>1. Hours * (d + Days) = Hours * d + Week /\ Hours * d \in Int /\ Week \in Int
      <3>1. \A x, y \in Int : Hours * (x + y) = Hours * x + y * Hours
        OBVIOUS
      <3>2. QED
        BY <3>1 DEF Week
    <2>2. (d + Days) % Days = d % Days
      <3> DEFINE m == d \div Days
                 n == d % Days
                 e == d + Days
      <3>1. d = Days * m + n /\ m \in Int /\ n \in 0..(Days - 1) /\ Days \in Nat \ {0}
        <4>1. Days \in Nat \ {0}
          OBVIOUS
        <4>2. QED
          BY <4>1, Divided
      <3> HIDE DEF m, n
      <3>2. e = Days * (m + 1) + n /\ m + 1 \in Int /\ e \in Int
        <4>1. Days * (m + 1) = Days * m + Days /\ Days * m \in Int
          BY <3>1
        <4>2. QED
          BY <3>1, <4>1
      <3> HIDE DEF e
      <3>3. e % Days = n
        <4> DEFINE m1 == m + 1
        <4>1. m1 \in Int /\ e = Days * m1 + n
          BY <3>2
        <4> HIDE DEF m1
        <4>2. QED
          BY <3>1, <3>2, <4>1, DivisionIs
      <3>4. QED
        BY <3>3 DEF e, n
    <2>3. rows[r].starts \in Int /\ rows[r].ends \in Int
      BY RowIs DEF Clock
    <2>4. /\ StartOf(rows, r, d + Days) = StartOf(rows, r, d) + Week
          /\ EndOf(rows, r, d + Days) = EndOf(rows, r, d) + Week
          /\ StartOf(rows, r, d) \in Int /\ EndOf(rows, r, d) \in Int
      <3> DEFINE x == Hours * d
                 y == Hours * (d + Days)
                 a == rows[r].starts
                 b == rows[r].ends
      <3>1. x \in Int /\ y = x + Week /\ Week \in Int /\ a \in Int /\ b \in Int
        BY <2>1, <2>3
      <3> HIDE DEF x, y, a, b
      <3>2. /\ StartOf(rows, r, d) = x + a /\ EndOf(rows, r, d) = (IF b <= a THEN x + Hours ELSE x) + b
            /\ StartOf(rows, r, d + Days) = y + a /\ EndOf(rows, r, d + Days) = (IF b <= a THEN y + Hours ELSE y) + b
        BY DEF StartOf, EndOf, x, y, a, b
      <3>3. QED
        BY <3>1, <3>2
    <2>5. QED
      BY <2>2, <2>4 DEF Worked
  <1>2. Week \in Int
    BY DEF Week
  <1>3. ASSUME On(rows, h) PROVE On(rows, h + Week)
    <2>1. PICK r \in DOMAIN rows, d \in Int : Worked(rows, r, d) /\ StartOf(rows, r, d) <= h /\ h < EndOf(rows, r, d)
      BY <1>3 DEF On
    <2>2. /\ Worked(rows, r, d + Days) /\ d + Days \in Int
          /\ StartOf(rows, r, d + Days) <= h + Week /\ h + Week < EndOf(rows, r, d + Days)
      <3>1. PICK s, e : s = StartOf(rows, r, d) /\ e = EndOf(rows, r, d)
        OBVIOUS
      <3>2. s \in Int /\ e \in Int /\ s <= h /\ h < e
        BY <1>1, <2>1, <3>1
      <3>3. s + Week <= h + Week /\ h + Week < e + Week
        BY <1>2, <3>2
      <3>4. QED
        BY <1>1, <2>1, <3>1, <3>3
    <2>3. QED
      BY <2>2 DEF On
  <1>4. ASSUME On(rows, h + Week) PROVE On(rows, h)
    <2>1. PICK r \in DOMAIN rows, e \in Int :
            Worked(rows, r, e) /\ StartOf(rows, r, e) <= h + Week /\ h + Week < EndOf(rows, r, e)
      BY <1>4 DEF On
    <2>2. e - Days \in Int /\ (e - Days) + Days = e
      OBVIOUS
    <2>3. PICK d \in Int : d + Days = e
      BY <2>2
    <2>4. Worked(rows, r, d) /\ StartOf(rows, r, d) <= h /\ h < EndOf(rows, r, d)
      <3>1. PICK s, f : s = StartOf(rows, r, d) /\ f = EndOf(rows, r, d)
        OBVIOUS
      <3>2. s \in Int /\ f \in Int /\ s + Week <= h + Week /\ h + Week < f + Week
        BY <1>1, <2>1, <2>3, <3>1
      <3>3. s <= h /\ h < f
        BY <1>2, <3>2
      <3>4. QED
        BY <1>1, <2>1, <2>3, <3>1, <3>3
    <2>5. QED
      BY <2>4 DEF On
  <1>5. QED
    BY <1>3, <1>4

\* Until the engine looks at its calendar again nobody comes or goes.
LEMMA NextIs ==
    ASSUME NEW rows \in Seq(ShiftRows), NEW h \in Nat, h >= Hours
    PROVE  LET n == NextChange(rows, h) IN
           /\ n \in Nat /\ h < n /\ n <= h + Week
           /\ \A x \in h..(n - 1) : On(rows, x) <=> On(rows, h)
  <1> USE CalendarAssumption
  <1> DEFINE day == Instances(rows, Midnight(h) - Hours, Days + 1)
             edges == {e \in UNION {{i.starts, i.ends} : i \in day} : e > h}
             n == NextChange(rows, h)
  <1>1. PICK q \in Int, c \in Clock : h = Hours * q + c /\ Midnight(h) = Hours * q /\ Hours * q \in Int
    <2>1. h \in Int
      OBVIOUS
    <2>2. QED
      BY <2>1, InstantIs
  <1>2. c \in 0..(Hours - 1) /\ Midnight(h) - Hours = Hours * (q - 1) /\ q - 1 \in Int /\ Days + 1 \in Nat
    BY <1>1 DEF Clock
  <1>3. n = IF edges = {} THEN h + Hours ELSE Min(edges)
    BY DEF NextChange
  <1>4. \A e : e \in edges <=> /\ e > h
                               /\ \E d \in (q - 1)..(q + Days - 1), r \in DOMAIN rows :
                                    Worked(rows, r, d) /\ e \in {StartOf(rows, r, d), EndOf(rows, r, d)}
    <2>1. \A i : i \in day <=> \E d \in (q - 1)..((q - 1) + (Days + 1) - 1), r \in DOMAIN rows :
            Worked(rows, r, d) /\ i = [row |-> r, starts |-> StartOf(rows, r, d), ends |-> EndOf(rows, r, d)]
      <3>1. PICK p \in Int, k \in Nat : p = q - 1 /\ k = Days + 1
        BY <1>2
      <3>2. \A i : i \in Instances(rows, Hours * p, k) <=> \E d \in p..(p + k - 1), r \in DOMAIN rows :
              Worked(rows, r, d) /\ i = [row |-> r, starts |-> StartOf(rows, r, d), ends |-> EndOf(rows, r, d)]
        BY InstancesAre
      <3>3. day = Instances(rows, Hours * p, k)
        BY <1>2, <3>1
      <3> HIDE DEF day
      <3>4. QED
        BY <3>1, <3>2, <3>3
    <2>2. (q - 1)..((q - 1) + (Days + 1) - 1) = (q - 1)..(q + Days - 1)
      BY <1>2
    <2> HIDE DEF day
    <2>3. \A e : e \in edges <=> e > h /\ \E i \in day : e = i.starts \/ e = i.ends
      OBVIOUS
    <2> HIDE DEF edges
    <2>4. TAKE e
    <2>5. ASSUME NEW i \in day, e = i.starts \/ e = i.ends
          PROVE  \E d \in (q - 1)..(q + Days - 1), r \in DOMAIN rows :
                   Worked(rows, r, d) /\ e \in {StartOf(rows, r, d), EndOf(rows, r, d)}
      BY <2>1, <2>2, <2>5
    <2>6. ASSUME NEW d \in (q - 1)..(q + Days - 1), NEW r \in DOMAIN rows,
                 Worked(rows, r, d), e \in {StartOf(rows, r, d), EndOf(rows, r, d)}
          PROVE  \E i \in day : e = i.starts \/ e = i.ends
      <3> DEFINE i == [row |-> r, starts |-> StartOf(rows, r, d), ends |-> EndOf(rows, r, d)]
      <3>1. i \in day
        BY <2>1, <2>2, <2>6
      <3>2. e = i.starts \/ e = i.ends
        BY <2>6
      <3>3. QED
        BY <3>1, <3>2
    <2>7. QED
      BY <2>3, <2>5, <2>6
  <1>5. \A r \in DOMAIN rows, d \in Int :
          /\ Hours * d \in Int /\ StartOf(rows, r, d) \in Int /\ EndOf(rows, r, d) \in Int
          /\ Hours * d <= StartOf(rows, r, d) /\ StartOf(rows, r, d) < Hours * d + Hours
          /\ StartOf(rows, r, d) < EndOf(rows, r, d) /\ EndOf(rows, r, d) < Hours * d + Hours + Hours
    BY SpanOf
  <1> HIDE DEF day, edges, n
  <1>6. edges \subseteq Nat
    <2>1. SUFFICES ASSUME NEW e \in edges PROVE e \in Nat
      OBVIOUS
    <2>2. PICK d \in (q - 1)..(q + Days - 1), r \in DOMAIN rows : e \in {StartOf(rows, r, d), EndOf(rows, r, d)}
      BY <1>4
    <2>3. e \in Int /\ e > h
      <3>1. d \in Int
        BY <1>2
      <3>2. StartOf(rows, r, d) \in Int /\ EndOf(rows, r, d) \in Int
        BY <1>5, <3>1
      <3>3. QED
        BY <1>4, <2>2, <3>2
    <2>4. QED
      BY <2>3
  <1>7. \A e \in edges : e > h
    BY <1>4
  <1>8. edges # {} => n \in edges /\ \A e \in edges : n <= e
    BY <1>3, <1>6, MinIs
  <1>9. n \in Nat /\ h < n
    BY <1>3, <1>6, <1>7, <1>8
  <1> DEFINE far == Hours * (q + Days)
  <1>10. far \in Int /\ far = Hours * q + Week /\ Week \in Int /\ Hours * q + Hours + Hours <= far
    <2>1. \A x, y \in Int : Hours * (x + y) = Hours * x + y * Hours
      OBVIOUS
    <2>2. far = Hours * q + Week /\ Week = Hours * Days
      BY <2>1 DEF Week
    <2>3. Hours * Days >= Hours + Hours
      <3>1. Hours * 1 + Hours <= Hours * Days
        BY Multiple
      <3>2. QED
        BY <3>1
    <2>4. Hours * Days \in Int
      OBVIOUS
    <2>5. QED
      BY <1>1, <2>2, <2>3, <2>4
  <1> HIDE DEF far
  \* Nothing begins beyond the search before the engine looks again.
  <1>11. n <= far
    <2>1. CASE edges = {}
      BY <1>1, <1>2, <1>3, <1>10, <2>1
    <2>2. CASE edges # {}
      <3>1. PICK d \in (q - 1)..(q + Days - 1), r \in DOMAIN rows :
              Worked(rows, r, d) /\ n \in {StartOf(rows, r, d), EndOf(rows, r, d)}
        BY <1>4, <1>8, <2>2
      <3>2. CASE d <= q
        <4>1. Hours * d <= Hours * q
          <5>1. CASE d = q
            BY <1>1, <5>1
          <5>2. CASE d < q
            <6>1. Hours * d + Hours <= Hours * q
              BY <5>2, Multiple
            <6>2. QED
              BY <1>1, <1>5, <6>1
          <5>3. QED
            BY <3>2, <5>1, <5>2
        <4>2. n < Hours * d + Hours + Hours
          <5>1. PICK s, e : s = StartOf(rows, r, d) /\ e = EndOf(rows, r, d)
            OBVIOUS
          <5>2. /\ Hours * d \in Int /\ s \in Int /\ e \in Int /\ s < Hours * d + Hours
                /\ e < Hours * d + Hours + Hours /\ n \in {s, e}
            BY <1>5, <3>1, <5>1
          <5>3. QED
            BY <5>2
        <4>3. Hours * d \in Int
          BY <1>5
        <4>4. QED
          BY <1>1, <1>9, <1>10, <4>1, <4>2, <4>3
      <3>3. CASE d > q
        <4>1. Hours * q + Hours <= Hours * d /\ Hours * d + Hours <= far
          BY <3>3, Multiple DEF far
        <4>2. PICK s : s = StartOf(rows, r, d)
          OBVIOUS
        <4>3. s \in Int /\ Hours * d <= s /\ s < Hours * d + Hours /\ Hours * d \in Int
          BY <1>5, <4>2
        <4>4. s > h
          BY <1>1, <1>2, <4>1, <4>3
        <4>5. s \in edges
          BY <1>4, <3>1, <4>2, <4>4
        <4>6. n <= s
          BY <1>8, <4>5
        <4>7. QED
          BY <1>9, <1>10, <4>1, <4>3, <4>6
      <3>4. QED
        BY <3>2, <3>3
    <2>3. QED
      BY <2>1, <2>2
  <1>12. n <= h + Week
    BY <1>1, <1>2, <1>9, <1>10, <1>11
  <1>13. ASSUME NEW x \in h..(n - 1) PROVE On(rows, x) <=> On(rows, h)
    <2>1. x \in Int /\ h <= x /\ x < n
      BY <1>9
    <2>2. ASSUME NEW e, e \in edges PROVE x < e
      <3>1. n <= e /\ e \in Int
        BY <1>6, <1>8, <2>2
      <3>2. QED
        BY <1>9, <2>1, <3>1
    <2>3. ASSUME NEW r \in DOMAIN rows, NEW d \in Int, Worked(rows, r, d),
                 NEW s, NEW e, s = StartOf(rows, r, d), e = EndOf(rows, r, d)
          PROVE  (s <= x /\ x < e) <=> (s <= h /\ h < e)
      <3>1. /\ s \in Int /\ e \in Int /\ s < e /\ Hours * d \in Int /\ Hours * d <= s
            /\ e < Hours * d + Hours + Hours
        BY <1>5, <2>3
      <3>2. CASE d < q - 1
        <4>1. Hours * d + Hours <= Hours * (q - 1)
          BY <1>2, <3>2, Multiple
        <4>2. e < Hours * q /\ Hours * (q - 1) = Hours * q - Hours
          BY <1>1, <1>2, <3>1, <4>1
        <4>3. QED
          BY <1>1, <1>2, <2>1, <3>1, <4>2
      <3>3. CASE d \in (q - 1)..(q + Days - 1)
        <4>1. s > h => x < s
          BY <1>4, <2>2, <2>3, <3>3
        <4>2. e > h => x < e
          BY <1>4, <2>2, <2>3, <3>3
        <4>3. QED
          BY <2>1, <3>1, <4>1, <4>2
      <3>4. CASE d >= q + Days
        <4>1. far <= Hours * d
          <5>1. CASE d = q + Days
            BY <1>10, <5>1 DEF far
          <5>2. CASE q + Days < d
            <6>1. far + Hours <= Hours * d
              BY <5>2, Multiple DEF far
            <6>2. QED
              BY <1>10, <3>1, <6>1
          <5>3. QED
            BY <3>4, <5>1, <5>2
        <4>2. n <= s
          BY <1>9, <1>10, <1>11, <3>1, <4>1
        <4>3. QED
          BY <1>9, <2>1, <3>1, <4>2
      <3>5. QED
        BY <3>2, <3>3, <3>4
    <2>4. QED
      BY <2>3 DEF On
  <1>14. QED
    BY <1>9, <1>12, <1>13 DEF n

\* The period of a KPI holds the present, whatever rows there are.
LEMMA BoundsHold ==
    ASSUME NEW rows \in Seq(ShiftRows), NEW h \in Int
    PROVE  LET bounds == ShiftBounds(rows, h) IN
           bounds[1] <= h /\ h < bounds[2] /\ bounds[2] - bounds[1] <= Hours
  <1> USE CalendarAssumption
  <1>1. PICK q \in Int, c \in Clock : h = Hours * q + c /\ Midnight(h) = Hours * q /\ Hours * q \in Int /\ h % Hours = c
    BY InstantIs
  <1>2. PICK m \in Int : m = Midnight(h) /\ h = m + c /\ c \in 0..(Hours - 1)
    BY <1>1 DEF Clock
  <1>3. CASE RowAt(rows, h) = 0
    <2>1. ShiftBounds(rows, h) = <<m, m + Hours>>
      BY <1>2, <1>3 DEF ShiftBounds, Day
    <2>2. QED
      BY <1>2, <2>1
  <1>4. CASE RowAt(rows, h) # 0
    <2> DEFINE in == {r \in DOMAIN rows : Weekday(h) \in rows[r].days /\ Within(h % Hours, rows[r].starts, rows[r].ends)}
    <2>1. RowAt(rows, h) \in in
      <3>1. in \subseteq Nat /\ RowAt(rows, h) = IF in = {} THEN 0 ELSE Min(in)
        BY DEF RowAt
      <3> HIDE DEF in
      <3>2. QED
        BY <1>4, <3>1, MinIs
    <2>2. PICK r \in DOMAIN rows : r = RowAt(rows, h) /\ Within(c, rows[r].starts, rows[r].ends)
      BY <1>1, <2>1
    <2>3. PICK a, b : a = rows[r].starts /\ b = rows[r].ends
      OBVIOUS
    <2>4. a \in 0..(Hours - 1) /\ b \in 0..(Hours - 1)
      BY <2>3, RowIs DEF Clock
    <2>5. IF a <= b THEN a <= c /\ c < b ELSE c >= a \/ c < b
      BY <2>2, <2>3 DEF Within
    <2>6. PICK first : first = IF b <= a /\ c < b THEN m - Hours ELSE m
      OBVIOUS
    <2>7. PICK last : last = IF b <= a THEN first + Hours + b ELSE first + b
      OBVIOUS
    <2>8. ShiftBounds(rows, h) = <<first + a, last>>
      BY <1>1, <1>2, <1>4, <2>2, <2>3, <2>6, <2>7 DEF ShiftBounds
    <2>9. first + a <= h /\ h < last /\ last - (first + a) <= Hours
      <3>0. /\ Hours \in Nat /\ m \in Int /\ a \in Int /\ b \in Int /\ c \in Int /\ h = m + c
            /\ 0 <= a /\ a < Hours /\ 0 <= b /\ b < Hours /\ 0 <= c /\ c < Hours
        BY <1>2, <2>4
      <3>1. CASE b <= a /\ c < b
        <4>1. first = m - Hours /\ last = m + b /\ first \in Int /\ last \in Int
          BY <2>6, <2>7, <3>0, <3>1
        <4>2. QED
          BY <3>0, <3>1, <4>1
      <3>2. CASE b <= a /\ ~(c < b)
        <4>1. first = m /\ last = m + Hours + b /\ first \in Int /\ last \in Int
          BY <2>6, <2>7, <3>0, <3>2
        <4>2. a <= c
          BY <1>2, <2>4, <2>5, <3>2
        <4>3. QED
          BY <3>0, <3>2, <4>1, <4>2
      <3>3. CASE ~(b <= a)
        <4>1. first = m /\ last = m + b /\ first \in Int /\ last \in Int
          BY <2>6, <2>7, <3>0, <3>3
        <4>2. a <= c /\ c < b
          BY <1>2, <2>4, <2>5, <3>3
        <4>3. QED
          BY <3>0, <3>3, <4>1, <4>2
      <3>4. QED
        BY <3>1, <3>2, <3>3
    <2>10. QED
      BY <2>8, <2>9
  <1>5. QED
    BY <1>3, <1>4

\* Where the two rules do not differ, the rollup has a shift exactly if somebody
\* is at work, and it is one of the day on which it began.
LEMMA RollupIs ==
    ASSUME NEW rows \in Seq(ShiftRows), NEW h \in Int,
           \A r \in DOMAIN rows : /\ rows[r].starts # rows[r].ends
                                  /\ rows[r].ends < rows[r].starts => rows[r].ends <= h % Hours
    PROVE  /\ RowAt(rows, h) # 0 <=> On(rows, h)
           /\ RowAt(rows, h) # 0 => Weekday(ShiftBounds(rows, h)[1]) \in rows[RowAt(rows, h)].days
  <1> USE CalendarAssumption
  <1> DEFINE in == {r \in DOMAIN rows : Weekday(h) \in rows[r].days /\ Within(h % Hours, rows[r].starts, rows[r].ends)}
  <1>1. PICK q \in Int, c \in Clock : /\ h = Hours * q + c /\ Midnight(h) = Hours * q /\ Hours * q \in Int
                                      /\ h % Hours = c /\ Weekday(h) = q % Days
    BY InstantIs
  <1>2. PICK m \in Int : m = Hours * q /\ h = m + c /\ c \in 0..(Hours - 1)
    BY <1>1 DEF Clock
  <1>3. ASSUME NEW r \in DOMAIN rows
        PROVE  /\ Within(c, rows[r].starts, rows[r].ends) <=> StartOf(rows, r, q) <= h /\ h < EndOf(rows, r, q)
               /\ \A d \in Int : StartOf(rows, r, d) <= h /\ h < EndOf(rows, r, d) => d = q
    <2>1. PICK a, b : a = rows[r].starts /\ b = rows[r].ends
      OBVIOUS
    <2>2. /\ a \in 0..(Hours - 1) /\ b \in 0..(Hours - 1) /\ a # b /\ (b < a => b <= c)
      BY <1>1, <2>1, RowIs DEF Clock
    <2>3. Within(c, a, b) <=> (IF a <= b THEN a <= c /\ c < b ELSE c >= a \/ c < b)
      BY DEF Within
    <2>4. \A d, x : x = Hours * d => /\ StartOf(rows, r, d) = x + a
                                     /\ EndOf(rows, r, d) = (IF b <= a THEN x + Hours ELSE x) + b
      BY <2>1 DEF StartOf, EndOf
    <2>5. Within(c, a, b) <=> StartOf(rows, r, q) <= h /\ h < EndOf(rows, r, q)
      <3>1. StartOf(rows, r, q) = m + a /\ EndOf(rows, r, q) = (IF b <= a THEN m + Hours ELSE m) + b
        BY <1>2, <2>4
      <3>2. /\ a \in Int /\ b \in Int /\ c \in Int /\ m \in Int /\ h = m + c /\ Hours \in Int
            /\ 0 <= a /\ 0 <= b /\ 0 <= c /\ c < Hours
        BY <1>2, <2>2
      <3>3. CASE a < b
        <4>1. EndOf(rows, r, q) = m + b /\ (Within(c, a, b) <=> a <= c /\ c < b)
          BY <2>3, <3>1, <3>2, <3>3
        <4>2. QED
          BY <3>1, <3>2, <4>1
      <3>4. CASE b < a
        <4>1. EndOf(rows, r, q) = m + Hours + b /\ (Within(c, a, b) <=> a <= c)
          <5>1. b <= a /\ ~(a <= b) /\ ~(c < b)
            BY <2>2, <3>2, <3>4
          <5>2. Within(c, a, b) <=> c >= a
            BY <2>3, <5>1
          <5>3. QED
            BY <3>1, <3>2, <5>1, <5>2
        <4>2. QED
          BY <3>1, <3>2, <4>1
      <3>5. QED
        BY <2>2, <3>2, <3>3, <3>4
    <2>6. ASSUME NEW d \in Int, StartOf(rows, r, d) <= h, h < EndOf(rows, r, d), d # q PROVE FALSE
      <3>1. d = q - 1
        BY <1>1, <2>6, OnIs
      <3>2. Hours * (q - 1) + Hours <= Hours * q
        BY Multiple
      <3>3. PICK x \in Int : x = Hours * d /\ x + Hours <= m
        BY <1>2, <3>1, <3>2
      <3>4. EndOf(rows, r, d) = (IF b <= a THEN x + Hours ELSE x) + b
        BY <2>4, <3>3
      <3>5. CASE a < b
        BY <1>2, <2>2, <2>6, <3>3, <3>4, <3>5
      <3>6. CASE b < a
        BY <1>2, <2>2, <2>6, <3>3, <3>4, <3>6
      <3>7. QED
        BY <2>2, <3>5, <3>6
    <2>7. QED
      BY <2>1, <2>5, <2>6
  <1>4. \A r : r \in in <=> r \in DOMAIN rows /\ q % Days \in rows[r].days /\ Within(c, rows[r].starts, rows[r].ends)
    BY <1>1
  <1>5. in # {} <=> On(rows, h)
    <2>1. ASSUME NEW r \in in PROVE On(rows, h)
      BY <1>3, <1>4 DEF On, Worked
    <2>2. ASSUME NEW r \in DOMAIN rows, NEW d \in Int,
                 Worked(rows, r, d), StartOf(rows, r, d) <= h, h < EndOf(rows, r, d)
          PROVE  r \in in
      BY <1>3, <1>4, <2>2 DEF Worked
    <2> HIDE DEF in
    <2>3. QED
      BY <2>1, <2>2 DEF On
  <1>6. RowAt(rows, h) = (IF in = {} THEN 0 ELSE Min(in)) /\ in \subseteq Nat \ {0}
    <2>1. DOMAIN rows \subseteq Nat \ {0} /\ in \subseteq DOMAIN rows
      OBVIOUS
    <2>2. RowAt(rows, h) = (IF in = {} THEN 0 ELSE Min(in))
      BY DEF RowAt
    <2> HIDE DEF in
    <2>3. QED
      BY <2>1, <2>2
  <1>7. ASSUME in # {} PROVE RowAt(rows, h) \in in
    <2> HIDE DEF in
    <2>1. QED
      BY <1>6, <1>7, MinIs
  <1>8. RowAt(rows, h) # 0 <=> in # {}
    <2> HIDE DEF in
    <2>1. QED
      BY <1>6, <1>7
  <1>9. ASSUME RowAt(rows, h) # 0 PROVE Weekday(ShiftBounds(rows, h)[1]) \in rows[RowAt(rows, h)].days
    <2>1. PICK r \in DOMAIN rows : r = RowAt(rows, h) /\ q % Days \in rows[r].days
      BY <1>4, <1>7, <1>8, <1>9
    <2>2. rows[r].starts \in Clock /\ rows[r].ends \in Clock /\ rows[r].starts # rows[r].ends
      BY RowIs
    <2>3. ~(rows[r].ends <= rows[r].starts /\ c < rows[r].ends)
      <3>1. rows[r].ends < rows[r].starts => rows[r].ends <= c
        <4>1. h % Hours = c
          BY <1>1
        <4>2. rows[r].ends < rows[r].starts => rows[r].ends <= h % Hours
          OBVIOUS
        <4>3. QED
          BY <4>1, <4>2
      <3>2. c \in Int /\ rows[r].starts \in Int /\ rows[r].ends \in Int /\ rows[r].starts # rows[r].ends
        BY <2>2 DEF Clock
      <3>3. QED
        BY <3>1, <3>2
    <2>4. ShiftBounds(rows, h)[1] = Hours * q + rows[r].starts
      <3>1. Midnight(h) = m /\ h % Hours = c
        BY <1>1, <1>2
      <3>2. PICK last : ShiftBounds(rows, h) = <<m + rows[r].starts, last>>
        <4>1. ShiftBounds(rows, h) =
                <<m + rows[r].starts, IF rows[r].ends <= rows[r].starts THEN m + Hours + rows[r].ends ELSE m + rows[r].ends>>
          BY <1>9, <2>1, <2>3, <3>1 DEF ShiftBounds
        <4>2. QED
          BY <4>1
      <3>3. QED
        BY <1>2, <3>2
    <2>5. Weekday(Hours * q + rows[r].starts) = q % Days
      BY <2>2, InDay
    <2>6. QED
      BY <2>1, <2>4, <2>5
  <1>10. QED
    BY <1>5, <1>8, <1>9

-----------------------------------------------------------------------------
\* The engine is on shift as the wall says until it looks at its calendar again.
CalendarInv ==
    /\ hour \in Now /\ shifts \in Seq(ShiftRows) /\ Len(shifts) <= MaxShifts /\ onShift \in 0..Len(shifts)
    /\ wake \in Nat /\ hour < wake /\ wake <= hour + Week
    /\ \A x \in hour..(wake - 1) : onShift # 0 <=> On(shifts, x)

LEMMA NowIs ==
    /\ Week \in Nat \ {0} /\ Week >= Hours + Hours
    /\ \A h \in Now : h \in Nat /\ h >= Hours /\ h >= Week /\ h < Week + Week
    /\ \A h \in Nat : h >= Week /\ h < Week + Week => h \in Now
  <1> USE CalendarAssumption
  <1>1. Week \in Nat /\ Week >= Hours + Hours
    <2>1. Hours * 1 + Hours <= Hours * Days
      BY Multiple
    <2>2. Week = Hours * Days /\ Hours * Days \in Nat
      BY DEF Week
    <2>3. QED
      BY <2>1, <2>2
  <1>2. QED
    BY <1>1 DEF Now

\* A look at the calendar sees what is on, and until when.
LEMMA LookSees ==
    ASSUME NEW rows \in Seq(ShiftRows), Len(rows) <= MaxShifts, NEW h \in Now,
           hour' = h, shifts' = rows, onShift' = Active(rows, h), wake' = NextChange(rows, h)
    PROVE  CalendarInv'
  <1>1. h \in Nat /\ h >= Hours
    BY NowIs
  <1>2. Active(rows, h) \in 0..Len(rows) /\ (Active(rows, h) # 0 <=> On(rows, h))
    BY <1>1, ActiveIs
  <1>3. PICK n : n = NextChange(rows, h)
    OBVIOUS
  <1>4. n \in Nat /\ h < n /\ n <= h + Week /\ \A x \in h..(n - 1) : On(rows, x) <=> On(rows, h)
    BY <1>1, <1>3, NextIs
  <1>5. \A x \in h..(n - 1) : Active(rows, h) # 0 <=> On(rows, x)
    BY <1>2, <1>4
  <1>6. \A x : On(shifts, x)' <=> On(rows, x)
    BY DEF On, Worked, StartOf, EndOf
  <1>7. QED
    BY <1>2, <1>3, <1>4, <1>5, <1>6 DEF CalendarInv, Now, ShiftRows, Clock, Week

LEMMA CalendarInvHolds == CalendarInit => CalendarInv
  <1> SUFFICES ASSUME CalendarInit PROVE CalendarInv
    OBVIOUS
  <1>1. hour = Week /\ shifts = <<>> /\ onShift = 0 /\ wake = Week + 1
    BY DEF CalendarInit
  <1>2. \A x : ~On(shifts, x)
    BY <1>1 DEF On
  <1>3. Week \in Now /\ Week \in Nat \ {0}
    BY NowIs
  <1>4. QED
    BY <1>1, <1>2, <1>3, CalendarAssumption DEF CalendarInv

LEMMA CalendarInvKept == CalendarInv /\ [CalendarNext]_calendarVars => CalendarInv'
  <1> SUFFICES ASSUME CalendarInv, [CalendarNext]_calendarVars PROVE CalendarInv'
    OBVIOUS
  <1>1. /\ hour \in Now /\ shifts \in Seq(ShiftRows) /\ Len(shifts) <= MaxShifts /\ onShift \in 0..Len(shifts)
        /\ wake \in Nat /\ hour < wake /\ wake <= hour + Week
        /\ \A x \in hour..(wake - 1) : onShift # 0 <=> On(shifts, x)
        /\ hour \in Nat /\ Week \in Nat \ {0} /\ hour < Week + Week /\ hour >= Week
    BY NowIs DEF CalendarInv
  <1>2. ASSUME NEW r \in ShiftRows, CreateShift(r) PROVE CalendarInv'
    <2>1. PICK rows : rows = Append(shifts, r)
      OBVIOUS
    <2>2. rows \in Seq(ShiftRows) /\ Len(rows) <= MaxShifts
      BY <1>1, <1>2, <2>1, CalendarAssumption DEF CreateShift
    <2>3. hour' = hour /\ shifts' = rows /\ onShift' = Active(rows, hour) /\ wake' = NextChange(rows, hour)
      BY <1>2, <2>1 DEF CreateShift, NewCalendar
    <2>4. QED
      BY <1>1, <2>2, <2>3, LookSees
  <1>3. ASSUME NEW r \in DOMAIN shifts, DeleteShift(r) PROVE CalendarInv'
    <2>1. PICK rows : rows = RemoveAt(shifts, r)
      OBVIOUS
    <2>2. rows \in Seq(ShiftRows) /\ Len(rows) <= MaxShifts
      <3>1. r \in 1..Len(shifts) /\ Len(shifts) \in Nat
        BY <1>1
      <3>2. SubSeq(shifts, 1, r - 1) \in Seq(ShiftRows) /\ Len(SubSeq(shifts, 1, r - 1)) = r - 1
        BY <1>1, <3>1
      <3>3. /\ SubSeq(shifts, r + 1, Len(shifts)) \in Seq(ShiftRows)
            /\ Len(SubSeq(shifts, r + 1, Len(shifts))) = Len(shifts) - r
        BY <1>1, <3>1
      <3>4. rows \in Seq(ShiftRows) /\ Len(rows) = (r - 1) + (Len(shifts) - r)
        BY <2>1, <3>2, <3>3 DEF RemoveAt
      <3>5. QED
        BY <1>1, <3>1, <3>4, CalendarAssumption
    <2>3. hour' = hour /\ shifts' = rows /\ onShift' = Active(rows, hour) /\ wake' = NextChange(rows, hour)
      BY <1>3, <2>1 DEF DeleteShift, NewCalendar
    <2>4. QED
      BY <1>1, <2>2, <2>3, LookSees
  <1>4. CASE HourPasses
    <2>1. PICK next, back : /\ next = (IF hour + 1 \in Now THEN hour + 1 ELSE Week)
                            /\ back = IF hour + 1 \in Now THEN 0 ELSE Week
      OBVIOUS
    <2>2. next \in Now /\ next \in Nat /\ back \in {0, Week} /\ next = hour + 1 - back
      BY <1>1, <2>1, NowIs
    <2>3. /\ hour' = next /\ shifts' = shifts
          /\ IF wake - back = next
             THEN onShift' = Active(shifts, next) /\ wake' = NextChange(shifts, next)
             ELSE onShift' = onShift /\ wake' = wake - back
      BY <1>4, <2>1 DEF HourPasses
    <2>4. CASE wake - back = next
      BY <1>1, <2>2, <2>3, <2>4, LookSees
    <2>5. CASE wake - back # next
      <3>1. onShift' = onShift /\ wake' = wake - back
        BY <2>3, <2>5
      <3>2. wake - back \in Nat /\ next < wake - back /\ wake - back <= next + Week
        BY <1>1, <2>2, <2>5
      <3>3. ASSUME NEW x \in next..(wake - back - 1) PROVE onShift # 0 <=> On(shifts, x)
        <4>1. x + back \in hour..(wake - 1) /\ x \in Int
          BY <1>1, <2>2
        <4>2. On(shifts, x + back) <=> On(shifts, x)
          <5>1. CASE back = 0
            BY <4>1, <5>1
          <5>2. CASE back = Week
            BY <1>1, <4>1, <5>2, WeekOn
          <5>3. QED
            BY <2>2, <5>1, <5>2
        <4>3. QED
          BY <1>1, <4>1, <4>2
      <3>4. \A x : On(shifts, x)' <=> On(shifts, x)
        BY <2>3 DEF On, Worked, StartOf, EndOf
      <3>5. QED
        BY <1>1, <2>2, <2>3, <3>1, <3>2, <3>3, <3>4 DEF CalendarInv, Now, ShiftRows, Clock, Week
    <2>6. QED
      BY <2>4, <2>5
  <1>5. CASE UNCHANGED calendarVars
    BY <1>1, <1>5 DEF CalendarInv, calendarVars, On, Worked, StartOf, EndOf, Now, ShiftRows, Clock, Week
  <1>6. QED
    BY <1>2, <1>3, <1>4, <1>5 DEF CalendarNext

LEMMA CalendarInvGives == CalendarInv => CalendarTypeOK /\ ShiftsSound
  <1> SUFFICES ASSUME CalendarInv PROVE CalendarTypeOK /\ ShiftsSound
    OBVIOUS
  <1>1. /\ hour \in Now /\ shifts \in Seq(ShiftRows) /\ Len(shifts) <= MaxShifts /\ onShift \in 0..Len(shifts)
        /\ wake \in Nat /\ hour < wake /\ wake <= hour + Week
        /\ onShift # 0 <=> On(shifts, hour)
        /\ hour \in Nat /\ Week \in Nat \ {0} /\ hour < Week + Week /\ hour >= Week
    BY NowIs DEF CalendarInv
  <1>2. CalendarTypeOK
    <2>1. 4 * Week = Week + Week + Week + Week
      BY <1>1
    <2>2. QED
      BY <1>1, <2>1 DEF CalendarTypeOK
  <1>3. OnShiftWhenWorking
    <2>1. OnTheWall(shifts, hour) <=> onShift # 0
      BY <1>1, OnWall
    <2>2. QED
      BY <2>1 DEF OnShiftWhenWorking, OnTheWall, LastsFor
  <1>4. PeriodHoldsNow
    BY <1>1, BoundsHold DEF PeriodHoldsNow
  <1>5. RollupFollowsEngine
    <2>1. SUFFICES ASSUME ~RulesDiffer
                   PROVE  /\ RowAt(shifts, hour) # 0 <=> onShift # 0
                          /\ RowAt(shifts, hour) # 0 =>
                               Weekday(ShiftBounds(shifts, hour)[1]) \in shifts[RowAt(shifts, hour)].days
      BY DEF RollupFollowsEngine
    <2>2. hour % Hours \in Int
      <3>1. hour \in Int
        BY <1>1
      <3>2. QED
        BY <3>1, CalendarAssumption, Divided
    <2>3. ASSUME NEW r \in DOMAIN shifts
          PROVE  /\ shifts[r].starts # shifts[r].ends
                 /\ shifts[r].ends < shifts[r].starts => shifts[r].ends <= hour % Hours
      <3>1. shifts[r].ends \in Int
        BY <1>1, CalendarAssumption, RowIs DEF Clock
      <3>2. QED
        BY <2>1, <2>2, <3>1 DEF RulesDiffer
    <2>4. QED
      BY <1>1, <2>3, RollupIs
  <1>6. QED
    BY <1>2, <1>3, <1>4, <1>5 DEF ShiftsSound

\* The machines work when somebody is at work, and the rollup has a shift when the
\* engine has one, but after midnight and for a shift that ends when it starts; the
\* period it rolls up for holds the present (ShiftCalendar.active, next_change,
\* _within, _shift_bounds): for any hours of a day, any two days of a week or more,
\* and any shifts that come and go.
THEOREM CalendarStaysSound == CalendarSpec => [](CalendarTypeOK /\ ShiftsSound)
  <1>1. QED
    BY CalendarInvHolds, CalendarInvKept, CalendarInvGives, PTL DEF CalendarSpec

-----------------------------------------------------------------------------
(* The KPIs: a time spent in states is the number of instants in them. *)

\* The event in force at an instant.
IsInForce(x, t) == t \in Reported /\ t <= x /\ \A u \in Reported : u <= x => u <= t

LEMMA InForceIs ==
    ASSUME NEW x \in Int, NEW states, NoEvent \notin states
    PROVE  /\ InForce(x) \in states <=> \E t \in Reported : IsInForce(x, t) /\ events[t] \in states
           /\ \A t, u : IsInForce(x, t) /\ IsInForce(x, u) => t = u
  <1> DEFINE until == {u \in Reported : u <= x}
             last == Max(until)
  <1>1. Reported \subseteq Nat /\ until \subseteq Int
    BY KpiAssumption DEF Reported, Instants
  <1>2. IsFiniteSet(until)
    <2>1. IsFiniteSet(0..(LastTime - 1))
      BY KpiAssumption, FS_Interval
    <2>2. until \in SUBSET (0..(LastTime - 1))
      BY DEF Reported, Instants
    <2>3. QED
      BY <2>1, <2>2, FS_Subset
  <1>3. InForce(x) = IF until = {} THEN NoEvent ELSE events[last]
    BY DEF InForce
  <1>4. \A t, u : IsInForce(x, t) /\ IsInForce(x, u) => t = u
    BY <1>1 DEF IsInForce
  <1>5. CASE until = {}
    BY <1>3, <1>5 DEF IsInForce
  <1>6. CASE until # {}
    <2>1. last \in until /\ \A y \in until : last >= y
      BY <1>1, <1>2, <1>6, MaxIs
    <2> HIDE DEF last
    <2>2. IsInForce(x, last) /\ last \in Reported
      BY <1>1, <2>1 DEF IsInForce
    <2>3. \A t : IsInForce(x, t) => t = last
      BY <1>4, <2>2
    <2>4. QED
      BY <1>3, <1>4, <1>6, <2>2, <2>3
  <1>7. QED
    BY <1>5, <1>6

\* The span of an event in a period: from it or the period's start, to the next
\* event or the period's end.
BeginsAt(t, from)  == IF t > from THEN t ELSE from
EndsAt(t, from, to) ==
    LET s == StateEvents(from, to) IN IF Later(s, t) = {} THEN to ELSE Min(Later(s, t) \cup {to})
SpanIn(t, from, to) == BeginsAt(t, from)..(EndsAt(t, from, to) - 1)

LEMMA DurationsAre ==
    ASSUME NEW from, NEW to
    PROVE  \A d : d \in Durations(from, to) <=>
             \E t \in StateEvents(from, to) :
               /\ d = [at |-> t, seconds |-> EndsAt(t, from, to) - BeginsAt(t, from)]
               /\ d.seconds > 0
  BY DEF Durations, BeginsAt, EndsAt

\* A span holds the instants of the period at which its event is in force.
LEMMA SpanHolds ==
    ASSUME NEW from \in Instants, NEW to \in (from + 1)..LastTime
    PROVE  /\ \A t \in StateEvents(from, to) :
                /\ t \in Reported /\ t < to /\ EndsAt(t, from, to) \in Nat /\ BeginsAt(t, from) \in Nat
                /\ \A x \in Int : x \in SpanIn(t, from, to) <=> x \in from..(to - 1) /\ IsInForce(x, t)
           /\ \A x \in from..(to - 1) : \A t : IsInForce(x, t) => t \in StateEvents(from, to)
  <1> DEFINE s == StateEvents(from, to)
             before == {u \in Reported : u < from}
  <1>1. Reported \subseteq Nat /\ from \in Nat /\ to \in Nat /\ from < to /\ IsFiniteSet(before) /\ before \subseteq Int
    <2>1. Reported \in SUBSET (0..(LastTime - 1)) /\ IsFiniteSet(0..(LastTime - 1))
      BY KpiAssumption, FS_Interval DEF Reported, Instants
    <2>2. before \in SUBSET (0..(LastTime - 1))
      BY <2>1
    <2>3. from \in Nat /\ to \in Nat /\ from < to
      BY KpiAssumption DEF Instants
    <2>4. IsFiniteSet(before)
      BY <2>1, <2>2, FS_Subset
    <2>5. Reported \subseteq Nat /\ before \subseteq Int
      <3>1. Reported \subseteq Nat
        BY KpiAssumption DEF Reported, Instants
      <3>2. \A u \in before : u \in Nat
        BY <3>1
      <3>3. \A u \in before : u \in Int
        BY <3>2
      <3> HIDE DEF before
      <3>4. QED
        BY <3>1, <3>3
    <2>6. QED
      BY <2>3, <2>4, <2>5
  <1>2. \A t : t \in s <=> /\ t \in Reported /\ t < to
                           /\ t < from => \A u \in Reported : u < from => u <= t
    <2>1. s = {t \in Reported : from <= t /\ t < to} \cup (IF before = {} THEN {} ELSE {Max(before)})
      BY DEF StateEvents
    <2>2. before # {} => Max(before) \in before /\ \A y \in before : Max(before) >= y
      BY <1>1, MaxIs
    <2>3. PICK last : last = Max(before)
      OBVIOUS
    <2> HIDE DEF s
    <2>4. CASE before = {}
      <3>1. \A t : t \in s <=> t \in Reported /\ from <= t /\ t < to
        BY <2>1, <2>4
      <3>2. \A t \in Reported : ~(t < from)
        BY <2>4
      <3>3. TAKE t
      <3>4. CASE t \notin Reported
        BY <3>1, <3>4
      <3>5. CASE t \in Reported
        <4>1. t \in Nat /\ ~(t < from)
          BY <1>1, <3>2, <3>5
        <4>2. from <= t
          BY <1>1, <4>1
        <4>3. QED
          BY <3>1, <3>5, <4>1, <4>2
      <3>6. QED
        BY <3>4, <3>5
    <2>5. CASE before # {}
      <3>1. \A t : t \in s <=> (t \in Reported /\ from <= t /\ t < to) \/ t = last
        BY <2>1, <2>3, <2>5
      <3>2. last \in Reported /\ last < from /\ \A u \in Reported : u < from => last >= u
        BY <2>2, <2>3, <2>5
      <3>3. \A t \in Reported : t < from /\ (\A u \in Reported : u < from => u <= t) => t = last
        BY <1>1, <3>2
      <3>4. \A t \in Reported : t \in Nat
        BY <1>1
      <3>5. TAKE t
      <3>6. CASE t \notin Reported
        BY <3>1, <3>2, <3>6
      <3>7. CASE t \in Reported /\ t < from
        BY <1>1, <3>1, <3>2, <3>3, <3>4, <3>7
      <3>8. CASE t \in Reported /\ ~(t < from)
        BY <1>1, <3>1, <3>2, <3>4, <3>8
      <3>9. QED
        BY <3>6, <3>7, <3>8
    <2>6. QED
      BY <2>4, <2>5
  <1> HIDE DEF s
  <1>3. ASSUME NEW t \in s
        PROVE  /\ t \in Reported /\ t < to /\ EndsAt(t, from, to) \in Nat /\ BeginsAt(t, from) \in Nat
               /\ \A x \in Int : x \in SpanIn(t, from, to) <=> x \in from..(to - 1) /\ IsInForce(x, t)
    <2>1. t \in Reported /\ t \in Nat /\ t < to
      BY <1>1, <1>2
    <2>2. \A u : u \in Later(s, t) <=> u \in Reported /\ t < u /\ u < to
      <3>1. ASSUME NEW u \in Reported, t < u, u < to PROVE u \in s
        <4>1. ~(u < from)
          BY <1>1, <1>2, <2>1, <3>1
        <4>2. QED
          BY <1>1, <1>2, <3>1, <4>1
      <3>2. QED
        BY <1>1, <1>2, <2>1, <3>1 DEF Later
    <2>3. PICK e : e = EndsAt(t, from, to)
      OBVIOUS
    <2>4. PICK b : b = BeginsAt(t, from)
      OBVIOUS
    <2>5. b \in Nat /\ b >= t /\ b >= from /\ (b = t \/ b = from)
      BY <1>1, <2>1, <2>4 DEF BeginsAt
    <2>6. e \in Nat /\ e <= to /\ (\A u \in Reported : t < u => u >= e \/ u >= to) /\ (e = to \/ (e \in Reported /\ t < e))
      <3> DEFINE l == Later(s, t)
      <3>1. CASE l = {}
        BY <1>1, <2>1, <2>2, <2>3, <3>1 DEF EndsAt, s
      <3>2. CASE l # {}
        <4>1. l \cup {to} \subseteq Nat /\ l \cup {to} # {}
          BY <1>1, <2>2
        <4>2. e = Min(l \cup {to})
          BY <2>3, <3>2 DEF EndsAt, s
        <4> HIDE DEF l
        <4>3. e \in l \cup {to} /\ \A y \in l \cup {to} : e <= y
          BY <4>1, <4>2, MinIs
        <4>4. QED
          BY <1>1, <2>2, <4>1, <4>3 DEF l
      <3>3. QED
        BY <3>1, <3>2
    <2>7. ASSUME NEW x \in Int PROVE x \in b..(e - 1) <=> x \in from..(to - 1) /\ IsInForce(x, t)
      <3>1. ASSUME x \in b..(e - 1) PROVE x \in from..(to - 1) /\ IsInForce(x, t)
        <4>1. x >= b /\ x < e /\ x >= from /\ x < to /\ t <= x
          BY <1>1, <2>1, <2>5, <2>6, <3>1
        <4>2. ASSUME NEW u \in Reported, u <= x PROVE u <= t
          BY <1>1, <2>1, <2>6, <4>1, <4>2
        <4>3. QED
          BY <1>1, <2>1, <4>1, <4>2 DEF IsInForce
      <3>2. ASSUME x \in from..(to - 1), IsInForce(x, t) PROVE x \in b..(e - 1)
        <4>1. t <= x /\ from <= x /\ x < to /\ \A u \in Reported : u <= x => u <= t
          BY <1>1, <3>2 DEF IsInForce
        <4>2. x >= b
          BY <2>5, <4>1
        <4>3. x < e
          BY <1>1, <2>1, <2>6, <4>1
        <4>4. QED
          BY <2>5, <2>6, <4>2, <4>3
      <3>3. QED
        BY <3>1, <3>2
    <2>8. QED
      BY <2>1, <2>3, <2>4, <2>5, <2>6, <2>7 DEF SpanIn
  <1>4. ASSUME NEW x \in from..(to - 1), NEW t, IsInForce(x, t) PROVE t \in s
    BY <1>1, <1>2, <1>4 DEF IsInForce
  <1>5. QED
    BY <1>3, <1>4 DEF s

\* The fold of the community modules is the sum.
Spent(D) == MapThenSumSet(LAMBDA d : d.seconds, D)
Seconds(D) == [d \in D |-> d.seconds]

LEMMA SpentIsSum ==
    ASSUME NEW D, IsFiniteSet(D), \A d \in D : d.seconds \in Nat
    PROVE  Spent(D) = SumOver(Seconds(D), D)
  <1> DEFINE Adds(g) == g = [s \in SUBSET D |-> IF s = {} THEN 0
                               ELSE (CHOOSE x \in s : TRUE).seconds + g[s \ {CHOOSE x \in s : TRUE}]]
             c == CHOOSE g : Adds(g)
             f == Seconds(D)
  <1>1. \A d \in D : f[d] = d.seconds /\ f[d] \in Nat
    BY DEF Seconds
  <1> HIDE DEF f
  <1>2. Summed(f, D)
    BY <1>1, SumNatural
  <1>3. \A s \in SUBSET D : s # {} => Chosen(s) \in D
    BY ChosenIn
  <1>4. PICK g : IsSum(g, f, D)
    BY <1>2, SumExists
  <1>5. Adds(g)
    BY <1>1, <1>3, <1>4 DEF IsSum, Chosen
  <1>6. Adds(c)
    BY <1>5
  <1>7. IsSum(c, f, D)
    <2> HIDE DEF c
    <2> QED BY <1>1, <1>3, <1>6 DEF IsSum, Chosen
  <1>8. Spent(D) = c[D]
    BY DEF Spent, MapThenSumSet, MapThenFoldSet
  <1>9. QED
    BY <1>2, <1>7, <1>8, SumIs DEF f

\* The instants of a period at which one of some states is in force.
InStates(states, from, to) == {x \in from..(to - 1) : InForce(x) \in states}

\* What the spans of the states add up to is the number of those instants.
LEMMA SecondsAre ==
    ASSUME NEW from \in Instants, NEW to \in (from + 1)..LastTime, NEW states, NoEvent \notin states
    PROVE  /\ SecondsIn(states, from, to) = Cardinality(InStates(states, from, to))
           /\ IsFiniteSet(InStates(states, from, to))
           /\ SecondsIn(states, from, to) \in 0..LastTime
  <1> DEFINE D == {d \in Durations(from, to) : events[d.at] \in states}
             P == [d \in D |-> SpanIn(d.at, from, to)]
  <1>0. from \in Nat /\ to \in Nat /\ LastTime \in Nat /\ from < to /\ to <= LastTime
    BY KpiAssumption DEF Instants
  <1>1. \A d : d \in D <=> \E t \in StateEvents(from, to) :
                             /\ d = [at |-> t, seconds |-> EndsAt(t, from, to) - BeginsAt(t, from)]
                             /\ d.seconds > 0 /\ events[t] \in states
    BY DurationsAre
  <1>2. ASSUME NEW d \in D
        PROVE  /\ d.at \in StateEvents(from, to) /\ d.at \in Reported /\ events[d.at] \in states
               /\ d.seconds \in Nat /\ P[d] = SpanIn(d.at, from, to)
               /\ IsFiniteSet(P[d]) /\ Cardinality(P[d]) = d.seconds
    <2>1. PICK t \in StateEvents(from, to) :
            /\ d = [at |-> t, seconds |-> EndsAt(t, from, to) - BeginsAt(t, from)]
            /\ d.seconds > 0 /\ events[t] \in states
      BY <1>1
    <2>2. t \in Reported /\ EndsAt(t, from, to) \in Nat /\ BeginsAt(t, from) \in Nat
      BY SpanHolds
    <2>3. PICK b \in Nat, e \in Nat : b = BeginsAt(t, from) /\ e = EndsAt(t, from, to)
      BY <2>2
    <2>4. d.at = t /\ d.seconds = e - b /\ e - b > 0 /\ e - b \in Nat
      <3>1. d.at = t /\ d.seconds = e - b
        BY <2>1, <2>3
      <3>2. QED
        BY <2>1, <3>1
    <2>5. P[d] = b..(e - 1)
      BY <2>3, <2>4 DEF SpanIn
    <2>6. IsFiniteSet(b..(e - 1)) /\ Cardinality(b..(e - 1)) = e - b
      <3>1. e - 1 \in Int /\ ~(b > e - 1) /\ e - 1 - b + 1 = e - b
        BY <2>4
      <3>2. QED
        BY <3>1, FS_Interval
    <2>7. P[d] = SpanIn(d.at, from, to)
      OBVIOUS
    <2>8. QED
      BY <2>1, <2>2, <2>4, <2>5, <2>6, <2>7
  <1>3. \A d, e \in D : d.at = e.at => d = e
    BY <1>1
  <1>4. IsFiniteSet(D)
    <2>1. IsFiniteSet(0..(LastTime - 1))
      BY <1>0, FS_Interval
    <2>2. IsFiniteSet(StateEvents(from, to))
      <3>1. \A t \in StateEvents(from, to) : t \in 0..(LastTime - 1)
        BY SpanHolds DEF Reported, Instants
      <3>2. StateEvents(from, to) \in SUBSET (0..(LastTime - 1))
        BY <3>1
      <3>3. QED
        BY <2>1, <3>2, FS_Subset
    <2> DEFINE at == [d \in D |-> d.at]
    <2>3. at \in Injection(D, StateEvents(from, to))
      <3> HIDE DEF D
      <3>1. at \in [D -> StateEvents(from, to)]
        BY <1>2
      <3>2. \A d, e \in D : at[d] = at[e] => d = e
        BY <1>3
      <3> HIDE DEF at
      <3>3. QED
        BY <3>1, <3>2 DEF Injection, IsInjective
    <2>4. QED
      BY <2>2, <2>3, FS_Injection
  <1> HIDE DEF D
  <1>5. \A d, e \in D : d # e => P[d] \cap P[e] = {}
    <2>1. SUFFICES ASSUME NEW d \in D, NEW e \in D, d # e, NEW x, x \in P[d] \cap P[e] PROVE FALSE
      OBVIOUS
    <2>2. x \in SpanIn(d.at, from, to) /\ x \in SpanIn(e.at, from, to) /\ x \in Int
      <3>1. x \in SpanIn(d.at, from, to) /\ x \in SpanIn(e.at, from, to)
        BY <1>2, <2>1
      <3>2. QED
        BY <1>2, <3>1, SpanHolds DEF SpanIn
    <2>3. IsInForce(x, d.at) /\ IsInForce(x, e.at)
      BY <1>2, <2>2, SpanHolds
    <2>4. d.at = e.at
      BY <2>2, <2>3, InForceIs
    <2>5. QED
      BY <1>3, <2>1, <2>4
  <1>6. Together(P, D) = InStates(states, from, to)
    <2>1. ASSUME NEW x \in Together(P, D) PROVE x \in InStates(states, from, to)
      <3>1. PICK d \in D : x \in SpanIn(d.at, from, to)
        BY <1>2 DEF Together
      <3>2. x \in Int
        BY <1>2, <3>1, SpanHolds DEF SpanIn
      <3>3. x \in from..(to - 1) /\ IsInForce(x, d.at)
        BY <1>2, <3>1, <3>2, SpanHolds
      <3>4. InForce(x) \in states
        BY <1>2, <3>2, <3>3, InForceIs
      <3>5. QED
        BY <3>3, <3>4 DEF InStates
    <2>2. ASSUME NEW x \in InStates(states, from, to) PROVE x \in Together(P, D)
      <3>1. x \in from..(to - 1) /\ x \in Int /\ InForce(x) \in states
        BY <1>0 DEF InStates
      <3>2. PICK t \in Reported : IsInForce(x, t) /\ events[t] \in states
        BY <3>1, InForceIs
      <3>3. t \in StateEvents(from, to)
        BY <3>1, <3>2, SpanHolds
      <3>4. PICK b, e : b = BeginsAt(t, from) /\ e = EndsAt(t, from, to)
        OBVIOUS
      <3>5. x \in b..(e - 1) /\ b \in Nat /\ e \in Nat
        BY <3>1, <3>2, <3>3, <3>4, SpanHolds DEF SpanIn
      <3>6. PICK d : d = [at |-> t, seconds |-> e - b]
        OBVIOUS
      <3>7. d.at = t /\ d.seconds = e - b
        BY <3>6
      <3>8. d.seconds > 0
        BY <3>5, <3>7
      <3>9. d \in D
        BY <1>1, <3>2, <3>3, <3>4, <3>6, <3>8
      <3>10. x \in P[d]
        BY <3>4, <3>5, <3>7, <3>9 DEF SpanIn
      <3>11. QED
        BY <3>9, <3>10 DEF Together
    <2>3. QED
      BY <2>1, <2>2
  <1>7. /\ IsFiniteSet(Together(P, D)) /\ Cardinality(Together(P, D)) = SumOver(Sizes(P, D), D)
        /\ Summed(Sizes(P, D), D)
    <2> HIDE DEF P
    <2>1. QED
      BY <1>2, <1>4, <1>5, PartsSum
  <1>8. SumOver(Sizes(P, D), D) = SumOver(Seconds(D), D)
    <2>1. \A d \in D : Sizes(P, D)[d] = Seconds(D)[d]
      BY <1>2 DEF Sizes, Seconds
    <2>2. QED
      BY <1>7, <2>1, SumSame
  <1>9. SecondsIn(states, from, to) = Spent(D)
    BY DEF SecondsIn, Spent, D
  <1>10. Spent(D) = SumOver(Seconds(D), D)
    BY <1>2, <1>4, SpentIsSum
  <1>11. Cardinality(InStates(states, from, to)) \in 0..LastTime
    <2>1. InStates(states, from, to) \in SUBSET (from..(to - 1))
      BY DEF InStates
    <2>2. IsFiniteSet(from..(to - 1)) /\ Cardinality(from..(to - 1)) = to - from
      <3>1. to - 1 \in Int /\ ~(from > to - 1) /\ to - 1 - from + 1 = to - from
        BY <1>0
      <3>2. QED
        BY <1>0, <3>1, FS_Interval
    <2>3. Cardinality(InStates(states, from, to)) <= to - from /\ IsFiniteSet(InStates(states, from, to))
      BY <2>1, <2>2, FS_Subset
    <2>4. Cardinality(InStates(states, from, to)) \in Nat
      BY <2>3, FS_CardinalityType
    <2>5. QED
      BY <1>0, <2>3, <2>4
  <1>12. QED
    BY <1>6, <1>7, <1>8, <1>9, <1>10, <1>11

-----------------------------------------------------------------------------
LEMMA DowntimeDoesAgree == KpiTypeOK => DowntimeAgrees
  <1> SUFFICES ASSUME KpiTypeOK, NEW from \in Instants, NEW to \in (from + 1)..LastTime
               PROVE  /\ IdleEnergy(from, to) <= Downtime(from, to)
                      /\ from..(to - 1) \subseteq metered => IdleEnergy(from, to) = Downtime(from, to)
                      /\ PlannedTime(from, to) = RunTime(from, to) + Downtime(from, to)
    BY DEF DowntimeAgrees
  <1> DEFINE run == InStates({"RUNNING"}, from, to)
             down == InStates({"DOWN", "IDLE"}, from, to)
             planned == InStates(States \ {"MAINTENANCE"}, from, to)
             drawn == {t \in metered : from <= t /\ t < to /\ InForce(t) \in {"IDLE", "DOWN"}}
  <1>1. /\ NoEvent \notin {"RUNNING"} /\ NoEvent \notin {"DOWN", "IDLE"}
        /\ NoEvent \notin States \ {"MAINTENANCE"}
    BY DEF NoEvent, States
  <1>2. RunTime(from, to) = Cardinality(run) /\ IsFiniteSet(run)
    BY <1>1, SecondsAre DEF RunTime
  <1>3. Downtime(from, to) = Cardinality(down) /\ IsFiniteSet(down)
    BY <1>1, SecondsAre DEF Downtime
  <1>4. PlannedTime(from, to) = Cardinality(planned)
    BY <1>1, SecondsAre DEF PlannedTime
  <1>5. IdleEnergy(from, to) = Cardinality(drawn)
    BY DEF IdleEnergy
  <1>6. planned = run \cup down /\ run \cap down = {}
    <2>1. States \ {"MAINTENANCE"} = {"RUNNING"} \cup {"DOWN", "IDLE"}
      BY DEF States
    <2>2. QED
      BY <2>1 DEF InStates
  \* A reading of idle time is of an instant the spans count, and each such has
  \* one when all are stored.
  <1>7. drawn \subseteq down /\ (from..(to - 1) \subseteq metered => drawn = down)
    <2>1. metered \subseteq Int /\ from \in Int /\ to \in Int
      BY KpiAssumption DEF KpiTypeOK, Instants
    <2>2. \A t : t \in down <=> t \in from..(to - 1) /\ InForce(t) \in {"IDLE", "DOWN"}
      BY DEF InStates
    <2>3. \A t : t \in drawn <=> t \in metered /\ t \in from..(to - 1) /\ InForce(t) \in {"IDLE", "DOWN"}
      <3>1. \A t \in metered : from <= t /\ t < to <=> t \in from..(to - 1)
        BY <2>1
      <3>2. QED
        BY <3>1
    <2> HIDE DEF drawn, down
    <2>4. QED
      BY <2>2, <2>3
  <1> HIDE DEF run, down, planned, drawn
  <1>8. Cardinality(drawn) <= Cardinality(down)
    BY <1>3, <1>7, FS_Subset
  <1>9. Cardinality(planned) = Cardinality(run) + Cardinality(down)
    <2>1. Cardinality(planned) = Cardinality(run) + Cardinality(down) - Cardinality(run \cap down)
      BY <1>2, <1>3, <1>6, FS_Union
    <2>2. Cardinality(run \cap down) = 0
      BY <1>6, FS_EmptySet
    <2>3. Cardinality(run) \in Nat /\ Cardinality(down) \in Nat
      BY <1>2, <1>3, FS_CardinalityType
    <2>4. QED
      BY <2>1, <2>2, <2>3
  <1>10. QED
    BY <1>2, <1>3, <1>4, <1>5, <1>7, <1>8, <1>9

Bucket == 0..(Buckets - 1)
Trend(from, to) == [b \in Bucket |-> TrendBucket(from, to, b)]
TrendSum(from, to) == MapThenSumSet(LAMBDA b : TrendBucket(from, to, b), 0..(Buckets - 1))

LEMMA TrendIsSum ==
    ASSUME NEW from, NEW to, \A b \in Bucket : TrendBucket(from, to, b) \in Nat
    PROVE  TrendSum(from, to) = SumOver(Trend(from, to), Bucket)
  <1> DEFINE Adds(g) == g = [s \in SUBSET Bucket |-> IF s = {} THEN 0
                               ELSE TrendBucket(from, to, CHOOSE x \in s : TRUE) + g[s \ {CHOOSE x \in s : TRUE}]]
             c == CHOOSE g : Adds(g)
             f == Trend(from, to)
  <1>1. \A b \in Bucket : f[b] = TrendBucket(from, to, b) /\ f[b] \in Nat
    BY DEF Trend
  <1> HIDE DEF f
  <1>2. Summed(f, Bucket)
    <2>1. IsFiniteSet(Bucket)
      BY KpiAssumption, FS_Interval DEF Bucket
    <2>2. QED
      BY <1>1, <2>1, SumNatural
  <1>3. \A s \in SUBSET Bucket : s # {} => Chosen(s) \in Bucket
    BY ChosenIn
  <1>4. PICK g : IsSum(g, f, Bucket)
    BY <1>2, SumExists
  <1>5. Adds(g)
    BY <1>1, <1>3, <1>4 DEF IsSum, Chosen
  <1>6. Adds(c)
    BY <1>5
  <1>7. IsSum(c, f, Bucket)
    <2> HIDE DEF c
    <2> QED BY <1>1, <1>3, <1>6 DEF IsSum, Chosen
  <1>8. TrendSum(from, to) = c[Bucket]
    BY DEF TrendSum, MapThenSumSet, MapThenFoldSet, Bucket
  <1>9. QED
    BY <1>2, <1>7, <1>8, SumIs DEF f

LEMMA TrendDoesAddUp == TrendAddsUp
  <1> SUFFICES ASSUME NEW from \in Instants, NEW to \in (from + 1)..LastTime, (to - from) % Buckets = 0
               PROVE  RunTime(from, to) = TrendSum(from, to)
    BY DEF TrendAddsUp, TrendSum
  <1> USE KpiAssumption
  <1> DEFINE step == (to - from) \div Buckets
             At(b) == from + step * b
             P == [b \in Bucket |-> InStates({"RUNNING"}, At(b), At(b + 1))]
  <1>1. from \in Nat /\ to \in Nat /\ from < to /\ to <= LastTime /\ LastTime \in Nat /\ Buckets \in Nat \ {0}
    BY DEF Instants
  <1>2. step \in Nat /\ to = from + step * Buckets
    <2> DEFINE a == to - from
    <2>1. a \in Nat /\ a \in Int
      BY <1>1
    <2> HIDE DEF a
    <2>2. a = Buckets * (a \div Buckets) + (a % Buckets) /\ a \div Buckets \in Nat
      BY <1>1, <2>1, Divided
    <2>3. a % Buckets = 0 /\ a \div Buckets = step
      BY DEF a
    <2> HIDE DEF step
    <2>4. a = step * Buckets /\ step \in Nat
      <3>1. step \in Nat /\ a = Buckets * step + 0
        BY <2>2, <2>3
      <3>2. Buckets * step = step * Buckets /\ Buckets * step \in Int
        BY <1>1, <3>1
      <3>3. QED
        BY <3>1, <3>2
    <2>5. QED
      BY <1>1, <2>4 DEF a
  <1> HIDE DEF step
  <1>3. step # 0
    <2>1. SUFFICES ASSUME step = 0 PROVE FALSE
      OBVIOUS
    <2>2. step * Buckets = 0
      BY <1>1, <2>1
    <2>3. QED
      BY <1>1, <1>2, <2>2
  <1>4. ASSUME NEW b \in Int, NEW c \in Int, b < c PROVE step * b + step <= step * c /\ step * b \in Int /\ step * c \in Int
    BY <1>2, <1>4, Multiple
  <1>5. ASSUME NEW b \in Bucket
        PROVE  /\ At(b) \in Nat /\ At(b + 1) \in Nat /\ At(b + 1) = At(b) + step /\ from <= At(b) /\ At(b + 1) <= to
               /\ At(b) \in Instants /\ At(b + 1) \in (At(b) + 1)..LastTime
    <2>1. b \in Nat /\ b < Buckets /\ Buckets \in Int
      BY <1>1 DEF Bucket
    <2>2. step * b \in Nat /\ step * (b + 1) = step * b + step
      BY <1>2, <2>1
    <2>3. step * b + step <= step * Buckets /\ step * Buckets \in Int
      BY <1>4, <2>1
    <2>4. PICK x \in Nat : x = step * b
      BY <2>2
    <2>5. At(b) = from + x /\ At(b + 1) = from + (x + step)
      BY <2>2, <2>4
    <2>6. x + step <= to - from
      BY <1>1, <1>2, <2>3, <2>4
    <2>7. QED
      BY <1>1, <1>2, <1>3, <2>5, <2>6 DEF Instants
  <1>6. ASSUME NEW b \in Bucket
        PROVE  /\ TrendBucket(from, to, b) = Cardinality(P[b]) /\ IsFiniteSet(P[b])
               /\ TrendBucket(from, to, b) \in Nat
               /\ P[b] = InStates({"RUNNING"}, At(b), At(b + 1))
    <2>1. PICK f, e : f \in Instants /\ e \in (f + 1)..LastTime /\ f = At(b) /\ e = At(b + 1)
      BY <1>5
    <2>2. NoEvent \notin {"RUNNING"}
      BY DEF NoEvent
    <2>3. /\ SecondsIn({"RUNNING"}, f, e) = Cardinality(InStates({"RUNNING"}, f, e))
          /\ IsFiniteSet(InStates({"RUNNING"}, f, e))
      BY <2>1, <2>2, SecondsAre
    <2>4. TrendBucket(from, to, b) = SecondsIn({"RUNNING"}, f, e)
      BY <2>1 DEF TrendBucket, RunTime, step
    <2>5. Cardinality(InStates({"RUNNING"}, f, e)) \in Nat
      BY <2>3, FS_CardinalityType
    <2>6. QED
      BY <2>1, <2>3, <2>4, <2>5
  <1>7. \A b \in Bucket : \A x : x \in P[b] <=> x \in At(b)..(At(b + 1) - 1) /\ InForce(x) \in {"RUNNING"}
    BY <1>6 DEF InStates
  <1>8. \A b, c \in Bucket : b # c => P[b] \cap P[c] = {}
    <2>1. SUFFICES ASSUME NEW b \in Bucket, NEW c \in Bucket, b < c, NEW x, x \in P[b], x \in P[c] PROVE FALSE
      <3>1. \A b \in Bucket : b \in Int
        BY DEF Bucket
      <3>2. \A b, c \in Bucket : b # c => b < c \/ c < b
        BY <3>1
      <3>3. QED
        BY <3>2
    <2>2. step * b + step <= step * c /\ step * b \in Int /\ step * c \in Int
      BY <1>4, <2>1 DEF Bucket
    <2>3. At(b + 1) = At(b) + step /\ At(b) \in Nat /\ At(b + 1) \in Nat /\ At(c) \in Nat /\ At(c + 1) \in Nat
      BY <1>5
    <2>4. x \in At(b)..(At(b + 1) - 1) /\ x \in At(c)..(At(c + 1) - 1)
      BY <1>7, <2>1
    <2>5. At(b + 1) <= At(c)
      BY <1>1, <1>2, <2>2, <2>3
    <2> HIDE DEF At
    <2>6. QED
      BY <2>3, <2>4, <2>5
  <1>9. Together(P, Bucket) = InStates({"RUNNING"}, from, to)
    <2>1. ASSUME NEW x \in Together(P, Bucket) PROVE x \in InStates({"RUNNING"}, from, to)
      <3>1. PICK b \in Bucket : x \in P[b]
        BY DEF Together
      <3>2. x \in At(b)..(At(b + 1) - 1) /\ InForce(x) \in {"RUNNING"}
        BY <1>7, <3>1
      <3>3. At(b) \in Nat /\ At(b + 1) \in Nat /\ from <= At(b) /\ At(b + 1) <= to
        BY <1>5
      <3> HIDE DEF At
      <3>4. x \in from..(to - 1)
        BY <1>1, <3>2, <3>3
      <3>5. QED
        BY <3>2, <3>4 DEF InStates
    <2>2. ASSUME NEW x \in InStates({"RUNNING"}, from, to) PROVE x \in Together(P, Bucket)
      <3>1. x \in from..(to - 1) /\ InForce(x) \in {"RUNNING"}
        BY DEF InStates
      <3>2. PICK y \in Nat : x = from + y /\ y < to - from
        <4>1. x - from \in Nat /\ x = from + (x - from) /\ x - from < to - from
          BY <1>1, <3>1
        <4>2. QED
          BY <4>1
      <3>3. PICK b \in Nat, r \in 0..(step - 1) : y = step * b + r
        <4>1. step \in Nat \ {0} /\ y \in Int
          BY <1>2, <1>3
        <4>2. y = step * (y \div step) + (y % step) /\ y % step \in 0..(step - 1) /\ y \div step \in Nat
          BY <4>1, Divided
        <4>3. QED
          BY <4>2
      <3>4. step * b \in Nat /\ step * (b + 1) = step * b + step
        BY <1>2
      <3>5. b < Buckets
        <4>1. SUFFICES ASSUME ~(b < Buckets) PROVE FALSE
          OBVIOUS
        <4>2. step * Buckets <= step * b /\ step * Buckets \in Int
          <5>1. CASE b = Buckets
            BY <1>1, <1>2, <5>1
          <5>2. CASE Buckets < b
            BY <1>1, <1>2, <1>4, <5>2
          <5>3. QED
            BY <1>1, <4>1, <5>1, <5>2
        <4>3. y < step * Buckets
          BY <1>1, <1>2, <3>2, <4>2
        <4>4. y >= step * b
          BY <1>2, <3>3, <3>4
        <4>5. QED
          BY <3>4, <4>2, <4>3, <4>4
      <3>6. b \in Bucket
        BY <1>1, <3>5 DEF Bucket
      <3>7. x \in At(b)..(At(b + 1) - 1)
        <4>1. PICK z \in Nat : z = step * b
          BY <3>4
        <4>2. At(b) = from + z /\ At(b + 1) = from + (z + step) /\ x = from + (z + r)
          BY <3>2, <3>3, <3>4, <4>1
        <4>3. QED
          BY <1>1, <1>2, <3>3, <4>2
      <3>8. x \in P[b]
        BY <1>7, <3>1, <3>6, <3>7
      <3>9. QED
        BY <3>6, <3>8 DEF Together
    <2>3. QED
      BY <2>1, <2>2
  <1>10. Cardinality(Together(P, Bucket)) = SumOver(Sizes(P, Bucket), Bucket) /\ Summed(Sizes(P, Bucket), Bucket)
    <2>1. IsFiniteSet(Bucket)
      BY <1>1, FS_Interval DEF Bucket
    <2> HIDE DEF P
    <2>2. QED
      BY <1>6, <1>8, <2>1, PartsSum
  <1>11. SumOver(Sizes(P, Bucket), Bucket) = SumOver(Trend(from, to), Bucket)
    <2>1. \A b \in Bucket : Sizes(P, Bucket)[b] = Trend(from, to)[b]
      BY <1>6 DEF Sizes, Trend
    <2> HIDE DEF P
    <2>2. QED
      BY <1>10, <2>1, SumSame
  <1>12. TrendSum(from, to) = SumOver(Trend(from, to), Bucket)
    BY <1>6, TrendIsSum
  <1>13. RunTime(from, to) = Cardinality(InStates({"RUNNING"}, from, to))
    BY SecondsAre DEF RunTime, NoEvent
  <1>14. QED
    BY <1>9, <1>10, <1>11, <1>12, <1>13

\* A rollup leaves one row of the day, whoever else rolls up.
KpiInv == KpiTypeOK /\ OneRow /\ \A r \in kpi : r.start = DayStart

LEMMA RunTimeTyped == RunTime(DayStart, LastTime) \in 0..LastTime
  <1>1. DayStart \in Instants /\ LastTime \in (DayStart + 1)..LastTime /\ NoEvent \notin {"RUNNING"}
    BY KpiAssumption DEF Instants, NoEvent
  <1>2. QED
    BY <1>1, SecondsAre DEF RunTime

LEMMA KpiInvHolds == KpiInit => KpiInv
  BY FS_EmptySet, KpiAssumption DEF KpiInit, KpiInv, KpiTypeOK, OneRow

LEMMA KpiInvKept == KpiInv /\ [KpiNext]_kpiVars => KpiInv'
  <1> SUFFICES ASSUME KpiInv, [KpiNext]_kpiVars PROVE KpiInv'
    OBVIOUS
  <1> USE DEF KpiInv, KpiTypeOK, OneRow, Instants, States, NoEvent, Resting
  <1>1. ASSUME NEW t \in Instants, NEW state \in States, EventStored(t, state) PROVE KpiInv'
    BY <1>1 DEF EventStored
  <1>2. ASSUME NEW t \in Instants, ReadingStored(t) PROVE KpiInv'
    BY <1>2 DEF ReadingStored
  <1>3. ASSUME TimePasses PROVE KpiInv'
    <2>1. elapsed' \in 0..LastTime
      BY <1>3, KpiAssumption DEF TimePasses
    <2>2. QED
      BY <1>3, <2>1 DEF TimePasses
  <1>4. ASSUME NEW w \in RollupWorkers, ComputeProduction(w) PROVE KpiInv'
    <2>1. rollup' \in [RollupWorkers -> {Resting} \cup 0..LastTime] /\ UNCHANGED <<elapsed, events, metered, kpi>>
      BY <1>4, RunTimeTyped DEF ComputeProduction
    <2>2. QED
      BY <2>1
  <1>5. ASSUME NEW w \in RollupWorkers, Upsert(w) PROVE KpiInv'
    <2>1. rollup[w] \in 0..LastTime
      BY <1>5 DEF Upsert
    <2>2. kpi' = {[start |-> DayStart, run |-> rollup[w]]}
      BY <1>5 DEF Upsert, NewValue
    <2>3. Cardinality(kpi') <= 1
      <3>1. Cardinality(kpi') = 1
        BY <2>2, FS_Singleton
      <3>2. QED
        BY <3>1
    <2>4. kpi' \subseteq [start : Instants, run : 0..LastTime] /\ \A r \in kpi' : r.start = DayStart
      BY <2>1, <2>2, KpiAssumption
    <2>5. rollup' \in [RollupWorkers -> {Resting} \cup 0..LastTime] /\ UNCHANGED <<elapsed, events, metered>>
      BY <1>5 DEF Upsert
    <2>6. QED
      BY <2>3, <2>4, <2>5
  <1>6. ASSUME NEW w \in RollupWorkers, RollupFails(w) PROVE KpiInv'
    BY <1>6 DEF RollupFails
  <1>7. CASE UNCHANGED kpiVars
    BY <1>7 DEF kpiVars
  <1>8. QED
    BY <1>1, <1>2, <1>3, <1>4, <1>5, <1>6, <1>7 DEF KpiNext

LEMMA KpiInvGives == KpiInv => KpiTypeOK /\ KpisAgree
  BY DowntimeDoesAgree, TrendDoesAddUp DEF KpiInv, KpisAgree

\* The spans of the events and the database's state at the readings give one
\* downtime over a window all of whose readings are stored, and the spans give no
\* less over any other, the day in progress among them; the buckets of the trend
\* make up the run time of their window, and overlapping rollups leave one row of
\* the day (durations_from_events, idle_energy, _oee_trend, KpiService.rollup): for
\* any events and readings, late or missing, any times, buckets and workers.
THEOREM KpisStayAgreed == KpiSpec => [](KpiTypeOK /\ KpisAgree)
  BY KpiInvHolds, KpiInvKept, KpiInvGives, PTL DEF KpiSpec
=============================================================================
