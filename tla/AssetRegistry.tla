----------------------------- MODULE AssetRegistry -----------------------------
(***************************************************************************)
(* The asset registry (apps/api/app/modules/assets/service.py) and the     *)
(* twin store, Eclipse Ditto, that TwinSyncService (modules/twin/          *)
(* service.py) writes inside the transaction of the registry, before its   *)
(* commit.  Requests overlap at READ COMMITTED: each holds the asset it    *)
(* has loaded, waits at its flush for the row or the code to be free, and  *)
(* sends the twin store the fields of the object it holds.                 *)
(***************************************************************************)
EXTENDS Integers, FiniteSets

CONSTANTS
    Codes,          \* asset codes; a code names an asset and its thing
    AssetWorkers,   \* API workers
    MaxEdits,       \* bound: requests
    MaxFaults       \* bound: commits that fail

ASSUME AssetAssumption == Codes # {} /\ MaxEdits \in Nat /\ MaxFaults \in Nat

VARIABLES
    row,     \* committed: each code's asset, its fields and components
    thing,   \* the twin store's
    edit,    \* what each worker is doing
    edits,   \* bound, and the value the next request writes
    faults,  \* bound
    overlapped   \* history: two updates of one asset were under way together

assetVars == <<row, thing, edit, edits, faults, overlapped>>

Fields   == {"name", "serial"}
NoRow    == [state |-> "none", fields |-> [f \in Fields |-> 0], parts |-> {}]
NoThing  == [there |-> FALSE, readonly |-> FALSE, fields |-> [f \in Fields |-> 0], parts |-> {}]
NoEdit   == [pc |-> "idle", kind |-> "none", code |-> CHOOSE c \in Codes : TRUE, held |-> NoRow, value |-> 0, field |-> "name"]
FieldVersions == 0..MaxEdits

AssetTypeOK ==
    LET FieldValues == [Fields -> FieldVersions]
        Rows == [state : {"none", "active", "retired"}, fields : FieldValues, parts : SUBSET FieldVersions] IN
    /\ row \in [Codes -> Rows] /\ edits \in FieldVersions /\ faults \in 0..MaxFaults /\ overlapped \in BOOLEAN
    /\ thing \in [Codes -> [there : BOOLEAN, readonly : BOOLEAN, fields : FieldValues, parts : SUBSET FieldVersions]]
    /\ edit \in [AssetWorkers -> [pc : {"idle", "loaded", "flushed", "sent"}, code : Codes, held : Rows,
                                  kind : {"none", "create", "update", "retire", "component"},
                                  value : FieldVersions, field : Fields]]

AssetInit ==
    /\ row = [c \in Codes |-> NoRow] /\ thing = [c \in Codes |-> NoThing]
    /\ edit = [w \in AssetWorkers |-> NoEdit]
    /\ edits = 0 /\ faults = 0 /\ overlapped = FALSE

-----------------------------------------------------------------------------
(* Loading and checking *)
Loads(w, kind, c, r, field) ==
    /\ edit[w].pc = "idle" /\ edits < MaxEdits /\ edits' = edits + 1
    /\ edit' = [edit EXCEPT ![w] = [pc |-> "loaded", kind |-> kind, code |-> c, held |-> r,
                                    value |-> edits', field |-> field]]
    /\ overlapped' = (overlapped \/ \E v \in AssetWorkers : kind = "update" /\ edit[v].kind = "update" /\ edit[v].code = c)
    /\ UNCHANGED <<row, thing, faults>>

\* _assert_code_free: neither an asset nor a retired twin has the code.
Created(w, c, parts) == row[c].state = "none" /\ Loads(w, "create", c, [NoRow EXCEPT !.parts = parts], "name")

CreateAsset(w) == \E c \in Codes : Created(w, c, {edits + 1})

\* The components of the source are copied as they are read.
CloneAsset(w) == \E c, source \in Codes : row[source].state = "active" /\ Created(w, c, row[source].parts)

\* A file brings components or none; one that cannot be read is refused before.
ImportAsset(w) == \E c \in Codes, parts \in {{}, {edits + 1}} : Created(w, c, parts)

UpdateAsset(w) ==
    \E c \in Codes, f \in Fields : row[c].state = "active" /\ Loads(w, "update", c, row[c], f)

RetireAsset(w) == \E c \in Codes : row[c].state = "active" /\ Loads(w, "retire", c, row[c], "name")

CreateComponent(w) == \E c \in Codes : row[c].state = "active" /\ Loads(w, "component", c, row[c], "name")

-----------------------------------------------------------------------------
(* The flush, with its audit row.  The session writes the columns that have *)
(* changed; the object keeps the others as it loaded them.                  *)
RollbackEdit(w) == edit' = [edit EXCEPT ![w] = NoEdit]

Edited(e) ==
    CASE e.kind = "create"    -> [state |-> "active", fields |-> [f \in Fields |-> e.value], parts |-> e.held.parts]
      [] e.kind = "update"    -> [e.held EXCEPT !.fields[e.field] = e.value]
      [] e.kind = "retire"    -> [e.held EXCEPT !.state = "retired"]
      [] e.kind = "component" -> [e.held EXCEPT !.parts = @ \cup {e.value}]

\* A component is a row of its own: it locks nothing of the asset.
Locks(w, c) == edit[w].pc \in {"flushed", "sent"} /\ edit[w].code = c /\ edit[w].kind # "component"

FlushEdit(w) ==
    LET e == edit[w] IN
    /\ e.pc = "loaded"
    /\ e.kind # "component" => \A v \in AssetWorkers : ~Locks(v, e.code)
    /\ IF e.kind = "create" /\ row[e.code].state = "active"
       THEN RollbackEdit(w)   \* assets_code_uq
       ELSE edit' = [edit EXCEPT ![w] = [e EXCEPT !.pc = "flushed", !.held = Edited(e)]]
    /\ UNCHANGED <<row, thing, edits, faults, overlapped>>

-----------------------------------------------------------------------------
(* The twin store *)
Synced(e, t) ==
    CASE e.kind = "create"    -> [t EXCEPT !.there = TRUE, !.fields = e.held.fields, !.parts = e.held.parts]
      [] e.kind = "update"    -> [t EXCEPT !.fields = e.held.fields]
      [] e.kind = "retire"    -> [t EXCEPT !.readonly = TRUE]
      [] e.kind = "component" -> [t EXCEPT !.parts = @ \cup {e.value}]

\* Mutant: the retired policy leaves the system its right to write.
WritableAlways(t) == TRUE

\* RETIRED_POLICY grants READ to all and WRITE on things to nobody.
Writable(t) == ~t.readonly

\* Mutant: a twin store that does not answer is logged and passed over.
SendThingAnyway(w) ==
    LET e == edit[w] t == thing[e.code] IN
    /\ e.pc = "flushed"
    /\ edit' = [edit EXCEPT ![w].pc = "sent"]
    /\ \/ Writable(t) /\ thing' = [thing EXCEPT ![e.code] = Synced(e, t)]
       \/ UNCHANGED thing
    /\ UNCHANGED <<row, edits, faults, overlapped>>

\* A refusal (502) or no answer (503) rolls the transaction back; the thing may
\* have been written before its answer was lost.
SendThing(w) ==
    LET e == edit[w] t == thing[e.code] IN
    /\ e.pc = "flushed"
    /\ \/ /\ Writable(t) /\ thing' = [thing EXCEPT ![e.code] = Synced(e, t)]
          /\ edit' = [edit EXCEPT ![w].pc = "sent"] /\ UNCHANGED faults
       \/ ~Writable(t) /\ RollbackEdit(w) /\ UNCHANGED <<thing, faults>>
       \/ /\ faults < MaxFaults /\ faults' = faults + 1
          /\ RollbackEdit(w)
          /\ thing' \in {thing} \cup (IF Writable(t) THEN {[thing EXCEPT ![e.code] = Synced(e, t)]} ELSE {})
    /\ UNCHANGED <<row, edits, overlapped>>

Committed(e, r) ==
    CASE e.kind = "update"    -> [r EXCEPT !.fields[e.field] = e.value]
      [] e.kind = "retire"    -> [r EXCEPT !.state = "retired"]
      [] e.kind = "component" -> [r EXCEPT !.parts = @ \cup {e.value}]
      [] e.kind = "create"    -> e.held

CommitEdit(w) ==
    LET e == edit[w] IN
    /\ e.pc = "sent" /\ RollbackEdit(w)
    /\ \/ row' = [row EXCEPT ![e.code] = Committed(e, @)] /\ UNCHANGED faults
       \/ faults < MaxFaults /\ faults' = faults + 1 /\ UNCHANGED row
    /\ UNCHANGED <<thing, edits, overlapped>>

AssetNext ==
    \E w \in AssetWorkers :
      \/ CreateAsset(w) \/ CloneAsset(w) \/ ImportAsset(w) \/ UpdateAsset(w) \/ RetireAsset(w) \/ CreateComponent(w)
      \/ FlushEdit(w) \/ SendThing(w) \/ CommitEdit(w)

AssetSpec == AssetInit /\ [][AssetNext]_assetVars

-----------------------------------------------------------------------------
(* Properties. *)

\* Whatever the registry has, the twin store has: an asset without a thing
\* would have nowhere to show its telemetry, and a component nowhere to show
\* its health.  What fails half-way leaves the twin store ahead, never behind.
TwinForEveryAsset ==
    \A c \in Codes : row[c].state # "none" => thing[c].there /\ row[c].parts \subseteq thing[c].parts

\* "Retiring a twin moves it to the read-only policy": the thing of a retired
\* asset no longer changes, not even through an update that loaded the asset
\* before it was retired.
RetiredIsReadOnly ==
    [][\A c \in Codes : row[c].state = "retired" => thing'[c] = thing[c] /\ thing[c].readonly]_<<row, thing>>

\* "Keeps Ditto things in step with the asset registry": once no request is
\* under way, none has failed and no two updates have overlapped, the twin
\* store shows the registry's fields.  (Of two updates that overlap the later
\* sends the fields it has loaded, the other one's as they were before.)
TwinInStep ==
    (\A w \in AssetWorkers : edit[w].pc = "idle") /\ faults = 0 /\ ~overlapped
      => \A c \in Codes : row[c].state = "active" => thing[c].fields = row[c].fields

\* The twin store is what the registry says it is.
TwinsSound == TwinForEveryAsset /\ TwinInStep
=============================================================================
