------------------------------ MODULE MCStores ------------------------------
(***************************************************************************)
(* What changes several tables, stores or collections in more than one     *)
(* step, for TLC: accounts, reclassification, tags, connectors, the schema *)
(* of the database, and experiments.  As in MCServices, a behaviour is one *)
(* of a single component (part); they share no variable.                   *)
(***************************************************************************)
EXTENDS Accounts, Reclassification, Tags, Connectors, StoreSchema, Experiments, TLC

CONSTANTS c1, c2, d1, vendor, main, other, file, ta, tb, proj, empty, i1, i2

VARIABLE part

(* Two documents of one project; nothing is ever in the other. *)
MCProjectOf == 1 :> proj @@ 2 :> proj
MCFileName == 1 :> "a" @@ 2 :> "b"

(* Users and the processes of every component are the same two values, so  *)
(* that one permutation serves all of them.                                *)
Symmetry == Permutations(Users)

vars == <<part, accountVars, reclassVars, tagVars, connectorVars, schemaVars,
          experimentVars>>

Init ==
  /\ part \in {"accounts", "reclassification", "tags", "connectors", "schema",
               "experiments"}
  /\ AccountsInit /\ ReclassInit /\ TagsInit /\ ConnectorsInit /\ SchemaInit
  /\ ExperimentsInit
  /\ part # "connectors" => kind = "git"
  /\ part # "schema" => version = 0

Next ==
  /\ UNCHANGED part
  /\ \/ /\ part = "accounts" /\ AccountsNext
        /\ UNCHANGED <<reclassVars, tagVars, connectorVars, schemaVars, experimentVars>>
     \/ /\ part = "reclassification" /\ ReclassNext
        /\ UNCHANGED <<accountVars, tagVars, connectorVars, schemaVars, experimentVars>>
     \/ /\ part = "tags" /\ TagsNext
        /\ UNCHANGED <<accountVars, reclassVars, connectorVars, schemaVars,
                       experimentVars>>
     \/ /\ part = "connectors" /\ ConnectorsNext
        /\ UNCHANGED <<accountVars, reclassVars, tagVars, schemaVars, experimentVars>>
     \/ /\ part = "schema" /\ SchemaNext
        /\ UNCHANGED <<accountVars, reclassVars, tagVars, connectorVars, experimentVars>>
     \/ /\ part = "experiments" /\ ExperimentsNext
        /\ UNCHANGED <<accountVars, reclassVars, tagVars, connectorVars, schemaVars>>

Spec == Init /\ [][Next]_vars

(* The variables of the component at work keep their types. *)
StoresTypeOK ==
  CASE part = "accounts"         -> AccountsTypeOK
    [] part = "reclassification" -> ReclassTypeOK
    [] part = "tags"             -> TagsTypeOK
    [] part = "connectors"       -> ConnectorsTypeOK
    [] part = "schema"           -> SchemaTypeOK
    [] part = "experiments"      -> ExperimentsTypeOK
=============================================================================
