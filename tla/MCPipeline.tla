------------------------------ MODULE MCPipeline ------------------------------
(* Small instances of SettlementPipeline for TLC. *)
EXTENDS PipelineInvariant, TLC

(* One product of one creator for every order. *)
MCProductOf == [o \in Orders |-> CHOOSE p \in Products : TRUE]
MCCreatorOf == [p \in Products |-> CHOOSE c \in Creators : TRUE]

(* Each order is paid under a reference of its own. *)
MCNotifiable == {<<o, r>> \in Orders \X Refs : r = o}

(* Fault budgets: at most one fault of each of the kinds. *)
Only(kinds) == [k \in FaultKind |-> IF k \in kinds THEN 1 ELSE 0]
Lossy == Only({"crash", "rpc", "db", "slow"})
Crowded == Only({"crash", "ledger", "edit", "mail", "slow"})
Live == Only(FaultKind)
OnlyRpc == Only({"rpc"})

(* Hashes are interchangeable: no definition tells two of them apart. *)
HashSymmetry == Permutations(Hash)
=============================================================================
