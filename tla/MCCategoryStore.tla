-------------------------- MODULE MCCategoryStore --------------------------
(* CategoryStore for model checking: the categories are interchangeable. *)
EXTENDS CategoryStore, TLC

CategorySymmetry == Permutations(Categories)

\* Configurations with a model the factory knows: the two multi-file
\* stores, a model that discards, a model that is never open.
MCUsable ==
    {MultiFileStore, ThriftMultiFileStore}
        \cup {[model |-> TRUE, type |-> t] : t \in {"null", "redis"}}

\* And those the store cannot use: without a model, with a model without
\* type, with a model of a type the factory does not know.
MCAnyConf ==
    MCUsable \cup {[model |-> FALSE, type |-> NoType],
                   [model |-> TRUE, type |-> NoType],
                   [model |-> TRUE, type |-> "files"]}

\* A model that forwards to a server: its children open when the server
\* answers and have no periodicCheck of their own.
MCNetwork == {[model |-> TRUE, type |-> "network"]}

=============================================================================
