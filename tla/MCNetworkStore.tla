--------------------------- MODULE MCNetworkStore ---------------------------
(* NetworkStore for model checking: the configurations a run starts from, *)
(* and the symmetry of the store objects.                                 *)
EXTENDS NetworkStore

\* Every way of reaching the remote side, with the default cache timeout.
MCConfs ==
    {Configure(given) :
        given \in [use_conn_pool : BOOLEAN, smc_service : BOOLEAN,
                   remote : BOOLEAN, service_options : {FALSE},
                   service_cache_timeout : {0}]}

\* Stores that share a pooled connection to a host and port.
MCPooled ==
    {Configure([use_conn_pool |-> TRUE, smc_service |-> FALSE,
                remote |-> TRUE, service_options |-> FALSE,
                service_cache_timeout |-> 0])}

StoreSymmetry == Permutations(Stores)

=============================================================================
