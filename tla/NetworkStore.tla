---------------------------- MODULE NetworkStore ----------------------------
(***************************************************************************)
(* NetworkStore (src/src/store_network.cpp): the store that forwards a     *)
(* batch to another server, over a connection of its own or over one it    *)
(* shares with other stores through the process-wide pool g_connPool.      *)
(*                                                                         *)
(* Modelled are a configured store and the copies made of it, the pool,    *)
(* the service registry that answers lookups, and the clock the lookup     *)
(* cache is aged by.  The pool and the connection (conn_pool.h) are not    *)
(* part of src/ and are modelled from the design: an entry per endpoint    *)
(* with a reference count, taken by open and given back by close.          *)
(*                                                                         *)
(* A server list is the version of the registry it was read from; a batch  *)
(* is not looked into: a send succeeds or fails as a whole.                *)
(***************************************************************************)
EXTENDS Integers, FiniteSets, TLC

CONSTANTS
    Stores,                 \* the store objects that can exist
    Confs,                  \* the configurations the first store can have
    DefaultCacheTimeout,    \* DEFAULT_NETWORKSTORE_CACHE_TIMEOUT
    StartTime,              \* the time the process starts at
    MaxTime,                \* bound: the clock stops here
    MaxVersions,            \* bound: changes of the registry
    MaxCalls                \* bound: open() calls

Configurations ==
    [useConnPool : BOOLEAN, smcBased : BOOLEAN, validRemote : BOOLEAN,
     serviceOptions : BOOLEAN, serviceCacheTimeout : Nat]

ASSUME ModelAssumption ==
    /\ IsFiniteSet(Stores) /\ Stores # {}
    /\ Confs \subseteq Configurations /\ Confs # {}
    /\ DefaultCacheTimeout \in Nat
    /\ StartTime \in Nat /\ MaxTime \in Nat /\ StartTime <= MaxTime
    /\ MaxVersions \in Nat \ {0} /\ MaxCalls \in Nat

VARIABLES
    made,               \* the stores constructed so far
    conf,               \* per store: what configure or copy gave it
    opened,             \* per store: NetworkStore::opened
    unpooledConn,       \* per store: its own connection, or NoConn
    servers,            \* per store: the list of the last lookup
    lastServiceCheck,   \* per store: when it last asked the registry
    status,             \* per store: Store::status
    connMap,            \* g_connPool: endpoint -> connection with count
    registry,           \* the list the registry hands out now
    now,                \* time(NULL)
    calls               \* open() calls so far

storeVars == <<opened, unpooledConn, servers, lastServiceCheck, status>>
vars == <<made, conf, storeVars, connMap, registry, now, calls>>

NoServers == 0      \* an empty server list; also: a host and port

NoConn == [open |-> FALSE, servers |-> -1]

Conns == [open : BOOLEAN, servers : 0..MaxVersions]

StatusTexts == {"", "Could not get list of servers from smc",
                "Bad config - invalid location for remote server",
                "Failed to connect"}

\* The pool's key of a store: the service name or host:port.
Key(s) == IF conf[s].smcBased THEN "service" ELSE "remote"

-----------------------------------------------------------------------------
(* The connection and the pool *)

\* scribeConn::send: a closed connection is opened first; a send that
\* fails closes the connection.  It returns ConnSends.
ConnSends(conn, connects, sends) == (conn.open \/ connects) /\ sends

ConnSend(conn, connects, sends) ==
    IF conn.open \/ connects THEN [conn EXCEPT !.open = sends] ELSE conn

\* ConnPool::open.  An entry that is open gets one more reference; one
\* that is not is replaced by a new connection that inherits the count.
PoolOpens(pool, key, connects) ==
    (key \in DOMAIN pool /\ pool[key].open) \/ connects

PoolOpen(pool, key, list, connects) ==
    LET old == key \in DOMAIN pool
        ref == IF old THEN pool[key].ref ELSE 0
    IN  IF ~PoolOpens(pool, key, connects) THEN pool
        ELSE [k \in DOMAIN pool \cup {key} |->
                 IF k # key THEN pool[k]
                 ELSE IF old /\ pool[key].open
                      THEN [pool[key] EXCEPT !.ref = @ + 1]
                      ELSE [open |-> TRUE, servers |-> list, ref |-> ref + 1]]

\* ConnPool::close: one reference less; the last one closes the
\* connection and removes the entry.
PoolClose(pool, key) ==
    CASE key \notin DOMAIN pool -> pool
      [] pool[key].ref > 1      -> [pool EXCEPT ![key].ref = @ - 1]
      [] OTHER                  -> [k \in DOMAIN pool \ {key} |-> pool[k]]

\* ConnPool::send.
PoolSend(pool, key, connects, sends) ==
    IF key \in DOMAIN pool
    THEN [pool EXCEPT ![key] = ConnSend(@, connects, sends)]
    ELSE pool

-----------------------------------------------------------------------------
(* NetworkStore *)

\* configure(): smc_service takes precedence over remote_host and
\* remote_port, which are then not read; service_options and
\* service_cache_timeout are read for a service only; use_conn_pool is
\* taken when it says yes.  `given` says which keys the configuration
\* has (and the timeout, 0 standing for none given).
Configure(given) ==
    [useConnPool         |-> given.use_conn_pool,
     smcBased            |-> given.smc_service,
     validRemote         |-> ~given.smc_service /\ given.remote,
     serviceOptions      |-> given.smc_service /\ given.service_options,
     serviceCacheTimeout |->
         IF given.smc_service /\ given.service_cache_timeout > 0
         THEN given.service_cache_timeout
         ELSE DefaultCacheTimeout]

\* What a lookup can answer: a list, no list, or nothing at all.
Lookups == {"found", "none", "failed"}

\* copy(): a new store with the fields that copy() assigns; the others
\* are what the constructor sets.
CopyOf(c) ==
    [c EXCEPT !.serviceOptions = FALSE,
              !.serviceCacheTimeout = DefaultCacheTimeout]

Copy(s, t) ==
    /\ s \in made /\ t \notin made
    /\ made' = made \cup {t}
    /\ conf' = [conf EXCEPT ![t] = CopyOf(conf[s])]
    /\ UNCHANGED <<storeVars, connMap, registry, now, calls>>

\* The part of open() that connects: through the pool, or with the
\* store's own connection, which is made once and kept.
Connect(s, list, connects) ==
    LET mine == unpooledConn[s] IN
    /\ \/ /\ conf[s].useConnPool
          /\ connMap' = PoolOpen(connMap, Key(s), list, connects)
          /\ opened' = [opened EXCEPT ![s] =
                            PoolOpens(connMap, Key(s), connects)]
          /\ UNCHANGED unpooledConn
       \/ /\ ~conf[s].useConnPool
          /\ unpooledConn' = [unpooledConn EXCEPT ![s] =
                IF mine = NoConn
                THEN [open |-> connects, servers |-> list]
                ELSE [mine EXCEPT !.open = @ \/ connects]]
          /\ opened' = [opened EXCEPT ![s] = unpooledConn'[s].open]
          /\ UNCHANGED connMap
    /\ status' = [status EXCEPT ![s] =
                     IF opened'[s] THEN "" ELSE "Failed to connect"]

\* Mutant of ServiceChecked: the store notes when the list expires.
ServiceChecked_Expiry(s, asks) ==
    IF asks THEN now + conf[s].serviceCacheTimeout ELSE lastServiceCheck[s]

\* lastServiceCheck after open(): the time of the lookup, if one is made.
ServiceChecked(s, asks) == IF asks THEN now ELSE lastServiceCheck[s]

\* NetworkStore::open.
Open(s) ==
    /\ s \in made
    /\ calls < MaxCalls
    /\ calls' = calls + 1
    /\ \E lookup \in Lookups, connects \in BOOLEAN :
          LET c       == conf[s]
              asks    == /\ c.smcBased
                         /\ lastServiceCheck[s] <= now - c.serviceCacheTimeout
              success == asks => lookup # "failed"
              list    == CASE asks /\ lookup = "found" -> registry
                           [] asks /\ lookup = "none"  -> NoServers
                           [] OTHER                    -> servers[s]
          IN  /\ lastServiceCheck' =
                    [lastServiceCheck EXCEPT ![s] = ServiceChecked(s, asks)]
              /\ servers' = [servers EXCEPT ![s] = list]
              /\ \/ /\ c.smcBased /\ (~success \/ list = NoServers)
                    /\ status' = [status EXCEPT ![s] =
                          "Could not get list of servers from smc"]
                    /\ UNCHANGED <<opened, unpooledConn, connMap>>
                 \/ /\ ~c.smcBased /\ ~c.validRemote
                    /\ status' = [status EXCEPT ![s] =
                          "Bad config - invalid location for remote server"]
                    /\ UNCHANGED <<opened, unpooledConn, connMap>>
                 \/ /\ c.smcBased => success /\ list # NoServers
                    /\ ~c.smcBased => c.validRemote
                    /\ Connect(s, IF c.smcBased THEN list ELSE NoServers,
                               connects)
    /\ UNCHANGED <<made, conf, registry, now>>

\* isOpen().
IsOpen(s) == opened[s]

\* Mutant of Released: the store's own connection is left as it is.
Released_Kept(conn) == conn

\* scribeConn::close on the store's own connection, if it has one.
Released(conn) == IF conn = NoConn THEN conn ELSE [conn EXCEPT !.open = FALSE]

\* The body of close(): the reference is given back to the pool, or the
\* store's own connection is closed (and kept).
Disconnect(s) ==
    /\ opened' = [opened EXCEPT ![s] = FALSE]
    /\ \/ /\ conf[s].useConnPool
          /\ connMap' = PoolClose(connMap, Key(s))
          /\ UNCHANGED unpooledConn
       \/ /\ ~conf[s].useConnPool
          /\ unpooledConn' = [unpooledConn EXCEPT ![s] = Released(@)]
          /\ UNCHANGED connMap

\* Mutant of Close: close() does not look at `opened`.
Close_Unguarded(s) ==
    /\ s \in made
    /\ Disconnect(s)
    /\ UNCHANGED <<made, conf, servers, lastServiceCheck, status, registry,
                   now, calls>>

\* NetworkStore::close: nothing to do on a store that is not open.
Close(s) ==
    /\ s \in made
    /\ IsOpen(s)
    /\ Disconnect(s)
    /\ UNCHANGED <<made, conf, servers, lastServiceCheck, status, registry,
                   now, calls>>

\* ~NetworkStore: close(), and the object is gone with the connection of
\* its own.  The fields read what the constructor sets, for the store that
\* copy() makes next.
Destroy(s) ==
    /\ s \in made
    /\ made' = made \ {s}
    /\ connMap' = IF IsOpen(s) /\ conf[s].useConnPool
                  THEN PoolClose(connMap, Key(s)) ELSE connMap
    /\ opened' = [opened EXCEPT ![s] = FALSE]
    /\ unpooledConn' = [unpooledConn EXCEPT ![s] = NoConn]
    /\ servers' = [servers EXCEPT ![s] = NoServers]
    /\ lastServiceCheck' = [lastServiceCheck EXCEPT ![s] = 0]
    /\ status' = [status EXCEPT ![s] = ""]
    /\ UNCHANGED <<conf, registry, now, calls>>

\* NetworkStore::handleMessages on an open store (on a closed one it
\* returns false and changes nothing).
HandleMessages(s) ==
    /\ s \in made
    /\ IsOpen(s)
    /\ \E connects, sends \in BOOLEAN :
          \/ /\ conf[s].useConnPool
             /\ connMap' = PoolSend(connMap, Key(s), connects, sends)
             /\ UNCHANGED unpooledConn
          \/ /\ ~conf[s].useConnPool
             /\ unpooledConn[s] # NoConn
             /\ unpooledConn' = [unpooledConn EXCEPT ![s] =
                                    ConnSend(@, connects, sends)]
             /\ UNCHANGED connMap
    /\ UNCHANGED <<made, conf, opened, servers, lastServiceCheck, status,
                   registry, now, calls>>

-----------------------------------------------------------------------------
(* The environment *)

\* The service moves: the registry hands out another list from now on.
Relocate ==
    /\ registry < MaxVersions
    /\ registry' = registry + 1
    /\ UNCHANGED <<made, conf, storeVars, connMap, now, calls>>

Tick ==
    /\ now < MaxTime
    /\ now' = now + 1
    /\ UNCHANGED <<made, conf, storeVars, connMap, registry, calls>>

-----------------------------------------------------------------------------

\* One store has been made by the factory and configured; the others do
\* not exist yet and are what the constructor makes them.
Init ==
    /\ \E s \in Stores, c \in Confs :
          /\ made = {s}
          /\ conf = [t \in Stores |-> c]
    /\ opened = [s \in Stores |-> FALSE]
    /\ unpooledConn = [s \in Stores |-> NoConn]
    /\ servers = [s \in Stores |-> NoServers]
    /\ lastServiceCheck = [s \in Stores |-> 0]
    /\ status = [s \in Stores |-> ""]
    /\ connMap = <<>>
    /\ registry = 1
    /\ now = StartTime
    /\ calls = 0

Next ==
    \/ \E s, t \in Stores : Copy(s, t)
    \/ \E s \in Stores : Open(s)
    \/ \E s \in Stores : Close(s)
    \/ \E s \in Stores : Destroy(s)
    \/ \E s \in Stores : HandleMessages(s)
    \/ Relocate
    \/ Tick

Spec == Init /\ [][Next]_vars

-----------------------------------------------------------------------------
(* Properties *)

\* The open stores that use the pool's entry `key`.
Users(key) ==
    {s \in made : opened[s] /\ conf[s].useConnPool /\ Key(s) = key}

References(key) == IF key \in DOMAIN connMap THEN connMap[key].ref ELSE 0

TypeOK ==
    /\ made \subseteq Stores
    /\ conf \in [Stores -> Configurations]
    /\ opened \in [Stores -> BOOLEAN]
    /\ unpooledConn \in [Stores -> Conns \cup {NoConn}]
    /\ servers \in [Stores -> 0..MaxVersions]
    /\ lastServiceCheck \in [Stores -> 0..MaxTime]
    /\ status \in [Stores -> StatusTexts]
    /\ DOMAIN connMap \subseteq {"service", "remote"}
    /\ \A k \in DOMAIN connMap :
          connMap[k] \in [open : BOOLEAN, servers : 0..MaxVersions,
                          ref : 1..MaxCalls]
    /\ registry \in 1..MaxVersions
    /\ now \in StartTime..MaxTime
    /\ calls \in 0..MaxCalls

\* No store loses its connection to what another store does: the pool
\* holds at least one reference for every open store that uses an entry,
\* and an open store without the pool has a connection of its own.  This
\* is what the flag `opened` is for ("ensures that we don't make duplicate
\* close calls, which would screw up the connection pool's reference
\* counting"), across connections that break, are replaced in the pool and
\* are reopened by a send.
OpenStoresHoldConnections ==
    /\ \A k \in {"service", "remote"} : Cardinality(Users(k)) <= References(k)
    /\ \A s \in made :
          opened[s] /\ ~conf[s].useConnPool => unpooledConn[s] # NoConn

\* A store that is not open has no open connection of its own, whether
\* it was closed, failed to connect or lost the service it looks up: the
\* flag `opened`, which close() trusts, never hides a socket that close()
\* would then leave behind (for the pooled stores see PoolCountsOpenStores).
ClosedStoresHoldNoConnection ==
    \A s \in Stores :
        ~IsOpen(s) /\ unpooledConn[s] # NoConn => ~unpooledConn[s].open

\* The pool's count of an entry is the number of open stores that use it,
\* so that the connection is closed when the last of them closes.
PoolCountsOpenStores ==
    \A k \in {"service", "remote"} : References(k) = Cardinality(Users(k))

=============================================================================
