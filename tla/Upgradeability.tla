--------------------------- MODULE Upgradeability ---------------------------
(***************************************************************************)
(* The proxies of a market and the code they run: PoolAddressesProvider    *)
(* creates and upgrades the proxies of the pool and of the configurator,   *)
(* the configurator those of the tokens, and VersionedInitializable lets   *)
(* each storage be initialised once for each revision of its code.  One    *)
(* token stands for the three of a reserve, which the same calls create    *)
(* and upgrade.  Initializers that call initializers, and constructors     *)
(* that do, exist in mocks only and are left out.                          *)
(***************************************************************************)
EXTENDS Integers

CONSTANTS
    code,              \* of the addresses of implementations: its kind, its
                       \* revision, and what it belongs to, an immutable
    Assets,
    Provider,          \* the addresses provider of this market
    None,              \* address zero
    Called,            \* bound: the contracts that strangers call initialize on
    MaxProxies         \* bound on the proxies created

VARIABLES
    addresses,         \* of the provider: POOL and POOL_CONFIGURATOR
    admin,             \* of each proxy, fixed at its creation
    implementation,    \* of each proxy, None until it is created
    storage,           \* of proxies and implementations: last revision, known pool
    aTokenOf,          \* of each pool and asset
    hardReplaced       \* whether the owner ever replaced an address by setAddress

upgradeVars == <<addresses, admin, implementation, storage, aTokenOf, hardReplaced>>

Proxies == 1 .. MaxProxies     \* addresses, in the order of their creation
Implementations == DOMAIN code
Contracts == Proxies \cup Implementations
ProxiedIds == {"POOL", "POOL_CONFIGURATOR"}
Created == {p \in Proxies : implementation[p] # None}

ASSUME MarketAssumption ==
    /\ MaxProxies \in Nat
    /\ Proxies \cap Implementations = {}
    /\ \A i \in Implementations :
           code[i].kind \in ProxiedIds \cup {"TOKEN"} /\ code[i].revision \in Nat \ {0}
    /\ None \notin Implementations \cup Proxies /\ Provider \notin Proxies \cup {None}

-----------------------------------------------------------------------------
(* VersionedInitializable and the initializers it guards.                  *)

\* Mutant: arguments are not compared with the immutables of the code.
BodyAcceptsAny(i, argument) == TRUE

\* The pool accepts its own provider, a token its own pool.
BodyAccepts(i, argument) ==
    code[i].kind = "POOL_CONFIGURATOR" \/ argument = code[i].belongsTo

\* Mutant: a revision may initialise a storage again.
InitializesAgain(i, last, argument) ==
    code[i].revision >= last /\ BodyAccepts(i, argument)

\* Whether initialize, run by this code on this storage, does not revert.
Initializes(i, last, argument) ==
    code[i].revision > last /\ BodyAccepts(i, argument)

\* Mutant: the provider is kept in place of the pool it names.
InitializedWithProvider(i, before, pool) ==
    [before EXCEPT !.lastInitializedRevision = code[i].revision,
                   !.pool = IF code[i].kind = "POOL_CONFIGURATOR" THEN Provider ELSE @]

\* The configurator keeps the pool that the provider names at that moment.
Initialized(i, before, pool) ==
    [before EXCEPT !.lastInitializedRevision = code[i].revision,
                   !.pool = IF code[i].kind = "POOL_CONFIGURATOR" THEN pool ELSE @]

-----------------------------------------------------------------------------
(* InitializableImmutableAdminUpgradeabilityProxy.                         *)

\* new and initialize, in one transaction: without the second, no first.
CreateProxy(creator, p, i, argument) ==
    /\ p \in Proxies \ Created /\ \A q \in Proxies \ Created : p <= q
    /\ Initializes(i, storage[p].lastInitializedRevision, argument)
    /\ admin' = [admin EXCEPT ![p] = creator]
    /\ implementation' = [implementation EXCEPT ![p] = i]
    /\ storage' = [storage EXCEPT ![p] = Initialized(i, @, addresses["POOL"])]

\* Mutant: the result of the call is not required.
UpgradeToAndTry(caller, p, i, argument) ==
    /\ admin[p] = caller
    /\ implementation' = [implementation EXCEPT ![p] = i]
    /\ storage' = IF Initializes(i, storage[p].lastInitializedRevision, argument)
                  THEN [storage EXCEPT ![p] = Initialized(i, @, addresses["POOL"])]
                  ELSE storage
    /\ UNCHANGED admin

\* upgradeToAndCall: other callers than the admin fall through to the code
\* behind the proxy, which has no such function; the call must succeed.
UpgradeToAndCall(caller, p, i, argument) ==
    /\ admin[p] = caller
    /\ Initializes(i, storage[p].lastInitializedRevision, argument)
    /\ implementation' = [implementation EXCEPT ![p] = i]
    /\ storage' = [storage EXCEPT ![p] = Initialized(i, @, addresses["POOL"])]
    /\ UNCHANGED admin

-----------------------------------------------------------------------------
(* PoolAddressesProvider, called by its owner, who does not mistake the    *)
(* code of one component for that of another.                              *)

\* Mutant: every update makes a new proxy.
UpdateImplAnew(id, i) ==
    /\ code[i].kind = id
    /\ \E p \in Proxies :
           /\ CreateProxy(Provider, p, i, Provider)
           /\ addresses' = [addresses EXCEPT ![id] = p]
    /\ UNCHANGED <<aTokenOf, hardReplaced>>

\* setPoolImpl, setPoolConfiguratorImpl and setAddressAsProxy.
UpdateImpl(id, i) ==
    /\ code[i].kind = id
    /\ IF addresses[id] = None
       THEN \E p \in Proxies :
                /\ CreateProxy(Provider, p, i, Provider)
                /\ addresses' = [addresses EXCEPT ![id] = p]
       ELSE /\ UpgradeToAndCall(Provider, addresses[id], i, Provider)
            /\ UNCHANGED addresses
    /\ UNCHANGED <<aTokenOf, hardReplaced>>

\* "it will do a hard replacement": by nothing, or by a proxy of the same kind
\* that was in use before.
SetAddress(id, newAddress) ==
    /\ newAddress # addresses[id]
    /\ newAddress # None => newAddress \in Created /\ code[implementation[newAddress]].kind = id
    /\ addresses' = [addresses EXCEPT ![id] = newAddress]
    /\ hardReplaced' = TRUE
    /\ UNCHANGED <<admin, implementation, storage, aTokenOf>>

-----------------------------------------------------------------------------
(* PoolConfigurator: every configurator that was ever created can be       *)
(* called, and works on the pool it keeps.                                 *)

Configurator(c) == c \in Created /\ code[implementation[c]].kind = "POOL_CONFIGURATOR"

\* Pool.onlyPoolConfigurator.
IsPoolConfigurator(c) == addresses["POOL_CONFIGURATOR"] = c

InitReserve(c, asset, i) ==
    LET pool == storage[c].pool
    IN  /\ Configurator(c) /\ pool # None /\ code[i].kind = "TOKEN"
        /\ IsPoolConfigurator(c)
        /\ aTokenOf[pool][asset] = None
        /\ \E p \in Proxies :
               /\ CreateProxy(c, p, i, pool)
               /\ aTokenOf' = [aTokenOf EXCEPT ![pool][asset] = p]
        /\ UNCHANGED <<addresses, hardReplaced>>

DropReserve(c, asset) ==
    LET pool == storage[c].pool
    IN  /\ Configurator(c) /\ pool # None
        /\ IsPoolConfigurator(c)
        /\ aTokenOf[pool][asset] # None
        /\ aTokenOf' = [aTokenOf EXCEPT ![pool][asset] = None]
        /\ UNCHANGED <<addresses, admin, implementation, storage, hardReplaced>>

\* updateAToken, updateStableDebtToken, updateVariableDebtToken: nothing asks
\* whether the provider still names this configurator.
UpdateToken(c, asset, i) ==
    LET pool == storage[c].pool
    IN  /\ Configurator(c) /\ pool # None /\ code[i].kind = "TOKEN"
        /\ aTokenOf[pool][asset] # None
        /\ UpgradeToAndCall(c, aTokenOf[pool][asset], i, pool)
        /\ UNCHANGED <<addresses, aTokenOf, hardReplaced>>

\* Anyone, except the admin of a proxy, calls initialize with any argument, on
\* a proxy or directly on the implementation, which has a storage of its own.
Initialize(contract, argument) ==
    LET i == IF contract \in Created THEN implementation[contract] ELSE contract
    IN  /\ contract \in Created \cup Implementations
        /\ Initializes(i, storage[contract].lastInitializedRevision, argument)
        /\ storage' = [storage EXCEPT ![contract] = Initialized(i, @, addresses["POOL"])]
        /\ UNCHANGED <<addresses, admin, implementation, aTokenOf, hardReplaced>>

UpgradeabilityInit ==
    /\ addresses = [id \in ProxiedIds |-> None]
    /\ admin = [p \in Proxies |-> None]
    /\ implementation = [p \in Proxies |-> None]
    /\ storage = [c \in Contracts |-> [lastInitializedRevision |-> 0, pool |-> None]]
    /\ aTokenOf = [p \in Proxies |-> [a \in Assets |-> None]]
    /\ hardReplaced = FALSE

UpgradeabilityNext ==
    \/ \E id \in ProxiedIds :
           \/ \E i \in Implementations : UpdateImpl(id, i)
           \/ \E newAddress \in Proxies \cup {None} : SetAddress(id, newAddress)
    \/ \E c \in Proxies, asset \in Assets :
           \/ DropReserve(c, asset)
           \/ \E i \in Implementations :
                  InitReserve(c, asset, i) \/ UpdateToken(c, asset, i)
    \/ \E contract \in Called, argument \in Proxies \cup {Provider} :
           Initialize(contract, argument)

UpgradeabilitySpec == UpgradeabilityInit /\ [][UpgradeabilityNext]_upgradeVars

-----------------------------------------------------------------------------
\* Type invariant.
UpgradeabilityTypeOK ==
    /\ addresses \in [ProxiedIds -> Proxies \cup {None}]
    /\ admin \in [Proxies -> Proxies \cup {Provider, None}]
    /\ implementation \in [Proxies -> Implementations \cup {None}]
    /\ storage \in [Contracts -> [lastInitializedRevision : Nat,
                                  pool : Proxies \cup {None}]]
    /\ aTokenOf \in [Proxies -> [Assets -> Proxies \cup {None}]]
    /\ hardReplaced \in BOOLEAN

\* A proxy is initialised by the transaction that gives it its code, and by no
\* other: an upgrade does not outlive a failed call, which would leave the
\* initializer of the new code to strangers, and they never run one again, to
\* set what an earlier call has set.  This is about the storage of proxies: that
\* of an implementation, which no proxy reads, a stranger may initialise.
InitializedByUpgradesOnly ==
    [][\A p \in Proxies :
           storage'[p] # storage[p] => implementation'[p] # implementation[p]]_upgradeVars

\* The pool of the market keeps its address through all upgrades, so the one
\* the configurator read once is the one the provider names; a configurator
\* that was initialised before the pool existed knows none until its next
\* revision.  The owner breaks this by hard replacements only.
KnowsItsPool == ~hardReplaced =>
    LET c == addresses["POOL_CONFIGURATOR"]
    IN  c # None => storage[c].pool \in {addresses["POOL"], None}

\* A token in the books of a pool runs code that was built for this pool, and
\* was created by a configurator of it, through upgrades of all three and
\* through hard replacements.
TokensOfTheirPool == \A pool \in Proxies, asset \in Assets :
    LET token == aTokenOf[pool][asset]
    IN  token # None => /\ code[implementation[token]].belongsTo = pool
                        /\ code[implementation[token]].kind = "TOKEN"
                        /\ Configurator(admin[token])

\* Provider, pool, configurator and tokens are of one market, although each is
\* upgraded and replaced on its own.
OneMarket == KnowsItsPool /\ TokensOfTheirPool
=============================================================================
