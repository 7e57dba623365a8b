----------------------- MODULE Administration_proofs ------------------------
(***************************************************************************)
(* The list and the mappings of the registry agree for every number of     *)
(* providers and ids, and together implement module ProviderIds.  Provider,*)
(* pool, configurator and tokens of a market stay together through any     *)
(* upgrades and replacements, and nothing but an upgrade initialises.      *)
(***************************************************************************)
EXTENDS Administration, SequenceTheorems, TLAPS

-----------------------------------------------------------------------------
(* The registry. *)

RegistryIInv == RegistryTypeOK /\ ListConsistent

\* Appending a new provider.
LEMMA AddKeepsList ==
    ASSUME RegistryIInv, NEW provider \in Providers, addressesProviderToId[provider] = 0,
           AddToAddressesProvidersList(provider),
           Registered' = Registered \cup {provider}
    PROVE  /\ ListConsistent'
           /\ addressesProvidersList' \in Seq(Providers)
           /\ addressesProvidersIndexes' \in [Providers -> Nat]
<1> DEFINE n == Len(addressesProvidersList)
<1>1. /\ addressesProvidersList \in Seq(Providers) /\ n \in Nat
      /\ addressesProvidersIndexes \in [Providers -> Nat]
  BY LenProperties DEF RegistryIInv, RegistryTypeOK
<1>2. provider \notin Registered
  BY DEF Registered
<1>3. /\ addressesProvidersList' \in Seq(Providers)
      /\ Len(addressesProvidersList') = n + 1
      /\ \A i \in 1 .. n : addressesProvidersList'[i] = addressesProvidersList[i]
      /\ addressesProvidersList'[n + 1] = provider
  BY <1>1, AppendProperties DEF AddToAddressesProvidersList
<1>4. /\ addressesProvidersIndexes' \in [Providers -> Nat]
      /\ addressesProvidersIndexes'[provider] = n
      /\ \A p \in Providers \ {provider} :
             addressesProvidersIndexes'[p] = addressesProvidersIndexes[p]
  BY <1>1 DEF AddToAddressesProvidersList
<1>5. /\ \A i \in 1 .. n : /\ addressesProvidersList[i] \in Registered
                           /\ addressesProvidersIndexes[addressesProvidersList[i]] = i - 1
      /\ \A p \in Registered : /\ addressesProvidersIndexes[p] + 1 \in 1 .. n
                               /\ addressesProvidersList[addressesProvidersIndexes[p] + 1] = p
  BY DEF RegistryIInv, ListConsistent
<1> HIDE DEF n
<1>6. ASSUME NEW i \in 1 .. n + 1
      PROVE  /\ addressesProvidersList'[i] \in Registered'
             /\ addressesProvidersIndexes'[addressesProvidersList'[i]] = i - 1
  <2>1. CASE i = n + 1
    BY <1>1, <1>3, <1>4, <2>1, SMT
  <2>2. CASE i # n + 1
    <3>1. i \in 1 .. n
      BY <1>1, <2>2, SMT
    <3> DEFINE p == addressesProvidersList[i]
    <3>2. /\ addressesProvidersList'[i] = p /\ p \in Registered
          /\ addressesProvidersIndexes[p] = i - 1
      BY <1>3, <1>5, <3>1
    <3> HIDE DEF p
    <3>3. p \in Providers \ {provider}
      BY <1>2, <3>2 DEF Registered
    <3> QED
      BY <1>4, <3>2, <3>3
  <2> QED
    BY <2>1, <2>2
<1>7. ASSUME NEW p \in Registered'
      PROVE  /\ addressesProvidersIndexes'[p] + 1 \in 1 .. n + 1
             /\ addressesProvidersList'[addressesProvidersIndexes'[p] + 1] = p
  <2>1. CASE p = provider
    BY <1>1, <1>3, <1>4, <2>1, SMT
  <2>2. CASE p # provider
    <3> DEFINE j == addressesProvidersIndexes[p]
    <3>1. p \in Registered /\ addressesProvidersIndexes'[p] = j /\ j \in Nat
      BY <1>1, <1>4, <2>2 DEF Registered
    <3>2. j + 1 \in 1 .. n /\ addressesProvidersList[j + 1] = p
      BY <1>5, <3>1
    <3> HIDE DEF j
    <3>3. j + 1 \in 1 .. n + 1
      BY <1>1, <3>1, <3>2, SMT
    <3> QED
      BY <1>3, <3>1, <3>2, <3>3
  <2> QED
    BY <2>1, <2>2
<1> QED
  BY <1>3, <1>4, <1>6, <1>7 DEF ListConsistent

\* Filling the gap with the last provider and shortening the list.
LEMMA RemoveKeepsList ==
    ASSUME RegistryIInv, NEW provider \in Registered,
           RemoveFromAddressesProvidersList(provider),
           Registered' = Registered \ {provider}
    PROVE  /\ ListConsistent'
           /\ addressesProvidersList' \in Seq(Providers)
           /\ addressesProvidersIndexes' \in [Providers -> Nat]
<1> DEFINE n      == Len(addressesProvidersList)
           index  == addressesProvidersIndexes[provider]
           mover  == addressesProvidersList[n - 1 + 1]
           filled == [addressesProvidersList EXCEPT ![index + 1] = mover]
<1>1. /\ addressesProvidersList \in Seq(Providers) /\ n \in Nat
      /\ addressesProvidersIndexes \in [Providers -> Nat]
      /\ provider \in Providers
  BY LenProperties DEF RegistryIInv, RegistryTypeOK, Registered
<1>2. /\ \A i \in 1 .. n : /\ addressesProvidersList[i] \in Registered
                           /\ addressesProvidersIndexes[addressesProvidersList[i]] = i - 1
      /\ \A p \in Registered : /\ addressesProvidersIndexes[p] + 1 \in 1 .. n
                               /\ addressesProvidersList[addressesProvidersIndexes[p] + 1] = p
  BY DEF RegistryIInv, ListConsistent
<1>3. /\ index \in Nat /\ index + 1 \in 1 .. n /\ n - 1 \in Nat /\ n - 1 + 1 = n
      /\ n \in 1 .. n /\ index <= n - 1
  <2>1. index \in Nat /\ index + 1 \in 1 .. n
    BY <1>1, <1>2
  <2> HIDE DEF n, index
  <2> QED
    BY <1>1, <2>1, SMT
<1>4. /\ mover = addressesProvidersList[n] /\ mover \in Registered /\ mover \in Providers
      /\ addressesProvidersIndexes[mover] = n - 1
  BY <1>2, <1>3 DEF Registered
<1>5. /\ filled \in Seq(Providers) /\ Len(filled) = n
      /\ \A i \in 1 .. n : filled[i] = IF i = index + 1 THEN mover ELSE addressesProvidersList[i]
  BY <1>1, <1>3, <1>4, ExceptSeq
<1>6. /\ addressesProvidersList' = SubSeq(filled, 1, n - 1)
      /\ addressesProvidersIndexes' =
             [p \in Providers |->
                 IF p = mover /\ index < n - 1 THEN index
                 ELSE IF p = provider THEN 0 ELSE addressesProvidersIndexes[p]]
  BY DEF RemoveFromAddressesProvidersList
<1> HIDE DEF filled, mover, index, n
<1>7. /\ addressesProvidersList' \in Seq(Providers) /\ Len(addressesProvidersList') = n - 1
      /\ \A i \in 1 .. n - 1 :
             addressesProvidersList'[i] =
                 IF i = index + 1 THEN mover ELSE addressesProvidersList[i]
  <2>1. \A i \in 1 .. n - 1 : filled[i] \in Providers /\ i \in 1 .. n
    BY <1>3, <1>5, ElementOfSeq, SMT
  <2>2. /\ SubSeq(filled, 1, n - 1) \in Seq(Providers)
        /\ Len(SubSeq(filled, 1, n - 1)) = IF 1 <= n - 1 THEN n - 1 - 1 + 1 ELSE 0
        /\ \A i \in 1 .. n - 1 - 1 + 1 : SubSeq(filled, 1, n - 1)[i] = filled[1 + i - 1]
    BY <1>3, <2>1, SubSeqProperties
  <2>3. Len(SubSeq(filled, 1, n - 1)) = n - 1
    BY <1>3, <2>2, SMT
  <2>4. ASSUME NEW i \in 1 .. n - 1
        PROVE  SubSeq(filled, 1, n - 1)[i] = filled[i]
    <3>1. i \in 1 .. n - 1 - 1 + 1 /\ 1 + i - 1 = i
      BY <1>3, SMT
    <3> QED
      BY <2>2, <3>1
  <2> QED
    BY <1>5, <1>6, <2>1, <2>2, <2>3, <2>4
<1>8. addressesProvidersIndexes' \in [Providers -> Nat]
  BY <1>1, <1>3, <1>6
<1>9. ASSUME NEW i \in 1 .. n - 1
      PROVE  /\ addressesProvidersList'[i] \in Registered'
             /\ addressesProvidersIndexes'[addressesProvidersList'[i]] = i - 1
  <2>1. i \in 1 .. n /\ i # n /\ i \in Nat
    BY <1>3, SMT
  <2>2. CASE i = index + 1
    <3>1. index < n - 1 /\ i - 1 = index
      BY <1>3, <2>2, SMT
    <3>2. mover # provider
      BY <1>3, <1>4, <3>1, SMT DEF index
    <3> QED
      BY <1>4, <1>6, <1>7, <2>2, <3>1, <3>2
  <2>3. CASE i # index + 1
    <3> DEFINE p == addressesProvidersList[i]
    <3>1. addressesProvidersList'[i] = p /\ p \in Registered /\ p \in Providers
          /\ addressesProvidersIndexes[p] = i - 1
      BY <1>2, <1>7, <2>1, <2>3 DEF Registered
    <3> HIDE DEF p
    <3>2. p # provider
      BY <1>3, <2>1, <2>3, <3>1, SMT DEF index
    <3>3. p # mover
      BY <1>3, <1>4, <2>1, <3>1, SMT
    <3> QED
      BY <1>6, <3>1, <3>2, <3>3
  <2> QED
    BY <2>2, <2>3
<1>10. ASSUME NEW p \in Registered'
       PROVE  /\ addressesProvidersIndexes'[p] + 1 \in 1 .. n - 1
              /\ addressesProvidersList'[addressesProvidersIndexes'[p] + 1] = p
  <2>1. p \in Registered /\ p # provider /\ p \in Providers
    BY DEF Registered
  <2>2. CASE p = mover
    <3>1. index # n - 1
      BY <1>2, <1>3, <1>4, <2>1, <2>2 DEF index
    <3>2. index < n - 1 /\ index + 1 \in 1 .. n - 1
      BY <1>3, <3>1, SMT
    <3>3. addressesProvidersIndexes'[p] = index
      BY <1>6, <2>1, <2>2, <3>2
    <3> QED
      BY <1>7, <2>2, <3>2, <3>3
  <2>3. CASE p # mover
    <3> DEFINE j == addressesProvidersIndexes[p]
    <3>1. /\ addressesProvidersIndexes'[p] = j /\ j \in Nat
          /\ j + 1 \in 1 .. n /\ addressesProvidersList[j + 1] = p
      BY <1>1, <1>2, <1>6, <2>1, <2>3
    <3>2. j + 1 # n
      BY <1>4, <2>3, <3>1
    <3>3. j # index
      BY <1>2, <2>1, <3>1 DEF index
    <3> HIDE DEF j
    <3>4. j + 1 \in 1 .. n - 1 /\ j + 1 # index + 1
      BY <1>3, <3>1, <3>2, <3>3, SMT
    <3> QED
      BY <1>7, <3>1, <3>4
  <2> QED
    BY <2>2, <2>3
<1> QED
  BY <1>7, <1>8, <1>9, <1>10 DEF ListConsistent

\* Every registration and removal keeps the types and the list.
LEMMA RegistryInductive == Spec => []RegistryIInv
<1>1. Init => RegistryIInv
  BY EmptySeq, IdsAreNumbers, SMT DEF Init, RegistryIInv, RegistryTypeOK, ListConsistent, Registered
<1>2. RegistryIInv /\ [Next]_vars => RegistryIInv'
  <2> SUFFICES ASSUME RegistryIInv, [Next]_vars
               PROVE  RegistryIInv'
    OBVIOUS
  <2>1. /\ addressesProviderToId \in [Providers -> Ids \cup {0}]
        /\ idToAddressesProvider \in [Ids -> Providers \cup {ZeroAddress}]
    BY DEF RegistryIInv, RegistryTypeOK
  <2>2. ASSUME NEW provider \in Providers, NEW id \in Ids, RegisterAddressesProvider(provider, id)
        PROVE  RegistryIInv'
    <3>1. /\ addressesProviderToId' \in [Providers -> Ids \cup {0}]
          /\ idToAddressesProvider' \in [Ids -> Providers \cup {ZeroAddress}]
      BY <2>1, <2>2 DEF RegisterAddressesProvider
    <3>2. Registered' = Registered \cup {provider}
      BY <2>1, <2>2 DEF RegisterAddressesProvider, Registered
    <3> QED
      BY <2>2, <3>1, <3>2, AddKeepsList DEF RegisterAddressesProvider, RegistryIInv, RegistryTypeOK
  <2>3. ASSUME NEW provider \in Providers, UnregisterAddressesProvider(provider)
        PROVE  RegistryIInv'
    <3>1. /\ addressesProviderToId' \in [Providers -> Ids \cup {0}]
          /\ idToAddressesProvider' \in [Ids -> Providers \cup {ZeroAddress}]
      BY <2>1, <2>3 DEF UnregisterAddressesProvider
    <3>2. Registered' = Registered \ {provider} /\ provider \in Registered
      BY <2>1, <2>3 DEF UnregisterAddressesProvider, Registered
    <3> QED
      BY <2>3, <3>1, <3>2, RemoveKeepsList DEF UnregisterAddressesProvider, RegistryIInv, RegistryTypeOK
  <2>4. CASE UNCHANGED vars
    BY <2>4 DEF vars, maps, list, RegistryIInv, RegistryTypeOK, ListConsistent, Registered
  <2> QED
    BY <2>2, <2>3, <2>4 DEF Next
<1> QED
  BY <1>1, <1>2, PTL DEF Spec

\* The list and its indices agree after any registrations and removals
\* (ListConsistent of module AddressesProviderRegistry).
THEOREM ListCorrect == Spec => []ListConsistent
<1>1. RegistryIInv => ListConsistent
  BY DEF RegistryIInv
<1> QED
  BY <1>1, RegistryInductive, PTL

-----------------------------------------------------------------------------
\* The mappings are inverse to each other, for an owner who registers contracts
\* only (MapsInverse of module AddressesProviderRegistry).
THEOREM MapsCorrect ==
    ASSUME ZeroAddress \notin Providers
    PROVE  Spec => []MapsInverse
<1>1. Init => MapsInverse
  BY DEF Init, MapsInverse, Registered
<1>2. RegistryIInv /\ MapsInverse /\ [Next]_vars => MapsInverse'
  <2> SUFFICES ASSUME RegistryIInv, MapsInverse, [Next]_vars
               PROVE  MapsInverse'
    OBVIOUS
  <2>1. /\ addressesProviderToId \in [Providers -> Ids \cup {0}]
        /\ idToAddressesProvider \in [Ids -> Providers \cup {ZeroAddress}]
    BY DEF RegistryIInv, RegistryTypeOK
  <2>2. ASSUME NEW provider \in Providers, NEW id \in Ids, RegisterAddressesProvider(provider, id)
        PROVE  MapsInverse'
    BY <2>1, <2>2 DEF RegisterAddressesProvider, MapsInverse, Registered
  <2>3. ASSUME NEW provider \in Providers, UnregisterAddressesProvider(provider)
        PROVE  MapsInverse'
    BY <2>1, <2>3 DEF UnregisterAddressesProvider, MapsInverse, Registered
  <2>4. CASE UNCHANGED vars
    BY <2>4 DEF vars, maps, MapsInverse, Registered
  <2> QED
    BY <2>2, <2>3, <2>4 DEF Next
<1> QED
  BY <1>1, <1>2, RegistryInductive, PTL DEF Spec

\* The registry implements a map in which ids are unique
\* (ImplementsProviderIds of module AddressesProviderRegistry).
THEOREM RegistryImplements ==
    ASSUME ZeroAddress \notin Providers
    PROVE  Spec => ImplementsProviderIds
<1>1. Init => Abstract!Init
  BY DEF Init, Abstract!Init, registeredIds, Registered
<1>2. RegistryIInv /\ MapsInverse /\ [Next]_vars => [Abstract!Next]_registeredIds
  <2> SUFFICES ASSUME RegistryIInv, MapsInverse, [Next]_vars
               PROVE  [Abstract!Next]_registeredIds
    OBVIOUS
  <2>1. /\ addressesProviderToId \in [Providers -> Ids \cup {0}]
        /\ idToAddressesProvider \in [Ids -> Providers \cup {ZeroAddress}]
    BY DEF RegistryIInv, RegistryTypeOK
  <2>2. ASSUME NEW provider \in Providers, NEW id \in Ids, RegisterAddressesProvider(provider, id)
        PROVE  Abstract!Register(provider, id) /\ id \in Ids \ {0}
    <3>1. Registered' = Registered \cup {provider} /\ provider \notin Registered /\ id # 0
      BY <2>1, <2>2 DEF RegisterAddressesProvider, Registered
    <3>2. \A q \in Registered : addressesProviderToId[q] # id
      BY <2>2 DEF RegisterAddressesProvider, MapsInverse, Registered
    <3>3. id \notin Abstract!Range(registeredIds)
      BY <3>2 DEF Abstract!Range, registeredIds
    <3>4. \A q \in Registered' :
              addressesProviderToId'[q] = IF q = provider THEN id ELSE addressesProviderToId[q]
      BY <2>1, <2>2 DEF RegisterAddressesProvider, Registered
    <3>5. registeredIds' = [q \in DOMAIN registeredIds \cup {provider} |->
                               IF q = provider THEN id ELSE registeredIds[q]]
      BY <3>1, <3>4 DEF registeredIds
    <3> QED
      BY <3>1, <3>3, <3>5 DEF Abstract!Register, registeredIds
  <2>3. ASSUME NEW provider \in Providers, UnregisterAddressesProvider(provider)
        PROVE  Abstract!Unregister(provider)
    <3>1. Registered' = Registered \ {provider} /\ provider \in Registered
      BY <2>1, <2>3 DEF UnregisterAddressesProvider, Registered
    <3>2. \A q \in Registered' : addressesProviderToId'[q] = addressesProviderToId[q]
      BY <2>1, <2>3 DEF UnregisterAddressesProvider, Registered
    <3>3. registeredIds' = [q \in DOMAIN registeredIds \ {provider} |-> registeredIds[q]]
      BY <3>1, <3>2 DEF registeredIds
    <3> QED
      BY <3>1, <3>3 DEF Abstract!Unregister, registeredIds
  <2>4. CASE UNCHANGED vars
    BY <2>4 DEF vars, maps, registeredIds, Registered
  <2> QED
    BY <2>2, <2>3, <2>4 DEF Next, Abstract!Next
<1> QED
  BY <1>1, <1>2, RegistryInductive, MapsCorrect, PTL
     DEF Spec, ImplementsProviderIds, Abstract!Spec
-----------------------------------------------------------------------------
(* The proxies of a market. *)

\* What the provider names was created, with code of the kind it is named for.
NamedAreCreated == \A id \in ProxiedIds :
    addresses[id] # None =>
        addresses[id] \in Created /\ code[implementation[addresses[id]]].kind = id

\* A proxy is as far as the code it runs: no initializer of it is left to call.
UpToDate == \A p \in Created :
    storage[p].lastInitializedRevision = code[implementation[p]].revision

TokensAreCreated == \A pool \in Proxies, asset \in Assets :
    aTokenOf[pool][asset] # None => aTokenOf[pool][asset] \in Created

MarketIInv ==
    /\ UpgradeabilityTypeOK /\ NamedAreCreated /\ UpToDate /\ TokensAreCreated
    /\ KnowsItsPool /\ TokensOfTheirPool

\* One proxy gets new code and is initialised with it: what CreateProxy and
\* UpgradeToAndCall have in common.
GetsCode(p, i, argument) ==
    /\ Initializes(i, storage[p].lastInitializedRevision, argument)
    /\ implementation' = [implementation EXCEPT ![p] = i]
    /\ storage' = [storage EXCEPT ![p] = Initialized(i, @, addresses["POOL"])]

\* It is up to date then, and no other proxy or implementation has changed.
LEMMA CodeGiven ==
    ASSUME UpgradeabilityTypeOK, NEW p \in Proxies, NEW i \in Implementations,
           NEW argument, GetsCode(p, i, argument)
    PROVE  /\ implementation' \in [Proxies -> Implementations \cup {None}]
           /\ storage' \in [Contracts -> [lastInitializedRevision : Nat,
                                          pool : Proxies \cup {None}]]
           /\ Created' = Created \cup {p}
           /\ implementation'[p] = i
           /\ storage'[p].lastInitializedRevision = code[i].revision
           /\ storage'[p].pool = IF code[i].kind = "POOL_CONFIGURATOR" THEN addresses["POOL"]
                                 ELSE storage[p].pool
           /\ \A q \in Proxies : q # p => implementation'[q] = implementation[q]
           /\ \A c \in Contracts : c # p => storage'[c] = storage[c]
<1>1. /\ implementation \in [Proxies -> Implementations \cup {None}]
      /\ storage \in [Contracts -> [lastInitializedRevision : Nat, pool : Proxies \cup {None}]]
      /\ addresses["POOL"] \in Proxies \cup {None}
      /\ p \in Contracts
  BY DEF UpgradeabilityTypeOK, ProxiedIds, Contracts
<1>2. i # None /\ code[i].revision \in Nat
  BY MarketAssumption
<1>3. /\ implementation' = [implementation EXCEPT ![p] = i]
      /\ storage' = [storage EXCEPT ![p] = Initialized(i, @, addresses["POOL"])]
  BY DEF GetsCode
<1>4. /\ implementation' \in [Proxies -> Implementations \cup {None}]
      /\ implementation'[p] = i
      /\ \A q \in Proxies : q # p => implementation'[q] = implementation[q]
  BY <1>1, <1>3
<1> DEFINE new == Initialized(i, storage[p], addresses["POOL"])
<1>5. /\ new \in [lastInitializedRevision : Nat, pool : Proxies \cup {None}]
      /\ new.lastInitializedRevision = code[i].revision
      /\ new.pool = IF code[i].kind = "POOL_CONFIGURATOR" THEN addresses["POOL"]
                    ELSE storage[p].pool
  BY <1>1, <1>2 DEF Initialized
<1>6. storage' = [storage EXCEPT ![p] = new]
  BY <1>3
<1> HIDE DEF new
<1>7. /\ storage'[p] = new
      /\ storage' \in [Contracts -> [lastInitializedRevision : Nat, pool : Proxies \cup {None}]]
      /\ \A c \in Contracts : c # p => storage'[c] = storage[c]
  BY <1>1, <1>5, <1>6
<1>8. Created' = Created \cup {p}
  BY <1>2, <1>4 DEF Created
<1> QED
  BY <1>4, <1>5, <1>7, <1>8

\* A new proxy, or one that gets code of the kind it has: every proxy stays what it was.
LEMMA KindsAreKept ==
    ASSUME UpgradeabilityTypeOK, NamedAreCreated, UpToDate,
           NEW p \in Proxies, NEW i \in Implementations,
           NEW argument, GetsCode(p, i, argument),
           p \notin Created \/ code[implementation[p]].kind = code[i].kind
    PROVE  /\ UpToDate'
           /\ \A q \in Created : /\ q \in Created'
                                 /\ code[implementation'[q]].kind = code[implementation[q]].kind
           /\ \A c : Configurator(c) => Configurator(c)'
<1>1. /\ Created' = Created \cup {p}
      /\ implementation'[p] = i
      /\ storage'[p].lastInitializedRevision = code[i].revision
      /\ \A q \in Proxies : q # p => implementation'[q] = implementation[q]
      /\ \A c \in Contracts : c # p => storage'[c] = storage[c]
  BY CodeGiven
<1>2. Created \subseteq Proxies /\ Proxies \subseteq Contracts
  BY DEF Created, Contracts
<1>3. UpToDate'
  <2> SUFFICES ASSUME NEW q \in Created'
               PROVE  storage'[q].lastInitializedRevision = code[implementation'[q]].revision
    BY DEF UpToDate
  <2> QED
    BY <1>1, <1>2 DEF UpToDate
<1>4. ASSUME NEW q \in Created
      PROVE  /\ q \in Created'
             /\ code[implementation'[q]].kind = code[implementation[q]].kind
  BY <1>1, <1>2
<1>5. \A c : Configurator(c) => Configurator(c)'
  BY <1>4 DEF Configurator
<1> QED
  BY <1>3, <1>4, <1>5

\* What is said of a token in the books of a pool.
TokenFits(token, pool) ==
    /\ token \in Created
    /\ code[implementation[token]].belongsTo = pool
    /\ code[implementation[token]].kind = "TOKEN"
    /\ admin[token] \in Created
    /\ code[implementation[admin[token]]].kind = "POOL_CONFIGURATOR"

\* It is said again after a step, of each token in the books.
LEMMA TokensFit ==
    ASSUME \A pool \in Proxies, asset \in Assets :
               aTokenOf'[pool][asset] # None => TokenFits(aTokenOf[pool][asset], pool)'
    PROVE  TokensAreCreated' /\ TokensOfTheirPool'
  BY DEF TokenFits, TokensAreCreated, TokensOfTheirPool, Configurator

\* A token that keeps code and admin stays as it is, if no proxy changes its kind.
LEMMA TokenStays ==
    ASSUME MarketIInv, NEW pool \in Proxies, NEW asset \in Assets, NEW token,
           token = aTokenOf[pool][asset], token # None,
           \A q \in Created : /\ q \in Created'
                              /\ code[implementation'[q]].kind = code[implementation[q]].kind,
           implementation'[token] = implementation[token], admin'[token] = admin[token]
    PROVE  TokenFits(token, pool)'
  BY DEF MarketIInv, TokenFits, TokensAreCreated, TokensOfTheirPool, Configurator

\* setPoolImpl and its like: a proxy of the provider is created or upgraded.
LEMMA UpdateImplKeeps ==
    ASSUME MarketIInv, NEW id \in ProxiedIds, NEW i \in Implementations, UpdateImpl(id, i)
    PROVE  MarketIInv'
<1> USE DEF MarketIInv
<1>1. PICK p \in Proxies :
          /\ GetsCode(p, i, Provider)
          /\ addresses' = [addresses EXCEPT ![id] = p]
          /\ \/ addresses[id] = None /\ p \notin Created
                /\ admin' = [admin EXCEPT ![p] = Provider]
             \/ addresses[id] = p /\ p \in Created /\ admin[p] = Provider /\ admin' = admin
  <2>1. CASE addresses[id] = None
    <3>1. PICK p \in Proxies : /\ CreateProxy(Provider, p, i, Provider)
                               /\ addresses' = [addresses EXCEPT ![id] = p]
      BY <2>1 DEF UpdateImpl
    <3> QED
      BY <2>1, <3>1 DEF CreateProxy, GetsCode
  <2>2. CASE addresses[id] # None
    <3>1. UpgradeToAndCall(Provider, addresses[id], i, Provider) /\ addresses' = addresses
      BY <2>2 DEF UpdateImpl
    <3>2. addresses[id] \in Created /\ addresses[id] \in Proxies
      BY <2>2 DEF NamedAreCreated, Created
    <3>3. addresses' = [addresses EXCEPT ![id] = addresses[id]]
      BY <3>1 DEF UpgradeabilityTypeOK
    <3> QED
      BY <3>1, <3>2, <3>3 DEF UpgradeToAndCall, GetsCode
  <2> QED
    BY <2>1, <2>2
<1>2. /\ addresses \in [ProxiedIds -> Proxies \cup {None}]
      /\ admin \in [Proxies -> Proxies \cup {Provider, None}]
      /\ UNCHANGED <<aTokenOf, hardReplaced>> /\ code[i].kind = id
      /\ p \notin Created \/ code[implementation[p]].kind = code[i].kind
      /\ None \notin Proxies /\ Provider \notin Proxies
  BY <1>1, MarketAssumption DEF UpdateImpl, UpgradeabilityTypeOK, NamedAreCreated
<1>3. /\ implementation' \in [Proxies -> Implementations \cup {None}]
      /\ storage' \in [Contracts -> [lastInitializedRevision : Nat, pool : Proxies \cup {None}]]
      /\ Created' = Created \cup {p}
      /\ implementation'[p] = i
      /\ storage'[p].pool = IF code[i].kind = "POOL_CONFIGURATOR" THEN addresses["POOL"]
                            ELSE storage[p].pool
      /\ \A q \in Proxies : q # p => implementation'[q] = implementation[q]
      /\ \A c \in Contracts : c # p => storage'[c] = storage[c]
  BY <1>1, CodeGiven
<1>4. /\ UpToDate'
      /\ \A q \in Created : /\ q \in Created'
                            /\ code[implementation'[q]].kind = code[implementation[q]].kind
      /\ \A c : Configurator(c) => Configurator(c)'
  BY <1>1, <1>2, KindsAreKept
<1>5. UpgradeabilityTypeOK'
  <2>1. addresses' \in [ProxiedIds -> Proxies \cup {None}]
    BY <1>1, <1>2
  <2>2. admin' \in [Proxies -> Proxies \cup {Provider, None}]
    BY <1>1, <1>2
  <2> QED
    BY <1>2, <1>3, <2>1, <2>2 DEF UpgradeabilityTypeOK
<1>6. NamedAreCreated'
  <2> SUFFICES ASSUME NEW other \in ProxiedIds, addresses'[other] # None
               PROVE  /\ addresses'[other] \in Created'
                      /\ code[implementation'[addresses'[other]]].kind = other
    BY DEF NamedAreCreated
  <2>1. CASE other = id
    BY <1>1, <1>2, <1>3, <2>1
  <2>2. CASE other # id
    BY <1>1, <1>2, <1>4, <2>2 DEF NamedAreCreated
  <2> QED
    BY <2>1, <2>2
<1>7. ASSUME NEW pool \in Proxies, NEW asset \in Assets, NEW token,
             token = aTokenOf[pool][asset], token # None
      PROVE  TokenFits(token, pool)'
  <2>1. token \in Created /\ Configurator(admin[token])
    BY <1>7 DEF TokensAreCreated, TokensOfTheirPool
  <2>2. token \in Proxies /\ admin[token] \in Proxies
    BY <2>1 DEF Created, Configurator
  <2>3. token # p
    BY <1>1, <1>2, <1>7, <2>1, <2>2
  <2>4. implementation'[token] = implementation[token] /\ admin'[token] = admin[token]
    BY <1>1, <1>2, <1>3, <1>7, <2>2, <2>3
  <2> QED
    BY <1>4, <1>7, <2>4, TokenStays
<1>8. TokensAreCreated' /\ TokensOfTheirPool'
  BY <1>2, <1>7, TokensFit
<1>9. KnowsItsPool'
  <2> SUFFICES ASSUME ~ hardReplaced, addresses'["POOL_CONFIGURATOR"] # None
               PROVE  storage'[addresses'["POOL_CONFIGURATOR"]].pool
                          \in {addresses'["POOL"], None}
    BY <1>2 DEF KnowsItsPool
  <2>1. CASE id = "POOL_CONFIGURATOR"
    BY <1>1, <1>2, <1>3, <2>1 DEF ProxiedIds
  <2>2. CASE id = "POOL"
    <3> DEFINE c == addresses["POOL_CONFIGURATOR"]
    <3>1. /\ addresses'["POOL_CONFIGURATOR"] = c /\ addresses'["POOL"] = p
          /\ c # None /\ addresses["POOL"] \in {p, None}
      BY <1>1, <1>2, <2>2 DEF ProxiedIds
    <3>2. storage[c].pool \in {addresses["POOL"], None} /\ c \in Contracts
      BY <1>2, <3>1 DEF KnowsItsPool, Contracts, ProxiedIds
    <3>3. storage'[c].pool = storage[c].pool
      BY <1>2, <1>3, <2>2, <3>2
    <3> QED
      BY <3>1, <3>2, <3>3
  <2> QED
    BY <2>1, <2>2 DEF ProxiedIds
<1> QED
  BY <1>4, <1>5, <1>6, <1>8, <1>9

\* The configurator of the market is not among the proxies that a step gives code to.
LEMMA PoolStaysKnown ==
    ASSUME KnowsItsPool, NEW c, c = addresses["POOL_CONFIGURATOR"],
           UNCHANGED <<addresses, hardReplaced>>, c # None => storage'[c] = storage[c]
    PROVE  KnowsItsPool'
  BY DEF KnowsItsPool

\* What the provider names keeps its kind.
LEMMA NamedStay ==
    ASSUME NamedAreCreated, UNCHANGED addresses,
           \A q \in Created : /\ q \in Created'
                              /\ code[implementation'[q]].kind = code[implementation[q]].kind
    PROVE  NamedAreCreated'
  BY DEF NamedAreCreated

\* initReserve: a new token, for the pool that the configurator keeps.
LEMMA InitReserveKeeps ==
    ASSUME MarketIInv, NEW c \in Proxies, NEW asset \in Assets, NEW i \in Implementations,
           InitReserve(c, asset, i)
    PROVE  MarketIInv'
<1> USE DEF MarketIInv
<1> DEFINE pool == storage[c].pool
<1>1. PICK p \in Proxies :
          CreateProxy(c, p, i, pool) /\ aTokenOf' = [aTokenOf EXCEPT ![pool][asset] = p]
  BY DEF InitReserve
<1>2. /\ GetsCode(p, i, pool) /\ p \notin Created
      /\ admin' = [admin EXCEPT ![p] = c]
      /\ code[i].kind = "TOKEN" /\ BodyAccepts(i, pool)
      /\ UNCHANGED <<addresses, hardReplaced>> /\ Configurator(c)
  BY <1>1 DEF InitReserve, CreateProxy, GetsCode, Initializes
<1>3. /\ pool \in Proxies
      /\ admin \in [Proxies -> Proxies \cup {Provider, None}]
      /\ aTokenOf \in [Proxies -> [Assets -> Proxies \cup {None}]]
      /\ None \notin Proxies
  BY MarketAssumption DEF InitReserve, UpgradeabilityTypeOK, Contracts
<1> HIDE DEF pool
<1>4. code[i].belongsTo = pool
  BY <1>2, Zenon DEF BodyAccepts
<1>5. /\ implementation' \in [Proxies -> Implementations \cup {None}]
      /\ storage' \in [Contracts -> [lastInitializedRevision : Nat, pool : Proxies \cup {None}]]
      /\ Created' = Created \cup {p}
      /\ implementation'[p] = i
      /\ \A q \in Proxies : q # p => implementation'[q] = implementation[q]
      /\ \A q \in Contracts : q # p => storage'[q] = storage[q]
  BY <1>2, CodeGiven
<1>6. /\ UpToDate'
      /\ \A q \in Created : /\ q \in Created'
                            /\ code[implementation'[q]].kind = code[implementation[q]].kind
      /\ Configurator(c)'
  BY <1>2, KindsAreKept
<1>7. /\ admin' \in [Proxies -> Proxies \cup {Provider, None}]
      /\ admin'[p] = c /\ \A q \in Proxies : q # p => admin'[q] = admin[q]
  BY <1>2, <1>3
<1>8. /\ aTokenOf' \in [Proxies -> [Assets -> Proxies \cup {None}]]
      /\ aTokenOf'[pool][asset] = p
      /\ \A q \in Proxies, a \in Assets :
             (q = pool /\ a = asset) \/ aTokenOf'[q][a] = aTokenOf[q][a]
  BY <1>1, <1>3
<1>9. UpgradeabilityTypeOK'
  BY <1>2, <1>5, <1>7, <1>8 DEF UpgradeabilityTypeOK
<1>10. NamedAreCreated'
  BY <1>2, <1>6, NamedStay
<1>11. KnowsItsPool'
  <2> DEFINE named == addresses["POOL_CONFIGURATOR"]
  <2>1. named # None => named \in Created /\ named \in Contracts
    BY DEF NamedAreCreated, ProxiedIds, Created, Contracts
  <2>2. named # None => storage'[named] = storage[named]
    BY <1>2, <1>5, <2>1
  <2> QED
    BY <1>2, <2>2, PoolStaysKnown
<1>12. ASSUME NEW q \in Proxies, NEW a \in Assets, NEW token,
              token = aTokenOf'[q][a], token # None
       PROVE  TokenFits(token, q)'
  <2>1. CASE q = pool /\ a = asset
    <3>1. token = p
      BY <1>8, <1>12, <2>1
    <3> QED
      BY <1>2, <1>4, <1>5, <1>6, <1>7, <2>1, <3>1 DEF TokenFits, Configurator
  <2>2. CASE ~ (q = pool /\ a = asset)
    <3>1. token = aTokenOf[q][a]
      BY <1>8, <1>12, <2>2
    <3>2. token \in Created /\ token \in Proxies
      BY <1>12, <3>1 DEF TokensAreCreated, Created
    <3>3. implementation'[token] = implementation[token] /\ admin'[token] = admin[token]
      BY <1>2, <1>5, <1>7, <3>2
    <3> QED
      BY <1>6, <1>12, <3>1, <3>3, TokenStays
  <2> QED
    BY <2>1, <2>2
<1>13. TokensAreCreated' /\ TokensOfTheirPool'
  BY <1>12, TokensFit
<1> QED
  BY <1>6, <1>9, <1>10, <1>11, <1>13

\* updateAToken and its like: the token is of this pool before and after, whoever named
\* it, and of no other pool.
LEMMA UpdateTokenKeeps ==
    ASSUME MarketIInv, NEW c \in Proxies, NEW asset \in Assets, NEW i \in Implementations,
           UpdateToken(c, asset, i)
    PROVE  MarketIInv'
<1> USE DEF MarketIInv
<1> DEFINE pool == storage[c].pool
           p    == aTokenOf[pool][asset]
<1>1. /\ GetsCode(p, i, pool) /\ p # None /\ pool # None
      /\ code[i].kind = "TOKEN" /\ BodyAccepts(i, pool)
      /\ UNCHANGED <<addresses, hardReplaced, admin, aTokenOf>>
  BY DEF UpdateToken, UpgradeToAndCall, GetsCode, Initializes
<1>2. pool \in Proxies
  BY <1>1 DEF UpgradeabilityTypeOK, Contracts
<1>3. /\ p \in Created /\ p \in Proxies
      /\ code[implementation[p]].kind = "TOKEN"
      /\ code[implementation[p]].belongsTo = pool
  BY <1>1, <1>2 DEF TokensAreCreated, TokensOfTheirPool, Created
<1> HIDE DEF pool, p
<1>4. code[i].belongsTo = pool
  BY <1>1, Zenon DEF BodyAccepts
<1>5. /\ implementation' \in [Proxies -> Implementations \cup {None}]
      /\ storage' \in [Contracts -> [lastInitializedRevision : Nat, pool : Proxies \cup {None}]]
      /\ Created' = Created \cup {p}
      /\ implementation'[p] = i
      /\ \A q \in Proxies : q # p => implementation'[q] = implementation[q]
      /\ \A q \in Contracts : q # p => storage'[q] = storage[q]
  BY <1>1, <1>3, CodeGiven
<1>6. /\ UpToDate'
      /\ \A q \in Created : /\ q \in Created'
                            /\ code[implementation'[q]].kind = code[implementation[q]].kind
  BY <1>1, <1>3, KindsAreKept
<1>7. UpgradeabilityTypeOK'
  BY <1>1, <1>5 DEF UpgradeabilityTypeOK
<1>8. NamedAreCreated'
  BY <1>1, <1>6, NamedStay
<1>9. KnowsItsPool'
  <2> DEFINE named == addresses["POOL_CONFIGURATOR"]
  <2>1. named # None => /\ named \in Contracts
                        /\ code[implementation[named]].kind = "POOL_CONFIGURATOR"
    BY DEF NamedAreCreated, ProxiedIds, Created, Contracts
  <2>2. named # None => storage'[named] = storage[named]
    BY <1>3, <1>5, <2>1
  <2> QED
    BY <1>1, <2>2, PoolStaysKnown
<1>10. ASSUME NEW q \in Proxies, NEW a \in Assets, NEW token,
              token = aTokenOf[q][a], token # None
       PROVE  TokenFits(token, q)'
  <2>1. /\ token \in Created /\ token \in Proxies
        /\ code[implementation[token]].belongsTo = q /\ Configurator(admin[token])
    BY <1>10 DEF TokensAreCreated, TokensOfTheirPool, Created
  <2>2. CASE token = p
    <3>1. q = pool
      BY <1>3, <2>1, <2>2
    <3> QED
      BY <1>1, <1>4, <1>5, <1>6, <2>1, <2>2, <3>1 DEF TokenFits, Configurator
  <2>3. CASE token # p
    <3>1. implementation'[token] = implementation[token] /\ admin'[token] = admin[token]
      BY <1>1, <1>5, <2>1, <2>3
    <3> QED
      BY <1>6, <1>10, <3>1, TokenStays
  <2> QED
    BY <2>2, <2>3
<1>11. TokensAreCreated' /\ TokensOfTheirPool'
  BY <1>1, <1>10, TokensFit
<1> QED
  BY <1>6, <1>7, <1>8, <1>9, <1>11

\* A stranger finds no proxy to initialise, only implementations.
LEMMA StrangersInitializeCodeOnly ==
    ASSUME UpgradeabilityTypeOK, UpToDate, NEW contract, NEW argument,
           Initialize(contract, argument)
    PROVE  \A p \in Proxies : storage'[p] = storage[p]
<1>1. contract \notin Created
  <2> SUFFICES ASSUME contract \in Created PROVE FALSE
    OBVIOUS
  <2>1. code[implementation[contract]].revision > storage[contract].lastInitializedRevision
    BY DEF Initialize, Initializes
  <2>2. implementation[contract] \in Implementations
    BY DEF Created, UpgradeabilityTypeOK
  <2>3. code[implementation[contract]].revision \in Nat
    BY <2>2, MarketAssumption
  <2>4. storage[contract].lastInitializedRevision = code[implementation[contract]].revision
    BY DEF UpToDate
  <2> QED
    BY <2>1, <2>3, <2>4
<1>2. contract \in Implementations /\ contract \notin Proxies
  BY <1>1, MarketAssumption DEF Initialize
<1> QED
  BY <1>2 DEF Initialize, UpgradeabilityTypeOK, Contracts

\* Every step of the owner, of a configurator or of a stranger keeps the market together.
LEMMA NextKeepsMarket == MarketIInv /\ [UpgradeabilityNext]_upgradeVars => MarketIInv'
<1> SUFFICES ASSUME MarketIInv, [UpgradeabilityNext]_upgradeVars PROVE MarketIInv'
  OBVIOUS
<1>1. ASSUME NEW id \in ProxiedIds, NEW newAddress \in Proxies \cup {None},
             SetAddress(id, newAddress)
      PROVE  MarketIInv'
  <2>1. /\ newAddress # None =>
             newAddress \in Created /\ code[implementation[newAddress]].kind = id
        /\ addresses' = [addresses EXCEPT ![id] = newAddress] /\ hardReplaced' = TRUE
        /\ UNCHANGED <<admin, implementation, storage, aTokenOf>>
    BY <1>1 DEF SetAddress
  <2>2. UpgradeabilityTypeOK /\ NamedAreCreated /\ UpToDate /\ TokensAreCreated
        /\ TokensOfTheirPool
    BY DEF MarketIInv
  <2>3. UpgradeabilityTypeOK'
    BY <2>1, <2>2 DEF UpgradeabilityTypeOK
  <2>4. Created' = Created
    BY <2>1 DEF Created
  <2>5. NamedAreCreated'
    BY <2>1, <2>2, <2>4 DEF NamedAreCreated, UpgradeabilityTypeOK
  <2>6. UpToDate' /\ TokensAreCreated'
    BY <2>1, <2>2, <2>4 DEF UpToDate, TokensAreCreated
  <2>7. TokensOfTheirPool'
    BY <2>1, <2>2, <2>4 DEF TokensOfTheirPool, Configurator
  <2>8. KnowsItsPool'
    BY <2>1 DEF KnowsItsPool
  <2> QED
    BY <2>3, <2>5, <2>6, <2>7, <2>8 DEF MarketIInv
<1>2. ASSUME NEW c \in Proxies, NEW asset \in Assets, DropReserve(c, asset)
      PROVE  MarketIInv'
  <2> DEFINE pool == storage[c].pool
  <2>1. /\ aTokenOf' = [aTokenOf EXCEPT ![pool][asset] = None]
        /\ UNCHANGED <<addresses, admin, implementation, storage, hardReplaced>>
        /\ pool # None
    BY <1>2 DEF DropReserve
  <2>2. UpgradeabilityTypeOK /\ NamedAreCreated /\ UpToDate /\ TokensAreCreated
        /\ KnowsItsPool /\ TokensOfTheirPool
    BY DEF MarketIInv
  <2>3. pool \in Proxies
    BY <2>1, <2>2 DEF UpgradeabilityTypeOK, Contracts
  <2> HIDE DEF pool
  <2>4. /\ aTokenOf' \in [Proxies -> [Assets -> Proxies \cup {None}]]
        /\ \A q \in Proxies, a \in Assets : aTokenOf'[q][a] \in {aTokenOf[q][a], None}
    BY <2>1, <2>2, <2>3 DEF UpgradeabilityTypeOK
  <2>5. UpgradeabilityTypeOK'
    BY <2>1, <2>2, <2>4 DEF UpgradeabilityTypeOK
  <2>6. Created' = Created
    BY <2>1 DEF Created
  <2>7. NamedAreCreated' /\ UpToDate' /\ KnowsItsPool'
    BY <2>1, <2>2, <2>6 DEF NamedAreCreated, UpToDate, KnowsItsPool
  <2>8. TokensAreCreated'
    BY <2>2, <2>4, <2>6 DEF TokensAreCreated
  <2>9. TokensOfTheirPool'
    <3> SUFFICES ASSUME NEW q \in Proxies, NEW a \in Assets, NEW token,
                        token = aTokenOf'[q][a], token # None
                 PROVE  TokenFits(token, q)'
      BY <2>2, TokensFit
    <3>1. token = aTokenOf[q][a]
      BY <2>4
    <3> QED
      BY <2>1, <2>6, <3>1, TokenStays
  <2> QED
    BY <2>5, <2>7, <2>8, <2>9 DEF MarketIInv
<1>3. ASSUME NEW contract \in Called, NEW argument \in Proxies \cup {Provider},
             Initialize(contract, argument)
      PROVE  MarketIInv'
  <2>1. UpgradeabilityTypeOK /\ NamedAreCreated /\ UpToDate /\ TokensAreCreated
        /\ KnowsItsPool /\ TokensOfTheirPool
    BY DEF MarketIInv
  <2>2. \A p \in Proxies : storage'[p] = storage[p]
    BY <1>3, <2>1, StrangersInitializeCodeOnly
  <2>3. UNCHANGED <<addresses, admin, implementation, aTokenOf, hardReplaced>>
    BY <1>3 DEF Initialize
  <2> DEFINE i == IF contract \in Created THEN implementation[contract] ELSE contract
             new == Initialized(i, storage[contract], addresses["POOL"])
  <2>4. /\ contract \in Contracts /\ i \in Implementations
        /\ storage' = [storage EXCEPT ![contract] = new]
    BY <1>3, <2>1 DEF Initialize, Contracts, Created, UpgradeabilityTypeOK
  <2>5. new \in [lastInitializedRevision : Nat, pool : Proxies \cup {None}]
    <3>1. code[i].revision \in Nat
      BY <2>4, MarketAssumption
    <3>2. /\ storage[contract] \in [lastInitializedRevision : Nat, pool : Proxies \cup {None}]
          /\ addresses["POOL"] \in Proxies \cup {None}
      BY <2>1, <2>4 DEF UpgradeabilityTypeOK, ProxiedIds
    <3> HIDE DEF i
    <3> QED
      BY <3>1, <3>2 DEF Initialized
  <2> HIDE DEF i, new
  <2>6. UpgradeabilityTypeOK'
    BY <2>1, <2>3, <2>4, <2>5 DEF UpgradeabilityTypeOK
  <2>7. Created' = Created /\ Created \subseteq Proxies
    BY <2>3 DEF Created
  <2>8. NamedAreCreated' /\ TokensAreCreated'
    BY <2>1, <2>3, <2>7 DEF NamedAreCreated, TokensAreCreated
  <2>9. UpToDate'
    BY <2>1, <2>2, <2>3, <2>7 DEF UpToDate
  <2>10. TokensOfTheirPool'
    BY <2>1, <2>3, <2>7 DEF TokensOfTheirPool, Configurator
  <2>11. KnowsItsPool'
    <3> DEFINE c == addresses["POOL_CONFIGURATOR"]
    <3>1. c # None => c \in Proxies
      BY <2>1 DEF UpgradeabilityTypeOK, ProxiedIds
    <3> QED
      BY <2>1, <2>2, <2>3, <3>1, PoolStaysKnown
  <2> QED
    BY <2>6, <2>8, <2>9, <2>10, <2>11 DEF MarketIInv
<1>4. CASE UNCHANGED upgradeVars
  <2>1. UNCHANGED <<addresses, admin, implementation, storage, aTokenOf, hardReplaced>>
    BY <1>4 DEF upgradeVars
  <2> QED
    BY <2>1 DEF MarketIInv, UpgradeabilityTypeOK, NamedAreCreated, UpToDate,
                TokensAreCreated, KnowsItsPool, TokensOfTheirPool, Configurator, Created
<1> QED
  BY <1>1, <1>2, <1>3, <1>4, UpdateImplKeeps, InitReserveKeeps, UpdateTokenKeeps
     DEF UpgradeabilityNext

\* Nothing exists in the beginning.
LEMMA InitMarket == UpgradeabilityInit => MarketIInv
<1> SUFFICES ASSUME UpgradeabilityInit PROVE MarketIInv
  OBVIOUS
<1>1. /\ addresses = [id \in ProxiedIds |-> None]
      /\ admin = [p \in Proxies |-> None]
      /\ implementation = [p \in Proxies |-> None]
      /\ storage = [c \in Contracts |-> [lastInitializedRevision |-> 0, pool |-> None]]
      /\ aTokenOf = [p \in Proxies |-> [a \in Assets |-> None]]
      /\ hardReplaced = FALSE
  BY DEF UpgradeabilityInit
<1>2. UpgradeabilityTypeOK
  BY <1>1 DEF UpgradeabilityTypeOK
<1>3. Created = {}
  BY <1>1 DEF Created
<1>4. NamedAreCreated /\ UpToDate /\ TokensAreCreated /\ KnowsItsPool /\ TokensOfTheirPool
  BY <1>1, <1>3
     DEF NamedAreCreated, UpToDate, TokensAreCreated, KnowsItsPool, TokensOfTheirPool, ProxiedIds
<1> QED
  BY <1>2, <1>4 DEF MarketIInv

\* The invariant of the market holds throughout.
LEMMA MarketInductive == UpgradeabilitySpec => []MarketIInv
  BY InitMarket, NextKeepsMarket, PTL DEF UpgradeabilitySpec

\* Provider, pool, configurator and tokens are of one market, after any number of
\* upgrades, replacements and initializations by anyone (setPoolImpl, setAddress,
\* initReserve, updateAToken, initialize).
THEOREM Together == UpgradeabilitySpec => []OneMarket
<1>1. MarketIInv => OneMarket
  BY DEF MarketIInv, OneMarket
<1> QED
  BY <1>1, MarketInductive, PTL

\* No step sets the storage of a proxy but one that gives it new code
\* (VersionedInitializable.initializer, behind a proxy that requires the call it makes).
THEOREM OnlyUpgradesInitialize == UpgradeabilitySpec => InitializedByUpgradesOnly
<1>1. ASSUME MarketIInv, [UpgradeabilityNext]_upgradeVars, NEW q \in Proxies,
             storage'[q] # storage[q]
      PROVE  implementation'[q] # implementation[q]
  <2>1. UpgradeabilityTypeOK /\ UpToDate
    BY <1>1 DEF MarketIInv
  <2>2. ASSUME NEW p \in Proxies, NEW i \in Implementations, NEW argument,
               GetsCode(p, i, argument)
        PROVE  implementation'[q] # implementation[q]
    <3>1. /\ implementation'[p] = i
          /\ \A c \in Contracts : c # p => storage'[c] = storage[c]
      BY <2>1, <2>2, CodeGiven
    <3>2. q = p
      BY <1>1, <3>1 DEF Contracts
    <3>3. CASE q \in Created
      <4>1. /\ code[i].revision > storage[p].lastInitializedRevision
            /\ storage[p].lastInitializedRevision = code[implementation[p]].revision
        BY <2>1, <2>2, <3>2, <3>3 DEF GetsCode, Initializes, UpToDate
      <4>2. code[i].revision \in Nat
        BY MarketAssumption
      <4>3. i # implementation[p]
        BY <4>1, <4>2
      <4> QED
        BY <3>1, <3>2, <4>3
    <3>4. CASE q \notin Created
      <4>1. implementation[q] = None
        BY <3>4 DEF Created
      <4> QED
        BY <3>1, <3>2, <4>1, MarketAssumption
    <3> QED
      BY <3>3, <3>4
  <2>3. ASSUME NEW creator, NEW p \in Proxies, NEW i \in Implementations, NEW argument,
               CreateProxy(creator, p, i, argument)
        PROVE  implementation'[q] # implementation[q]
    BY <2>2, <2>3 DEF CreateProxy, GetsCode
  <2>4. ASSUME NEW caller, NEW p \in Proxies, NEW i \in Implementations, NEW argument,
               UpgradeToAndCall(caller, p, i, argument)
        PROVE  implementation'[q] # implementation[q]
    BY <2>2, <2>4 DEF UpgradeToAndCall, GetsCode
  <2>5. ASSUME NEW id \in ProxiedIds, NEW i \in Implementations, UpdateImpl(id, i)
        PROVE  implementation'[q] # implementation[q]
    <3>1. CASE addresses[id] = None
      BY <2>3, <2>5, <3>1 DEF UpdateImpl
    <3>2. CASE addresses[id] # None
      <4>1. addresses[id] \in Proxies
        BY <2>1, <3>2 DEF UpgradeabilityTypeOK
      <4> QED
        BY <2>4, <2>5, <3>2, <4>1 DEF UpdateImpl
    <3> QED
      BY <3>1, <3>2
  <2>6. ASSUME NEW c \in Proxies, NEW asset \in Assets, NEW i \in Implementations,
               InitReserve(c, asset, i)
        PROVE  implementation'[q] # implementation[q]
    BY <2>3, <2>6 DEF InitReserve
  <2>7. ASSUME NEW c \in Proxies, NEW asset \in Assets, NEW i \in Implementations,
               UpdateToken(c, asset, i)
        PROVE  implementation'[q] # implementation[q]
    <3> DEFINE pool == storage[c].pool
               p    == aTokenOf[pool][asset]
    <3>1. pool # None /\ p # None /\ UpgradeToAndCall(c, p, i, pool)
      BY <2>7 DEF UpdateToken
    <3>2. pool \in Proxies
      BY <2>1, <3>1 DEF UpgradeabilityTypeOK, Contracts
    <3>3. p \in Proxies
      BY <2>1, <3>1, <3>2 DEF UpgradeabilityTypeOK
    <3> QED
      BY <2>4, <3>1, <3>3
  <2>8. ~ UNCHANGED storage
    BY <1>1
  <2>9. ASSUME NEW contract \in Called, NEW argument \in Proxies \cup {Provider},
               Initialize(contract, argument)
        PROVE  FALSE
    BY <1>1, <2>1, <2>9, StrangersInitializeCodeOnly
  <2>10. ASSUME NEW id \in ProxiedIds, NEW newAddress, SetAddress(id, newAddress)
         PROVE  FALSE
    BY <2>8, <2>10 DEF SetAddress
  <2>11. ASSUME NEW c, NEW asset, DropReserve(c, asset)
         PROVE  FALSE
    BY <2>8, <2>11 DEF DropReserve
  <2>12. ~ UNCHANGED upgradeVars
    BY <2>8 DEF upgradeVars
  <2> QED
    BY <1>1, <2>5, <2>6, <2>7, <2>9, <2>10, <2>11, <2>12 DEF UpgradeabilityNext
<1>2. MarketIInv /\ [UpgradeabilityNext]_upgradeVars =>
          [\A p \in Proxies : storage'[p] # storage[p] =>
                                  implementation'[p] # implementation[p]]_upgradeVars
  BY <1>1
<1> QED
  BY <1>2, MarketInductive, PTL DEF UpgradeabilitySpec, InitializedByUpgradesOnly

-----------------------------------------------------------------------------
(* Both together. *)

\* The calls of one leave the other alone.
LEMMA BothRun == AdministrationSpec => Spec /\ UpgradeabilitySpec
<1>1. AdministrationInit => Init /\ UpgradeabilityInit
  BY DEF AdministrationInit
<1>2. [RegistrySteps \/ MarketSteps]_administrationVars =>
          [Next]_vars /\ [UpgradeabilityNext]_upgradeVars
  BY DEF RegistrySteps, MarketSteps, administrationVars
<1> QED
  BY <1>1, <1>2, PTL DEF AdministrationSpec, Spec, UpgradeabilitySpec

\* Every variable of the registry and of the market keeps its type.
THEOREM AdministrationTyped == AdministrationSpec => []AdministrationTypeOK
<1>1. RegistryIInv /\ MarketIInv => AdministrationTypeOK
  BY DEF RegistryIInv, MarketIInv, AdministrationTypeOK
<1> QED
  BY <1>1, BothRun, RegistryInductive, MarketInductive, PTL
=============================================================================
