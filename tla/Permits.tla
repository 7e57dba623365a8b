------------------------------ MODULE Permits -------------------------------
(***************************************************************************)
(* Allowances by signature: permit of the aToken and of the underlying,    *)
(* delegationWithSig of the debt tokens, supplyWithPermit and              *)
(* repayWithPermit of the Pool, and the helpers that sign for them.        *)
(*                                                                         *)
(* A signature, once made, is anybody's: it may be submitted at any time   *)
(* by any account, again, late, out of order, to any token, and on the     *)
(* other chain after a fork.  A signature is the signer and what is        *)
(* signed; ecrecover tells the signer of exactly that digest.              *)
(***************************************************************************)
EXTENDS Naturals, Functions, FiniteSets

CONSTANTS
    Users, Pool,
    Owners,                  \* bound: the users who allow something
    Tokens, Underlying,      \* Underlying computes its domain once, in the constructor
    ChainIds, DeployedChainId,
    Values, Deadlines,       \* bounds
    MaxSignatures, MaxTime   \* bounds

ASSUME PermitsAssumption ==
    /\ Underlying \in Tokens /\ DeployedChainId \in ChainIds
    /\ Values \subseteq Nat /\ Deadlines \subseteq Nat

Spenders == Users \cup {Pool}

VARIABLES
    now, chainId,      \* block.timestamp, block.chainid
    nonces,            \* [token][owner]: _nonces
    allowance,         \* [token][owner][spender]: _allowances, _borrowAllowances
    signatures,        \* all that have been made
    request,           \* the transaction of a helper that is not mined yet
    accepted,          \* history: the signatures, with token, chain and time
    granted, spent     \* history: [token][owner][spender]: totals

tokenVars == <<nonces, allowance, accepted, granted, spent>>
permitVars == <<now, chainId, tokenVars, signatures, request>>

NoRequest == [op |-> "none"]
PerSpender(n) == [t \in Tokens |-> [u \in Owners |-> [s \in Spenders |-> n]]]

PermitsInit ==
    /\ now = 0 /\ chainId = DeployedChainId
    /\ nonces = [t \in Tokens |-> [u \in Owners |-> 0]]
    /\ allowance = PerSpender(0)
    /\ signatures = {}
    /\ request = NoRequest
    /\ accepted = {} /\ granted = PerSpender(0) /\ spent = PerSpender(0)

-----------------------------------------------------------------------------
(* The tokens. *)

\* A wrong separator: the cached one, whatever the chain.
CachedSeparator(token) == <<token, DeployedChainId>>

\* The cached one on the chain of the deployment, computed anew on another.
DOMAIN_SEPARATOR(token) ==
    <<token, IF token = Underlying THEN DeployedChainId ELSE chainId>>

Digest(domain, spender, value, nonce, deadline) ==
    [domain |-> domain, spender |-> spender, value |-> value, nonce |-> nonce,
     deadline |-> deadline]

\* Other arguments than those that were signed give another digest.
IsValid(token, signature) ==
    LET signed == signature.digest
    IN  /\ now <= signed.deadline
        /\ signed = Digest(DOMAIN_SEPARATOR(token), signed.spender, signed.value,
                           nonces[token][signature.signer], signed.deadline)

\* A wrong nonce: it is compared and not counted.
NonceKept(token, owner) == nonces

NonceUsed(token, owner) == [nonces EXCEPT ![token][owner] = @ + 1]

Granted(token, owner, spender, value) ==
    granted' = [granted EXCEPT ![token][owner][spender] = @ + value]

\* A wrong spending: an allowance may be used again.
AllowanceKept(allowances, token, owner, spender, amount) == allowances

\* transferFrom, or a borrowing on behalf of the owner; the subtraction is checked.
AllowanceSpent(allowances, token, owner, spender, amount) ==
    [allowances EXCEPT ![token][owner][spender] = @ - amount]

\* permit and delegationWithSig: the signed value, of which the caller spends some at
\* once.
Accept(token, signature, amount) ==
    LET owner   == signature.signer
        spender == signature.digest.spender
        value   == signature.digest.value
        allowed == [allowance EXCEPT ![token][owner][spender] = value]
    IN  /\ IsValid(token, signature)
        /\ nonces' = NonceUsed(token, owner)
        /\ allowance' = IF amount = 0 THEN allowed
                        ELSE AllowanceSpent(allowed, token, owner, spender, amount)
        /\ spent' = [spent EXCEPT ![token][owner][spender] = @ + amount]
        /\ Granted(token, owner, spender, value)
        /\ accepted' = accepted \cup {[signature |-> signature, token |-> token,
                                       chainId |-> chainId, time |-> now,
                                       order |-> Cardinality(accepted)]}

PermitOrDelegation(token, signature) ==
    /\ Accept(token, signature, 0)
    /\ UNCHANGED <<now, chainId, signatures, request>>

\* approve and approveDelegation; bound: one, at the beginning.
Approve(token, owner, spender, value) ==
    /\ signatures = {} /\ granted = PerSpender(0)
    /\ allowance' = [allowance EXCEPT ![token][owner][spender] = value]
    /\ Granted(token, owner, spender, value)
    /\ UNCHANGED <<now, chainId, nonces, signatures, request, accepted, spent>>

Spend(token, owner, spender, amount) ==
    /\ amount <= allowance[token][owner][spender]
    /\ allowance' = AllowanceSpent(allowance, token, owner, spender, amount)
    /\ spent' = [spent EXCEPT ![token][owner][spender] = @ + amount]
    /\ UNCHANGED <<now, chainId, nonces, signatures, request, accepted, granted>>

-----------------------------------------------------------------------------
(* The helpers.  They read the nonce, sign, and send the transaction, which is *)
(* mined some time later.                                                      *)

buildPermitParams(token, owner, spender, value, deadline) ==
    Digest(<<token, chainId>>, spender, value, nonces[token][owner], deadline)

getSignatureFromTypedData(owner, params) == [signer |-> owner, digest |-> params]

\* bound: the number of signatures
Signs(signature) ==
    /\ Cardinality(signatures) < MaxSignatures
    /\ signatures' = signatures \cup {signature}

\* An owner signs for somebody, and tells the signature.
SignFor(token, owner, spender, value, deadline) ==
    /\ Signs(getSignatureFromTypedData(owner,
                 buildPermitParams(token, owner, spender, value, deadline)))
    /\ UNCHANGED <<now, chainId, tokenVars, request>>

\* supplyWithPermit and repayWithPermit of the test suites, up to the transaction.
SendWithPermit(op, owner, amount, deadline) ==
    LET signature == getSignatureFromTypedData(
                         owner, buildPermitParams(Underlying, owner, Pool, amount, deadline))
    IN  /\ request = NoRequest
        /\ Signs(signature)
        /\ request' = [op |-> op, signature |-> signature]
        /\ UNCHANGED <<now, chainId, tokenVars>>

\* The Pool takes the amount that is supplied.
supplyWithPermit ==
    /\ request.op = "supply"
    /\ Accept(Underlying, request.signature, request.signature.digest.value)
    /\ request' = NoRequest
    /\ UNCHANGED <<now, chainId, signatures>>

\* ... or no more than the debt; what is left of the allowance is left.
repayWithPermit ==
    /\ request.op = "repay"
    /\ \E debt \in 1 .. request.signature.digest.value :
          Accept(Underlying, request.signature, debt)
    /\ request' = NoRequest
    /\ UNCHANGED <<now, chainId, signatures>>

\* The signature has been used by somebody else, or is late, or the nonce has moved.
RequestReverts ==
    /\ request # NoRequest
    /\ ~ IsValid(Underlying, request.signature)
    /\ request' = NoRequest
    /\ UNCHANGED <<now, chainId, tokenVars, signatures>>

Tick == now < MaxTime /\ now' = now + 1 /\ UNCHANGED <<chainId, tokenVars, signatures, request>>

\* The chain splits; this is the branch with the new id.
Fork ==
    /\ chainId = DeployedChainId
    /\ chainId' \in ChainIds \ {chainId}
    /\ UNCHANGED <<now, tokenVars, signatures, request>>

PermitsNext ==
    \/ \E t \in Tokens :
         \/ \E s \in signatures : PermitOrDelegation(t, s)
         \/ \E u \in Owners, s \in Spenders, n \in Values :
              \/ Approve(t, u, s, n) \/ Spend(t, u, s, n)
              \/ \E d \in Deadlines : SignFor(t, u, s, n, d)
    \/ \E op \in {"supply", "repay"}, u \in Owners, n \in Values, d \in Deadlines :
         SendWithPermit(op, u, n, d)
    \/ supplyWithPermit \/ repayWithPermit \/ RequestReverts
    \/ Tick \/ Fork

PermitsSpec == PermitsInit /\ [][PermitsNext]_permitVars

-----------------------------------------------------------------------------
\* No signature is accepted twice, nor after a later one of its owner, however often
\* and in which order they are submitted; nor by another token, nor on a branch of
\* the chain that it was not made for, nor after its deadline.  (The underlying of the
\* test market knows no other chain.)
AcceptedInOrder ==
    /\ \A x, y \in accepted :
        /\ x.token = y.token /\ x.signature.signer = y.signature.signer
        /\ x.order < y.order
        => x.signature.digest.nonce < y.signature.digest.nonce
    /\ \A x \in accepted :
        /\ x.signature.digest.domain[1] = x.token
        /\ x.token # Underlying => x.signature.digest.domain[2] = x.chainId
        /\ x.time <= x.signature.digest.deadline

\* Nobody takes more of an owner than the owner has signed or approved in all.
SpentWithinGrants ==
    \A t \in Tokens, u \in Owners, s \in Spenders : spent[t][u][s] <= granted[t][u][s]
=============================================================================
