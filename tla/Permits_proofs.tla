--------------------------- MODULE Permits_proofs ---------------------------
(***************************************************************************)
(* Signatures are accepted once and in order, and nobody spends more than  *)
(* was signed or approved, for any number of users, tokens, chains,        *)
(* signatures and submissions.                                             *)
(***************************************************************************)
EXTENDS Permits, FiniteSetTheorems, TLAPS

Digests == [domain : Tokens \X ChainIds, spender : Spenders, value : Nat,
            nonce : Nat, deadline : Nat]
Signatures == [signer : Owners, digest : Digests]
Totals == [Tokens -> [Owners -> [Spenders -> Nat]]]

PermitsTypeOK ==
    /\ now \in Nat /\ chainId \in ChainIds
    /\ nonces \in [Tokens -> [Owners -> Nat]]
    /\ allowance \in Totals /\ granted \in Totals /\ spent \in Totals
    /\ signatures \subseteq Signatures
    /\ \/ request = NoRequest
       \/ /\ request \in [op : {"supply", "repay"}, signature : Signatures]
          /\ request.signature.digest.spender = Pool
    /\ accepted \subseteq [signature : Signatures, token : Tokens, chainId : ChainIds,
                           time : Nat, order : Nat]

\* What has been accepted: its nonce is behind that of its owner, and it is counted.
Used ==
    /\ IsFiniteSet(accepted)
    /\ \A x \in accepted :
         /\ x.signature.digest.nonce < nonces[x.token][x.signature.signer]
         /\ x.order < Cardinality(accepted)

\* What may still be spent has been granted as well.
Allowed ==
    \A t \in Tokens, u \in Owners, s \in Spenders :
        spent[t][u][s] + allowance[t][u][s] <= granted[t][u][s]

IInv == PermitsTypeOK /\ Used /\ AcceptedInOrder /\ Allowed

\* The nonce of one owner is counted.
LEMMA NonceCounted ==
    ASSUME NEW f \in [Tokens -> [Owners -> Nat]], NEW token \in Tokens, NEW owner \in Owners,
           NEW g, g = [f EXCEPT ![token][owner] = @ + 1]
    PROVE  /\ g \in [Tokens -> [Owners -> Nat]]
           /\ g[token][owner] = f[token][owner] + 1
           /\ \A t \in Tokens, u \in Owners : f[t][u] <= g[t][u]
  BY SMT

\* The fields of a signature, and of one that a token accepts.
LEMMA SignatureFields ==
    ASSUME NEW signature \in Signatures
    PROVE  /\ signature.signer \in Owners
           /\ signature.digest \in Digests
           /\ signature.digest.spender \in Spenders /\ signature.digest.value \in Nat
           /\ signature.digest.nonce \in Nat /\ signature.digest.deadline \in Nat
  BY DEF Signatures, Digests

\* IsValid: the digest is of this token, of this branch and of the next nonce.
LEMMA ValidFields ==
    ASSUME PermitsTypeOK, NEW token \in Tokens, NEW signature \in Signatures,
           IsValid(token, signature)
    PROVE  /\ now <= signature.digest.deadline
           /\ signature.digest.nonce = nonces[token][signature.signer]
           /\ signature.digest.domain[1] = token
           /\ token # Underlying => signature.digest.domain[2] = chainId
<1> DEFINE d == signature.digest
<1>1. /\ now <= d.deadline
      /\ d = Digest(DOMAIN_SEPARATOR(token), d.spender, d.value,
                    nonces[token][signature.signer], d.deadline)
  BY DEF IsValid
<1>2. d.nonce = nonces[token][signature.signer] /\ d.domain = DOMAIN_SEPARATOR(token)
  BY <1>1 DEF Digest
<1> QED
  BY <1>1, <1>2 DEF DOMAIN_SEPARATOR

\* What is accepted is recorded once, and counted.
LEMMA AcceptRecords ==
    ASSUME PermitsTypeOK, Used, AcceptedInOrder, NEW token \in Tokens,
           NEW signature \in Signatures, NEW amount, Accept(token, signature, amount)
    PROVE  /\ accepted' \subseteq [signature : Signatures, token : Tokens,
                                   chainId : ChainIds, time : Nat, order : Nat]
           /\ nonces' \in [Tokens -> [Owners -> Nat]]
           /\ Used' /\ AcceptedInOrder'
<1> DEFINE new == [signature |-> signature, token |-> token, chainId |-> chainId,
                   time |-> now, order |-> Cardinality(accepted)]
           n   == Cardinality(accepted)
           owner == signature.signer
<1>1. /\ IsValid(token, signature) /\ accepted' = accepted \cup {new}
      /\ nonces' = [nonces EXCEPT ![token][owner] = @ + 1]
  BY DEF Accept, NonceUsed
<1>2. owner \in Owners /\ nonces \in [Tokens -> [Owners -> Nat]]
  BY SignatureFields DEF PermitsTypeOK
<1>3. /\ nonces' \in [Tokens -> [Owners -> Nat]]
      /\ nonces'[token][owner] = nonces[token][owner] + 1
      /\ \A t \in Tokens, u \in Owners : nonces[t][u] <= nonces'[t][u]
  BY <1>1, <1>2, NonceCounted
<1>4. /\ IsFiniteSet(accepted) /\ n \in Nat
      /\ \A x \in accepted : x.order < n
      /\ \A x \in accepted :
           x.signature.digest.nonce < nonces[x.token][x.signature.signer]
  BY FS_CardinalityType DEF Used
<1>5. new \in [signature : Signatures, token : Tokens, chainId : ChainIds,
               time : Nat, order : Nat]
  BY <1>4 DEF PermitsTypeOK
<1>6. new.order = n /\ new.signature = signature /\ new.token = token
      /\ new.chainId = chainId /\ new.time = now
  OBVIOUS
<1>7. \A x \in accepted :
         /\ x.token \in Tokens /\ x.signature \in Signatures /\ x.signature.signer \in Owners
         /\ x.order \in Nat /\ x.signature.digest.nonce \in Nat
  BY SignatureFields DEF PermitsTypeOK
<1> HIDE DEF new, n
<1>8. new \notin accepted
  BY <1>4, <1>6
<1>9. IsFiniteSet(accepted') /\ Cardinality(accepted') = n + 1
  BY <1>1, <1>4, <1>8, FS_AddElement DEF n
<1>10. ASSUME NEW x \in accepted'
       PROVE  /\ x.signature.digest.nonce < nonces'[x.token][x.signature.signer]
              /\ x.order < n + 1
  <2>1. CASE x = new
    <3>1. /\ x.signature.digest.nonce = nonces[token][owner]
          /\ nonces[token][owner] \in Nat
      BY <1>1, <1>2, <1>6, <2>1, ValidFields
    <3> QED
      BY <1>3, <1>4, <1>6, <2>1, <3>1
  <2>2. CASE x \in accepted
    <3> DEFINE a == x.signature.digest.nonce
               b == nonces[x.token][x.signature.signer]
               c == nonces'[x.token][x.signature.signer]
    <3>1. a \in Nat /\ b \in Nat /\ c \in Nat /\ a < b /\ b <= c /\ x.order \in Nat /\ x.order < n
      BY <1>2, <1>3, <1>4, <1>7, <2>2
    <3> HIDE DEF a, b, c
    <3> QED
      BY <1>4, <3>1, SMT DEF a, c
  <2> QED
    BY <1>1, <2>1, <2>2
<1>11. Used'
  BY <1>9, <1>10 DEF Used
<1>12. ASSUME NEW x \in accepted', NEW y \in accepted', x.token = y.token,
              x.signature.signer = y.signature.signer, x.order < y.order
       PROVE  x.signature.digest.nonce < y.signature.digest.nonce
  <2>1. x # new
    <3>1. y.order < n + 1 /\ y.order \in Nat
      BY <1>1, <1>4, <1>6, <1>7, <1>10
    <3> QED
      BY <1>4, <1>6, <1>12, <3>1, SMT
  <2>2. x \in accepted
    BY <1>1, <2>1
  <2>3. CASE y = new
    <3>1. y.signature.digest.nonce = nonces[token][owner]
      BY <1>1, <1>6, <2>3, ValidFields
    <3> QED
      BY <1>4, <1>6, <1>12, <2>2, <2>3, <3>1
  <2>4. CASE y \in accepted
    BY <1>12, <2>2, <2>4 DEF AcceptedInOrder
  <2> QED
    BY <1>1, <2>3, <2>4
<1>13. ASSUME NEW x \in accepted'
       PROVE  /\ x.signature.digest.domain[1] = x.token
              /\ x.token # Underlying => x.signature.digest.domain[2] = x.chainId
              /\ x.time <= x.signature.digest.deadline
  <2>1. CASE x = new
    BY <1>1, <1>6, <2>1, ValidFields
  <2>2. CASE x \in accepted
    BY <2>2 DEF AcceptedInOrder
  <2> QED
    BY <1>1, <2>1, <2>2
<1>14. AcceptedInOrder'
  BY <1>12, <1>13 DEF AcceptedInOrder
<1>15. accepted' \subseteq [signature : Signatures, token : Tokens,
                            chainId : ChainIds, time : Nat, order : Nat]
  BY <1>1, <1>5 DEF PermitsTypeOK
<1> QED
  BY <1>3, <1>11, <1>14, <1>15

\* ... and of the value that is allowed, what is not spent at once may be spent later.
LEMMA AcceptGrants ==
    ASSUME PermitsTypeOK, Allowed, NEW token \in Tokens, NEW signature \in Signatures,
           NEW amount \in Nat, amount <= signature.digest.value,
           Accept(token, signature, amount)
    PROVE  /\ allowance' \in Totals /\ granted' \in Totals /\ spent' \in Totals
           /\ Allowed'
<1> DEFINE owner   == signature.signer
           spender == signature.digest.spender
           value   == signature.digest.value
           allowed == [allowance EXCEPT ![token][owner][spender] = value]
<1>1. owner \in Owners /\ spender \in Spenders /\ value \in Nat
  BY SignatureFields
<1>2. allowance \in Totals /\ granted \in Totals /\ spent \in Totals
  BY DEF PermitsTypeOK
<1>3. /\ allowance' = IF amount = 0 THEN allowed
                      ELSE [allowed EXCEPT ![token][owner][spender] = @ - amount]
      /\ spent' = [spent EXCEPT ![token][owner][spender] = @ + amount]
      /\ granted' = [granted EXCEPT ![token][owner][spender] = @ + value]
  BY DEF Accept, AllowanceSpent, Granted
<1> HIDE DEF owner, spender, value
<1>4. amount <= value
  BY DEF value
<1> DEFINE Here(t, u, s) == t = token /\ u = owner /\ s = spender
<1>5. /\ allowance' \in Totals
      /\ \A t \in Tokens, u \in Owners, s \in Spenders :
           allowance'[t][u][s] = IF Here(t, u, s) THEN value - amount ELSE allowance[t][u][s]
  <2>1. /\ allowed \in Totals
        /\ \A t \in Tokens, u \in Owners, s \in Spenders :
             allowed[t][u][s] = IF Here(t, u, s) THEN value ELSE allowance[t][u][s]
    <3>1. allowed = [allowance EXCEPT ![token][owner][spender] = value]
      OBVIOUS
    <3> HIDE DEF allowed, Here
    <3>2. /\ allowed \in Totals
          /\ \A t \in Tokens, u \in Owners, s \in Spenders :
               allowed[t][u][s] = IF t = token /\ u = owner /\ s = spender
                                  THEN value ELSE allowance[t][u][s]
      BY <1>1, <1>2, <3>1, SMT DEF Totals
    <3> QED
      BY <3>2 DEF Here
  <2>2. CASE amount = 0
    BY <1>1, <1>3, <2>1, <2>2
  <2>3. CASE amount # 0
    <3> HIDE DEF allowed
    <3> DEFINE rest == value - amount
    <3>1. allowed[token][owner][spender] = value /\ rest \in Nat
      BY <1>1, <1>4, <2>1
    <3>2. allowance' = [allowed EXCEPT ![token][owner][spender] = rest]
      BY <1>3, <2>3, <3>1
    <3> HIDE DEF rest
    <3>3. /\ allowance' \in Totals
          /\ \A t \in Tokens, u \in Owners, s \in Spenders :
               allowance'[t][u][s] = IF t = token /\ u = owner /\ s = spender
                                     THEN rest ELSE allowed[t][u][s]
      BY <1>1, <2>1, <3>1, <3>2 DEF Totals
    <3> QED
      BY <2>1, <3>3 DEF rest
  <2> QED
    BY <2>2, <2>3
<1>7. /\ spent' \in Totals /\ granted' \in Totals
      /\ \A t \in Tokens, u \in Owners, s \in Spenders :
           /\ spent'[t][u][s] = IF Here(t, u, s) THEN spent[t][u][s] + amount ELSE spent[t][u][s]
           /\ granted'[t][u][s] = IF Here(t, u, s) THEN granted[t][u][s] + value
                                  ELSE granted[t][u][s]
  <2>1. /\ spent' \in Totals
        /\ \A t \in Tokens, u \in Owners, s \in Spenders :
             spent'[t][u][s] = IF Here(t, u, s) THEN spent[t][u][s] + amount ELSE spent[t][u][s]
    BY <1>1, <1>2, <1>3 DEF Totals
  <2>2. /\ granted' \in Totals
        /\ \A t \in Tokens, u \in Owners, s \in Spenders :
             granted'[t][u][s] = IF Here(t, u, s) THEN granted[t][u][s] + value
                                 ELSE granted[t][u][s]
    BY <1>1, <1>2, <1>3 DEF Totals
  <2> QED
    BY <2>1, <2>2
<1>8. ASSUME NEW t \in Tokens, NEW u \in Owners, NEW s \in Spenders
      PROVE  spent'[t][u][s] + allowance'[t][u][s] <= granted'[t][u][s]
  <2> DEFINE x == spent[t][u][s]
             y == allowance[t][u][s]
             z == granted[t][u][s]
  <2>1. x \in Nat /\ y \in Nat /\ z \in Nat /\ x + y <= z
    BY <1>2 DEF Totals, Allowed
  <2> HIDE DEF x, y, z
  <2>2. CASE Here(t, u, s)
    <3>1. spent'[t][u][s] = x + amount /\ allowance'[t][u][s] = value - amount
          /\ granted'[t][u][s] = z + value
      BY <1>5, <1>7, <2>2 DEF x, y, z
    <3> QED
      BY <1>1, <2>1, <3>1, SMT
  <2>3. CASE ~ Here(t, u, s)
    BY <1>5, <1>7, <2>1, <2>3 DEF x, y, z
  <2> QED
    BY <2>2, <2>3
<1> QED
  BY <1>5, <1>7, <1>8 DEF Allowed

\* Accept keeps the types, the order and the sums.
LEMMA AcceptKeeps ==
    ASSUME IInv, NEW token \in Tokens, NEW signature \in Signatures,
           NEW amount \in Nat, amount <= signature.digest.value,
           Accept(token, signature, amount), UNCHANGED <<now, chainId, signatures>>,
           request' \in {request, NoRequest}
    PROVE  IInv'
<1>1. /\ accepted' \subseteq [signature : Signatures, token : Tokens,
                              chainId : ChainIds, time : Nat, order : Nat]
      /\ nonces' \in [Tokens -> [Owners -> Nat]]
      /\ Used' /\ AcceptedInOrder'
  BY AcceptRecords DEF IInv
<1>2. /\ allowance' \in Totals /\ granted' \in Totals /\ spent' \in Totals
      /\ Allowed'
  BY AcceptGrants DEF IInv
<1>3. PermitsTypeOK
  BY DEF IInv
<1>4. PermitsTypeOK'
  BY <1>1, <1>2, <1>3 DEF PermitsTypeOK
<1> QED
  BY <1>1, <1>2, <1>4 DEF IInv

\* What one signs is a signature.
LEMMA SignedIsSignature ==
    ASSUME PermitsTypeOK, NEW token \in Tokens, NEW owner \in Owners,
           NEW spender \in Spenders, NEW value \in Values, NEW deadline \in Deadlines
    PROVE  LET signature == getSignatureFromTypedData(owner,
                                buildPermitParams(token, owner, spender, value, deadline))
           IN  signature \in Signatures /\ signature.digest.spender = spender
  BY PermitsAssumption
     DEF PermitsTypeOK, getSignatureFromTypedData, buildPermitParams, Digest, Signatures, Digests

\* The initial state.
LEMMA InitIInv == PermitsInit => IInv
<1> SUFFICES ASSUME PermitsInit PROVE IInv
  OBVIOUS
<1>1. PermitsTypeOK
  BY PermitsAssumption DEF PermitsInit, PermitsTypeOK, Totals, PerSpender
<1>2. Used /\ AcceptedInOrder
  BY FS_EmptySet DEF PermitsInit, Used, AcceptedInOrder
<1>3. Allowed
  BY DEF PermitsInit, Allowed, PerSpender
<1> QED
  BY <1>1, <1>2, <1>3 DEF IInv

\* Every step keeps it.
LEMMA NextIInv == IInv /\ [PermitsNext]_permitVars => IInv'
<1> SUFFICES ASSUME IInv, [PermitsNext]_permitVars PROVE IInv'
  OBVIOUS
<1>1. PermitsTypeOK /\ Used /\ AcceptedInOrder /\ Allowed
  BY DEF IInv
<1>2. ASSUME UNCHANGED <<accepted, nonces>>
      PROVE  Used' /\ AcceptedInOrder'
  BY <1>1, <1>2 DEF Used, AcceptedInOrder
<1>3. ASSUME UNCHANGED <<allowance, granted, spent>>
      PROVE  Allowed'
  BY <1>1, <1>3 DEF Allowed
<1>4. ASSUME NEW t \in Tokens, NEW s \in signatures, PermitOrDelegation(t, s)
      PROVE  IInv'
  <2>1. s \in Signatures /\ s.digest.value \in Nat
    BY <1>1, SignatureFields DEF PermitsTypeOK
  <2>2. Accept(t, s, 0) /\ UNCHANGED <<now, chainId, signatures>> /\ request' = request
    BY <1>4 DEF PermitOrDelegation
  <2> QED
    BY <2>1, <2>2, AcceptKeeps
<1>5. ASSUME NEW t \in Tokens, NEW u \in Owners, NEW s \in Spenders, NEW n \in Values,
             Approve(t, u, s, n)
      PROVE  IInv'
  <2>1. /\ allowance' = [allowance EXCEPT ![t][u][s] = n]
        /\ granted' = [granted EXCEPT ![t][u][s] = @ + n]
        /\ UNCHANGED <<now, chainId, nonces, signatures, request, accepted, spent>>
    BY <1>5 DEF Approve, Granted
  <2>2. /\ n \in Nat
        /\ allowance \in Totals /\ granted \in Totals /\ spent \in Totals
    BY <1>1, PermitsAssumption DEF PermitsTypeOK
  <2>3. allowance' \in Totals /\ granted' \in Totals /\ spent' \in Totals
    BY <2>1, <2>2 DEF Totals
  <2>4. PermitsTypeOK'
    BY <1>1, <2>1, <2>3 DEF PermitsTypeOK
  <2>5. ASSUME NEW t1 \in Tokens, NEW u1 \in Owners, NEW s1 \in Spenders
        PROVE  spent'[t1][u1][s1] + allowance'[t1][u1][s1] <= granted'[t1][u1][s1]
    <3>1. spent[t1][u1][s1] + allowance[t1][u1][s1] <= granted[t1][u1][s1]
      BY <1>1 DEF Allowed
    <3>2. allowance[t1][u1][s1] \in Nat /\ granted[t1][u1][s1] \in Nat /\ spent[t1][u1][s1] \in Nat
      BY <2>2 DEF Totals
    <3>3. CASE t1 = t /\ u1 = u /\ s1 = s
      <4>1. allowance'[t][u][s] = n /\ granted'[t][u][s] = granted[t][u][s] + n
        BY <2>1, <2>2 DEF Totals
      <4> QED
        BY <2>1, <2>2, <3>1, <3>2, <3>3, <4>1
    <3>4. CASE ~ (t1 = t /\ u1 = u /\ s1 = s)
      <4>1. /\ allowance'[t1][u1][s1] = allowance[t1][u1][s1]
            /\ granted'[t1][u1][s1] = granted[t1][u1][s1]
        BY <2>1, <2>2, <3>4 DEF Totals
      <4> QED
        BY <2>1, <3>1, <4>1
    <3> QED
      BY <3>3, <3>4
  <2>6. Allowed'
    BY <2>5 DEF Allowed
  <2> QED
    BY <1>2, <2>1, <2>4, <2>6 DEF IInv
<1>6. ASSUME NEW t \in Tokens, NEW u \in Owners, NEW s \in Spenders, NEW n \in Values,
             Spend(t, u, s, n)
      PROVE  IInv'
  <2>1. /\ n <= allowance[t][u][s]
        /\ allowance' = [allowance EXCEPT ![t][u][s] = @ - n]
        /\ spent' = [spent EXCEPT ![t][u][s] = @ + n]
        /\ UNCHANGED <<now, chainId, nonces, signatures, request, accepted, granted>>
    BY <1>6 DEF Spend, AllowanceSpent
  <2>2. /\ n \in Nat
        /\ allowance \in Totals /\ granted \in Totals /\ spent \in Totals
    BY <1>1, PermitsAssumption DEF PermitsTypeOK
  <2>3. allowance' \in Totals /\ granted' \in Totals /\ spent' \in Totals
    BY <2>1, <2>2 DEF Totals
  <2>4. PermitsTypeOK'
    BY <1>1, <2>1, <2>3 DEF PermitsTypeOK
  <2>5. ASSUME NEW t1 \in Tokens, NEW u1 \in Owners, NEW s1 \in Spenders
        PROVE  spent'[t1][u1][s1] + allowance'[t1][u1][s1] <= granted'[t1][u1][s1]
    <3>1. spent[t1][u1][s1] + allowance[t1][u1][s1] <= granted[t1][u1][s1]
      BY <1>1 DEF Allowed
    <3>2. allowance[t1][u1][s1] \in Nat /\ granted[t1][u1][s1] \in Nat /\ spent[t1][u1][s1] \in Nat
      BY <2>2 DEF Totals
    <3>3. CASE t1 = t /\ u1 = u /\ s1 = s
      <4>1. allowance'[t][u][s] = allowance[t][u][s] - n /\ spent'[t][u][s] = spent[t][u][s] + n
        BY <2>1, <2>2 DEF Totals
      <4> QED
        BY <2>1, <2>2, <3>1, <3>2, <3>3, <4>1
    <3>4. CASE ~ (t1 = t /\ u1 = u /\ s1 = s)
      <4>1. /\ allowance'[t1][u1][s1] = allowance[t1][u1][s1]
            /\ spent'[t1][u1][s1] = spent[t1][u1][s1]
        BY <2>1, <2>2, <3>4 DEF Totals
      <4> QED
        BY <2>1, <3>1, <4>1
    <3> QED
      BY <3>3, <3>4
  <2>6. Allowed'
    BY <2>5 DEF Allowed
  <2> QED
    BY <1>2, <2>1, <2>4, <2>6 DEF IInv
<1>7. ASSUME NEW t \in Tokens, NEW u \in Owners, NEW s \in Spenders, NEW n \in Values,
             NEW d \in Deadlines, SignFor(t, u, s, n, d)
      PROVE  IInv'
  <2> DEFINE signature == getSignatureFromTypedData(u, buildPermitParams(t, u, s, n, d))
  <2>1. signature \in Signatures
    BY <1>1, SignedIsSignature
  <2>2. /\ signatures' = signatures \cup {signature}
        /\ UNCHANGED <<now, chainId, tokenVars, request>>
    BY <1>7 DEF SignFor, Signs
  <2> HIDE DEF signature
  <2>3. PermitsTypeOK'
    BY <1>1, <2>1, <2>2 DEF PermitsTypeOK, tokenVars
  <2> QED
    BY <1>2, <1>3, <2>2, <2>3 DEF IInv, tokenVars
<1>8. ASSUME NEW op \in {"supply", "repay"}, NEW u \in Owners, NEW n \in Values,
             NEW d \in Deadlines, SendWithPermit(op, u, n, d)
      PROVE  IInv'
  <2> DEFINE signature == getSignatureFromTypedData(
                              u, buildPermitParams(Underlying, u, Pool, n, d))
  <2>1. signature \in Signatures /\ signature.digest.spender = Pool
    BY <1>1, SignedIsSignature, PermitsAssumption DEF Spenders
  <2>2. /\ signatures' = signatures \cup {signature}
        /\ request' = [op |-> op, signature |-> signature]
        /\ UNCHANGED <<now, chainId, tokenVars>>
    BY <1>8 DEF SendWithPermit, Signs
  <2> HIDE DEF signature
  <2>3. PermitsTypeOK'
    BY <1>1, <2>1, <2>2 DEF PermitsTypeOK, tokenVars
  <2> QED
    BY <1>2, <1>3, <2>2, <2>3 DEF IInv, tokenVars
<1>9. ASSUME request # NoRequest
      PROVE  /\ request.signature \in Signatures
             /\ request.signature.digest.value \in Nat
  BY <1>1, <1>9, SignatureFields DEF PermitsTypeOK
<1>10. CASE supplyWithPermit
  <2>1. request # NoRequest
    BY <1>10 DEF supplyWithPermit, NoRequest
  <2>2. /\ Accept(Underlying, request.signature, request.signature.digest.value)
        /\ request' = NoRequest /\ UNCHANGED <<now, chainId, signatures>>
    BY <1>10 DEF supplyWithPermit
  <2> QED
    BY <1>9, <2>1, <2>2, AcceptKeeps, PermitsAssumption
<1>11. CASE repayWithPermit
  <2>1. request # NoRequest
    BY <1>11 DEF repayWithPermit, NoRequest
  <2>2. PICK debt \in 1 .. request.signature.digest.value :
            Accept(Underlying, request.signature, debt)
    BY <1>11 DEF repayWithPermit
  <2>3. request' = NoRequest /\ UNCHANGED <<now, chainId, signatures>>
    BY <1>11 DEF repayWithPermit
  <2>4. debt \in Nat /\ debt <= request.signature.digest.value
    BY <1>9, <2>1
  <2> QED
    BY <1>9, <2>1, <2>2, <2>3, <2>4, AcceptKeeps, PermitsAssumption
<1>12. CASE RequestReverts \/ Tick \/ Fork \/ UNCHANGED permitVars
  <2>1. /\ UNCHANGED <<tokenVars, signatures>> /\ request' \in {request, NoRequest}
        /\ now' \in Nat /\ chainId' \in ChainIds
    BY <1>1, <1>12 DEF RequestReverts, Tick, Fork, permitVars, PermitsTypeOK
  <2>2. PermitsTypeOK'
    BY <1>1, <2>1 DEF PermitsTypeOK, tokenVars
  <2> QED
    BY <1>2, <1>3, <2>1, <2>2 DEF IInv, tokenVars
<1> QED
  BY <1>4, <1>5, <1>6, <1>7, <1>8, <1>10, <1>11, <1>12 DEF PermitsNext

\* What the tokens and helpers keep of every permit: its types, which include that no
\* allowance falls below zero, and that the nonces of what was accepted are used.
LEMMA PermitsInductive == PermitsSpec => []IInv
  BY InitIInv, NextIInv, PTL DEF PermitsSpec

\* No signature is accepted twice, late, out of order, by another token or on another
\* branch of the chain (permit of IncentivizedERC20's tokens, delegationWithSig).
THEOREM InOrder == PermitsSpec => []AcceptedInOrder
<1>1. IInv => AcceptedInOrder
  BY DEF IInv
<1> QED
  BY <1>1, PermitsInductive, PTL

\* No spender takes more of an owner than was signed and approved, in all.
THEOREM WithinGrants == PermitsSpec => []SpentWithinGrants
<1>1. ASSUME IInv PROVE SpentWithinGrants
  <2>1. ASSUME NEW t \in Tokens, NEW u \in Owners, NEW s \in Spenders
        PROVE  spent[t][u][s] <= granted[t][u][s]
    <3>1. /\ spent[t][u][s] \in Nat /\ allowance[t][u][s] \in Nat /\ granted[t][u][s] \in Nat
          /\ spent[t][u][s] + allowance[t][u][s] <= granted[t][u][s]
      BY <1>1 DEF IInv, Allowed, PermitsTypeOK, Totals
    <3> QED
      BY <3>1, SMT
  <2> QED
    BY <2>1 DEF SpentWithinGrants
<1> QED
  BY <1>1, PermitsInductive, PTL
=============================================================================
