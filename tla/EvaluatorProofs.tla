--------------------------- MODULE EvaluatorProofs ---------------------------
(***************************************************************************)
(* Evaluate approves acceptable requests only, and all of them whose       *)
(* extensions are encoded as usual: for every request, of any names,       *)
(* users, usages and extensions, and every evaluator.                      *)
(***************************************************************************)
EXTENDS Evaluator, FiniteSetTheorems, TLAPS

-----------------------------------------------------------------------------
(* Key usages as bytes *)

\* The values of the bits of a byte.
Weighs(b, w) ==
  \/ b = 0 /\ w = 1
  \/ b = 1 /\ w = 2
  \/ b = 2 /\ w = 4
  \/ b = 3 /\ w = 8
  \/ b = 4 /\ w = 16
  \/ b = 5 /\ w = 32
  \/ b = 6 /\ w = 64
  \/ b = 7 /\ w = 128

LEMMA Powers == ASSUME NEW b \in 0..7 PROVE Weighs(b, 2^b)
<1>1. b = 0 => 2^b = 1
  OBVIOUS
<1>2. b = 1 => 2^b = 2
  OBVIOUS
<1>3. b = 2 => 2^b = 4
  OBVIOUS
<1>4. b = 3 => 2^b = 8
  OBVIOUS
<1>5. b = 4 => 2^b = 16
  OBVIOUS
<1>6. b = 5 => 2^b = 32
  OBVIOUS
<1>7. b = 6 => 2^b = 64
  OBVIOUS
<1>8. b = 7 => 2^b = 128
  OBVIOUS
<1>9. b \in {0, 1, 2, 3, 4, 5, 6, 7}
  OBVIOUS
<1> QED BY <1>1, <1>2, <1>3, <1>4, <1>5, <1>6, <1>7, <1>8, <1>9 DEF Weighs

LEMMA Bits128 == Bits(128) = {7}
<1> DEFINE Set(b) == (128 \div 2^b) % 2 = 1
<1>1. ASSUME NEW b \in 0..7 PROVE Set(b) <=> b = 7
  <2>1. ASSUME NEW w, Weighs(b, w) PROVE (128 \div w) % 2 = 1 <=> b = 7
    BY <2>1 DEF Weighs
  <2> QED BY <2>1, Powers
<1>2. Bits(128) = {b \in 0..7 : Set(b)}
  BY DEF Bits
<1> HIDE DEF Set
<1> QED BY <1>1, <1>2

LEMMA Bits32 == Bits(32) = {5}
<1> DEFINE Set(b) == (32 \div 2^b) % 2 = 1
<1>1. ASSUME NEW b \in 0..7 PROVE Set(b) <=> b = 5
  <2>1. ASSUME NEW w, Weighs(b, w) PROVE (32 \div w) % 2 = 1 <=> b = 5
    BY <2>1 DEF Weighs
  <2> QED BY <2>1, Powers
<1>2. Bits(32) = {b \in 0..7 : Set(b)}
  BY DEF Bits
<1> HIDE DEF Set
<1> QED BY <1>1, <1>2

\* The padding byte says how many bits are unused, seven at most.
LEMMA BitsOfPadding == ASSUME NEW n \in 0..7 PROVE Bits(n) \subseteq Bits(7)
<1> DEFINE Set(m, b) == (m \div 2^b) % 2 = 1
<1>1. ASSUME NEW b \in 0..7, Set(n, b) PROVE Set(7, b)
  <2>1. ASSUME NEW w, Weighs(b, w), (n \div w) % 2 = 1 PROVE (7 \div w) % 2 = 1
    BY <2>1 DEF Weighs
  <2> QED BY <1>1, <2>1, Powers
<1>2. Bits(n) = {b \in 0..7 : Set(n, b)} /\ Bits(7) = {b \in 0..7 : Set(7, b)}
  BY DEF Bits
<1> HIDE DEF Set
<1> QED BY <1>1, <1>2

\* The bits that validateKeyUsageExtension clears, byte by byte.
LEMMA Cleared ==
  /\ UNION {allowedKeyUsages[u][1] : u \in 1..2} = Bits(3)
  /\ UNION {allowedKeyUsages[u][2] : u \in 1..2} = Bits(2)
  /\ UNION {allowedKeyUsages[u][3] : u \in 1..2} = Bits(7) \cup Bits(5)
  /\ UNION {allowedKeyUsages[u][4] : u \in 1..2} = {7, 5}
<1>1. 1..2 = {1, 2}
  OBVIOUS
<1>2. ASSUME NEW j \in 1..4
      PROVE  UNION {allowedKeyUsages[u][j] : u \in 1..2} = allowedKeyUsages[1][j] \cup allowedKeyUsages[2][j]
  BY <1>1
<1> QED BY <1>2, Bits128, Bits32 DEF allowedKeyUsages

\* Whatever the bytes, the masks let pass no usage but digital signature and key
\* encipherment.
LEMMA MaskedUsages ==
  ASSUME NEW value \in Seq(SUBSET (0..7)), validateKeyUsageExtension(value)
  PROVE  Asserted(value) \subseteq {0, 2}
<1>1. Len(value) = 4 /\ DOMAIN value = 1..4
  BY DEF validateKeyUsageExtension
<1>2. value[4] \subseteq {7, 5}
  BY Cleared DEF validateKeyUsageExtension
<1>3. ASSUME NEW u \in 0..8, 4 + (u \div 8) \in DOMAIN value, 7 - (u % 8) \in value[4 + (u \div 8)]
      PROVE  u \in {0, 2}
  <2>1. CASE u = 8
    <3>1. 4 + (u \div 8) = 5
      BY <2>1
    <3> QED BY <1>1, <1>3, <3>1
  <2>2. CASE u # 8
    <3>1. 4 + (u \div 8) = 4 /\ 7 - (u % 8) = 7 - u
      BY <2>2
    <3>2. 7 - u \in {7, 5}
      BY <1>2, <1>3, <3>1
    <3> QED BY <3>2
  <2> QED BY <2>1, <2>2
<1> QED BY <1>3 DEF Asserted

\* An encoding asserts the usages it was made of.
LEMMA EncodedUsages ==
  ASSUME NEW usages \in SUBSET (0..8)
  PROVE  usages \subseteq Asserted(EncodeKeyUsage(usages))
<1> DEFINE last == CHOOSE u \in usages : \A w \in usages : w <= u
           value == EncodeKeyUsage(usages)
<1> SUFFICES ASSUME NEW u \in usages PROVE u \in Asserted(value)
  OBVIOUS
<1>1. CASE 8 \in usages
  <2>1. value = <<Bits(3), Bits(3), Bits(7), {7 - w : w \in usages \ {8}}, {7}>>
    BY <1>1 DEF EncodeKeyUsage
  <2>2. DOMAIN value = 1..5 /\ value[4] = {7 - w : w \in usages \ {8}} /\ value[5] = {7}
    BY <2>1
  <2> HIDE DEF value
  <2>3. CASE u = 8
    <3>1. 4 + (u \div 8) = 5 /\ 7 - (u % 8) = 7
      BY <2>3
    <3> QED BY <2>2, <2>3, <3>1 DEF Asserted
  <2>4. CASE u # 8
    <3>1. 4 + (u \div 8) = 4 /\ 7 - (u % 8) = 7 - u
      BY <2>4
    <3> QED BY <2>2, <2>4, <3>1 DEF Asserted
  <2> QED BY <2>3, <2>4
<1>2. CASE 8 \notin usages
  <2>0. usages # {}
    OBVIOUS
  <2>1. value = <<Bits(3), Bits(2), Bits(7 - last), {7 - w : w \in usages}>>
    BY <1>2, <2>0 DEF EncodeKeyUsage
  <2> HIDE DEF last
  <2>2. DOMAIN value = 1..4 /\ value[4] = {7 - w : w \in usages}
    BY <2>1
  <2> HIDE DEF value
  <2>3. 4 + (u \div 8) = 4 /\ 7 - (u % 8) = 7 - u
    BY <1>2
  <2> QED BY <2>2, <2>3 DEF Asserted
<1> QED BY <1>1, <1>2

\* The masks let pass the encodings of digital signature and key encipherment, one,
\* both or none of them.
LEMMA AllowedUsagesPass ==
  ASSUME NEW usages \in SUBSET {0, 2}
  PROVE  validateKeyUsageExtension(EncodeKeyUsage(usages))
<1> DEFINE last == CHOOSE u \in usages : \A w \in usages : w <= u
           value == EncodeKeyUsage(usages)
<1> HIDE DEF value
<1>1. ASSUME NEW n \in 0..7, NEW byte, byte \subseteq {7, 5}, value = <<Bits(3), Bits(2), Bits(n), byte>>
      PROVE  validateKeyUsageExtension(value)
  <2>1. Bits(n) \subseteq Bits(7)
    BY BitsOfPadding
  <2>2. Len(value) = 4 /\ value[1] = Bits(3) /\ value[2] = Bits(2) /\ value[3] = Bits(n) /\ value[4] = byte
    BY <1>1
  <2>3. ASSUME NEW j \in 1..4 PROVE value[j] \ UNION {allowedKeyUsages[u][j] : u \in 1..2} = {}
    <3> DEFINE Mask(k) == UNION {allowedKeyUsages[u][k] : u \in 1..2}
    <3>1. Mask(1) = Bits(3) /\ Mask(2) = Bits(2) /\ Mask(3) = Bits(7) \cup Bits(5) /\ Mask(4) = {7, 5}
      BY Cleared
    <3> HIDE DEF Mask
    <3>2. /\ value[1] \ Mask(1) = {} /\ value[2] \ Mask(2) = {}
          /\ value[3] \ Mask(3) = {} /\ value[4] \ Mask(4) = {}
      BY <1>1, <2>1, <2>2, <3>1
    <3>3. j = 1 \/ j = 2 \/ j = 3 \/ j = 4
      OBVIOUS
    <3>4. value[j] \ Mask(j) = {}
      BY <3>2, <3>3
    <3> QED BY <3>4 DEF Mask
  <2> QED BY <2>2, <2>3 DEF validateKeyUsageExtension
<1>2. CASE usages = {}
  <2>1. value = <<Bits(3), Bits(2), Bits(0), {}>>
    BY <1>2 DEF EncodeKeyUsage, value
  <2> QED BY <1>1, <2>1 DEF value
<1>3. CASE usages # {}
  <2>1. value = <<Bits(3), Bits(2), Bits(7 - last), {7 - u : u \in usages}>>
    BY <1>3 DEF EncodeKeyUsage, value
  <2>2. \E u \in usages : \A w \in usages : w <= u
    <3>1. CASE 2 \in usages
      BY <3>1
    <3>2. CASE 2 \notin usages
      <4>1. usages = {0}
        BY <1>3, <3>2
      <4> QED BY <4>1
    <3> QED BY <3>1, <3>2
  <2>3. last \in usages
    BY <2>2
  <2> HIDE DEF last
  <2>4. 7 - last \in 0..7 /\ {7 - u : u \in usages} \subseteq {7, 5}
    BY <2>3
  <2> QED BY <1>1, <2>1, <2>4 DEF value
<1> QED BY <1>2, <1>3

-----------------------------------------------------------------------------
(* Comparison of usages *)

LEMMA FourIsSeq == ASSUME NEW a, NEW b, NEW c, NEW d PROVE IsSeq(<<a, b, c, d>>) /\ Len(<<a, b, c, d>>) = 4
BY DEF IsSeq

\* The usage is listed once, at position j.
Once(s, u, j) ==
  /\ j \in 1..Len(s) /\ s[j] = u
  /\ \A k \in 1..Len(s) : s[k] = u => k = j

LEMMA CountOnce ==
  ASSUME NEW s, IsSeq(s), NEW u
  PROVE  Count(s, u) = 1 <=> \E j : Once(s, u, j)
<1>1. IsFiniteSet(1..Len(s))
  BY FS_Interval DEF IsSeq
<1>2. IsFiniteSet({k \in 1..Len(s) : s[k] = u})
  BY <1>1, FS_Subset
<1>3. Count(s, u) = 1 <=> \E j : {k \in 1..Len(s) : s[k] = u} = {j}
  BY <1>2, FS_Singleton DEF Count
<1>4. ASSUME NEW j PROVE {k \in 1..Len(s) : s[k] = u} = {j} <=> Once(s, u, j)
  <2>1. {k \in 1..Len(s) : s[k] = u} = {j} => Once(s, u, j)
    BY DEF Once
  <2>2. Once(s, u, j) => {k \in 1..Len(s) : s[k] = u} = {j}
    BY DEF Once
  <2> QED BY <2>1, <2>2
<1> QED BY <1>3, <1>4

LEMMA CountNone ==
  ASSUME NEW s, IsSeq(s), NEW u
  PROVE  Count(s, u) = 0 <=> \A j \in 1..Len(s) : s[j] # u
<1>1. IsFiniteSet(1..Len(s))
  BY FS_Interval DEF IsSeq
<1>2. IsFiniteSet({k \in 1..Len(s) : s[k] = u})
  BY <1>1, FS_Subset
<1>3. Count(s, u) = 0 <=> {k \in 1..Len(s) : s[k] = u} = {}
  BY <1>2, FS_EmptySet DEF Count
<1> QED BY <1>3

Required == {"key encipherment", "digital signature", "client auth", "server auth"}

LEMMA CountRequired ==
  /\ IsSeq(requiredUsages) /\ Len(requiredUsages) = 4
  /\ \A u \in Required : Count(requiredUsages, u) = 1
  /\ \A u : u \notin Required => Count(requiredUsages, u) = 0
<1>1. IsSeq(requiredUsages) /\ Len(requiredUsages) = 4
  BY FourIsSeq DEF requiredUsages
<1>2. /\ requiredUsages[1] = "key encipherment" /\ requiredUsages[2] = "digital signature"
      /\ requiredUsages[3] = "client auth" /\ requiredUsages[4] = "server auth"
  BY DEF requiredUsages
<1>3. 1..4 = {1, 2, 3, 4}
  OBVIOUS
<1>4. ASSUME NEW u \in Required PROVE Count(requiredUsages, u) = 1
  <2>1. /\ u = "key encipherment" => Once(requiredUsages, u, 1)
        /\ u = "digital signature" => Once(requiredUsages, u, 2)
        /\ u = "client auth" => Once(requiredUsages, u, 3)
        /\ u = "server auth" => Once(requiredUsages, u, 4)
    BY <1>1, <1>2, <1>3 DEF Once
  <2>2. \E j : Once(requiredUsages, u, j)
    BY <1>4, <2>1 DEF Required
  <2> QED BY <1>1, <2>2, CountOnce
<1>5. ASSUME NEW u, u \notin Required PROVE Count(requiredUsages, u) = 0
  <2>1. \A j \in 1..4 : requiredUsages[j] # u
    BY <1>2, <1>3, <1>5 DEF Required
  <2> QED BY <1>1, <2>1, CountNone
<1> QED BY <1>1, <1>4, <1>5

\* The comparison holds for the orderings of the four required usages only.
LEMMA UsagesCompared ==
  ASSUME NEW s, IsSeq(s)
  PROVE  EqualKeyUsagesUnsorted(s, requiredUsages) <=> Len(s) = 4 /\ \A u \in Required : Count(s, u) = 1
<1>1. CASE Len(s) # 4
  BY <1>1, CountRequired DEF EqualKeyUsagesUnsorted
<1>2. CASE Len(s) = 4
  <2>0. 1..Len(s) = {1, 2, 3, 4}
    BY <1>2
  <2>1. ASSUME \A j \in 1..4 : Count(s, s[j]) = Count(requiredUsages, s[j]) PROVE \A u \in Required : Count(s, u) = 1
    <3>1. ASSUME NEW j \in 1..4 PROVE s[j] \in Required /\ Count(s, s[j]) = 1
      <4>1. Count(s, s[j]) # 0
        BY <1>2, <3>1, CountNone
      <4> QED BY <2>1, <4>1, CountRequired
    <3>2. ASSUME NEW j \in 1..4, NEW k \in 1..4, s[j] = s[k] PROVE j = k
      <4>1. PICK m : Once(s, s[j], m)
        BY <3>1, CountOnce
      <4> QED BY <1>2, <3>2, <4>1 DEF Once
    <3>3. /\ s[1] \in Required /\ s[2] \in Required /\ s[3] \in Required /\ s[4] \in Required
          /\ s[1] # s[2] /\ s[1] # s[3] /\ s[1] # s[4] /\ s[2] # s[3] /\ s[2] # s[4] /\ s[3] # s[4]
      BY <3>1, <3>2
    <3>4. Required \subseteq {s[1], s[2], s[3], s[4]}
      BY <3>3 DEF Required
    <3> QED BY <3>1, <3>4
  <2>2. ASSUME \A u \in Required : Count(s, u) = 1 PROVE \A j \in 1..4 : Count(s, s[j]) = Count(requiredUsages, s[j])
    <3>1. ASSUME NEW u \in Required PROVE \E j \in 1..4 : s[j] = u
      BY <1>2, <2>2, CountOnce DEF Once
    <3>2. PICK e \in 1..4 : s[e] = "key encipherment"
      BY <3>1 DEF Required
    <3>3. PICK d \in 1..4 : s[d] = "digital signature"
      BY <3>1 DEF Required
    <3>4. PICK c \in 1..4 : s[c] = "client auth"
      BY <3>1 DEF Required
    <3>5. PICK v \in 1..4 : s[v] = "server auth"
      BY <3>1 DEF Required
    <3>6. e # d /\ e # c /\ e # v /\ d # c /\ d # v /\ c # v
      BY <3>2, <3>3, <3>4, <3>5
    <3>7. 1..4 \subseteq {e, d, c, v}
      BY <3>6
    <3>8. ASSUME NEW j \in 1..4 PROVE s[j] \in Required
      BY <3>2, <3>3, <3>4, <3>5, <3>7 DEF Required
    <3> QED BY <2>2, <3>8, CountRequired
  <2> QED BY <1>2, <2>1, <2>2, CountRequired DEF EqualKeyUsagesUnsorted
<1> QED BY <1>1, <1>2

-----------------------------------------------------------------------------
(* Names *)

\* The names that are general names.
Proper(csr) == {m \in DOMAIN csr.names : csr.names[m].proper}

\* Among names that all have the tag number of a URI those that crypto/x509 takes
\* for URIs are all the general names there are.
LEMMA ProperURIs ==
  ASSUME NEW csr, IsSeq(csr.names), \A n \in 1..Len(csr.names) : csr.names[n].tag = "uri"
  PROVE  URIs(csr) = Proper(csr)
<1>1. DOMAIN csr.names = 1..Len(csr.names)
  BY DEF IsSeq
<1> QED BY <1>1 DEF URIs, Fields, Proper

\* The checks of the identity, for the URI at position n.
Identified(i, req, n) ==
  LET u == req.csr.names[n].uri IN
  /\ u.scheme = "spiffe"
  /\ IF i.useOwnServiceAccount
       THEN req.username = i.driverServiceAccount /\ u.host = i.trustDomain
       ELSE \E ns, sa \in {req.username[j] : j \in 1..Len(req.username)} :
              req.username = ServiceAccount(ns, sa) /\ u.string = SpiffeID(i.trustDomain, ns, sa)

LEMMA IdentityChecked ==
  ASSUME NEW i, NEW req, IsRequest(req)
  PROVE  ( IF i.useOwnServiceAccount
             THEN validateDriverServiceAccount(i, req.csr, req.username)
             ELSE validateIdentity(i, req.csr, req.username) )
         <=> \E n \in DOMAIN req.csr.names : URIs(req.csr) = {n} /\ Identified(i, req, n)
<1> DEFINE user == req.username
<1>1. IsSeq(user)
  BY DEF IsRequest
<1>2. CASE i.useOwnServiceAccount
  BY <1>2 DEF Identified, validateDriverServiceAccount
<1>3. CASE ~i.useOwnServiceAccount
  <2>1. (Len(user) = 4 /\ user[1] = "system" /\ user[2] = "serviceaccount") <=>
          (Len(user) = 4 /\ user = ServiceAccount(user[3], user[4]))
    BY <1>1 DEF ServiceAccount, IsSeq
  <2>2. ASSUME NEW ns, NEW sa, user = ServiceAccount(ns, sa)
        PROVE  Len(user) = 4 /\ ns = user[3] /\ sa = user[4]
    BY <2>2 DEF ServiceAccount
  <2>3. Len(user) = 4 =>
          user[3] \in {user[j] : j \in 1..Len(user)} /\ user[4] \in {user[j] : j \in 1..Len(user)}
    OBVIOUS
  <2>4. ASSUME NEW id
        PROVE  (\E ns, sa \in {user[j] : j \in 1..Len(user)} :
                  user = ServiceAccount(ns, sa) /\ id = SpiffeID(i.trustDomain, ns, sa))
               <=> ( /\ Len(user) = 4 /\ user[1] = "system" /\ user[2] = "serviceaccount"
                     /\ id = SpiffeID(i.trustDomain, user[3], user[4]) )
    BY <2>1, <2>2, <2>3
  <2>5. ASSUME NEW n \in DOMAIN req.csr.names
        PROVE  Identified(i, req, n) <=>
                 ( /\ Len(user) = 4 /\ user[1] = "system" /\ user[2] = "serviceaccount"
                   /\ req.csr.names[n].uri.scheme = "spiffe"
                   /\ req.csr.names[n].uri.string = SpiffeID(i.trustDomain, user[3], user[4]) )
    <3> DEFINE u == req.csr.names[n].uri
    <3>1. Identified(i, req, n) <=>
            ( /\ u.scheme = "spiffe"
              /\ \E ns, sa \in {user[j] : j \in 1..Len(user)} :
                   user = ServiceAccount(ns, sa) /\ u.string = SpiffeID(i.trustDomain, ns, sa) )
      BY <1>3 DEF Identified
    <3> QED BY <3>1, <2>4
  <2> QED BY <1>3, <2>5 DEF validateIdentity
<1> QED BY <1>2, <1>3

LEMMA NamesRequesterIdentified ==
  ASSUME NEW i, NEW req
  PROVE  NamesRequester(i, req) <=>
           \E n \in DOMAIN req.csr.names :
             Proper(req.csr) = {n} /\ req.csr.names[n].tag = "uri" /\ Identified(i, req, n)
BY DEF NamesRequester, Proper, Identified

-----------------------------------------------------------------------------
\* Evaluate approves no request that is not acceptable, for any options: the checks
\* of the CSR and its extensions, byte masks included, the comparison of usages and
\* the identity checks imply what Acceptable says, of key usages of any bytes, of
\* names of any tag, class and form, and of malformed extensions.
THEOREM EvaluateIsSound ==
  ASSUME NEW i, NEW req, IsRequest(req), Evaluate(i, req)
  PROVE  Acceptable(i, req)
<1> DEFINE csr == req.csr
<1>1. IsSeq(csr.names) /\ IsSeq(req.usages)
  BY DEF IsRequest
<1>2. \A n \in 1..Len(csr.names) : csr.names[n].tag = "uri"
  BY DEF Evaluate, validateCSRExtentions, validateSubjectAltNameExtension
<1>3. csr.keyUsage # None => Asserted(csr.keyUsage) \subseteq {0, 2}
  BY MaskedUsages DEF IsRequest, Evaluate, validateCSRExtentions
<1>4. csr.extKeyUsage # None => csr.extKeyUsage \subseteq {"client auth", "server auth"}
  BY DEF Evaluate, validateCSRExtentions, validateExtendedKeyUsageExtension
<1>5. Len(req.usages) = 4 /\ \A u \in Required : Count(req.usages, u) = 1
  BY <1>1, UsagesCompared DEF Evaluate
<1>6. PICK n \in DOMAIN csr.names : URIs(csr) = {n} /\ Identified(i, req, n)
  BY IdentityChecked DEF Evaluate
<1>7. Proper(csr) = {n} /\ csr.names[n].tag = "uri"
  <2>1. n \in 1..Len(csr.names)
    BY <1>1 DEF IsSeq
  <2>2. URIs(csr) = Proper(csr)
    BY <1>1, <1>2, ProperURIs
  <2> QED BY <1>2, <1>6, <2>1, <2>2
<1>8. NamesRequester(i, req)
  BY <1>6, <1>7, NamesRequesterIdentified
<1>9. UsagesAllowed(req)
  BY <1>3, <1>4, <1>5 DEF UsagesAllowed, Required
<1> QED BY <1>8, <1>9 DEF Evaluate, validateCSRExtentions, Acceptable

\* Of the requests whose extensions are encoded as crypto/x509 encodes them Evaluate
\* denies none that is acceptable.
THEOREM EvaluateIsComplete ==
  ASSUME NEW i, NEW req, IsRequest(req), Acceptable(i, req), Canonical(req.csr)
  PROVE  Evaluate(i, req)
<1> DEFINE csr == req.csr
<1>1. IsSeq(csr.names) /\ IsSeq(req.usages) /\ DOMAIN csr.names = 1..Len(csr.names)
  BY DEF IsRequest, IsSeq
<1>2. PICK n \in DOMAIN csr.names :
        Proper(csr) = {n} /\ csr.names[n].tag = "uri" /\ Identified(i, req, n)
  BY NamesRequesterIdentified DEF Acceptable
<1>3. \A m \in DOMAIN csr.names : m = n
  BY <1>2 DEF Canonical, Proper
<1>4. \A m \in 1..Len(csr.names) : csr.names[m].tag = "uri"
  BY <1>1, <1>2, <1>3
<1>5. validateSubjectAltNameExtension(csr)
  BY <1>4 DEF Canonical, validateSubjectAltNameExtension
<1>6. \A tag \in {"dns", "ip", "email"} : Fields(csr, tag) = {}
  BY <1>1, <1>4 DEF Fields
<1>7. csr.keyUsage # None => validateKeyUsageExtension(csr.keyUsage)
  <2> SUFFICES ASSUME csr.keyUsage # None PROVE validateKeyUsageExtension(csr.keyUsage)
    OBVIOUS
  <2>1. PICK usages \in SUBSET (0..8) : csr.keyUsage = EncodeKeyUsage(usages)
    BY DEF Canonical
  <2>2. Asserted(EncodeKeyUsage(usages)) \subseteq {0, 2}
    BY <2>1 DEF Acceptable, UsagesAllowed
  <2>3. usages \in SUBSET {0, 2}
    BY <2>2, EncodedUsages
  <2> QED BY <2>1, <2>3, AllowedUsagesPass
<1>8. csr.extKeyUsage # None => validateExtendedKeyUsageExtension(csr)
  BY DEF Acceptable, UsagesAllowed, Canonical, validateExtendedKeyUsageExtension
<1>9. EqualKeyUsagesUnsorted(req.usages, requiredUsages)
  BY <1>1, UsagesCompared DEF Acceptable, UsagesAllowed, Required
<1>10. URIs(csr) = {n}
  BY <1>1, <1>2, <1>4, ProperURIs
<1>11. IF i.useOwnServiceAccount
         THEN validateDriverServiceAccount(i, csr, req.username)
         ELSE validateIdentity(i, csr, req.username)
  BY <1>2, <1>10, IdentityChecked
<1> QED BY <1>5, <1>6, <1>7, <1>8, <1>9, <1>11 DEF Evaluate, validateCSRExtentions, Acceptable
=============================================================================
