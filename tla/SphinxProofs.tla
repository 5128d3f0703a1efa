---------------------------- MODULE SphinxProofs ----------------------------
(***************************************************************************)
(* What holds of a packet's header and of the secrets the relays derive,   *)
(* for every route length, header size and set of nodes.                   *)
(***************************************************************************)
EXTENDS Sphinx, SequenceTheorems, TLAPS

\* The key of the i-th hop is a sequence of i - 1 nodes.
LEMMA BlindedKeyLength ==
    ASSUME NEW r \in Route, NEW i \in 1 .. L
    PROVE  BlindedKey(r, i) \in [1 .. i - 1 -> Node]
<1>1. L \in Nat
  BY SphinxAssumption
<1>2. r \in Seq(Node) /\ Len(r) = L
  BY <1>1 DEF Route
<1>3. SubSeq(r, 1, i - 1) = [k \in 1 .. i - 1 |-> r[k]]
  BY <1>1, <1>2
<1>4. \A k \in 1 .. i - 1 : r[k] \in Node
  <2>1. \A k \in 1 .. i - 1 : k \in 1 .. L
    BY <1>1
  <2> QED BY <1>2, <2>1
<1> QED BY <1>3, <1>4 DEF BlindedKey

\* Secrets of different hops differ, also at one node, and none of them is a
\* secret that a relay derives from a key it could not read.
LEMMA SecretsDiffer ==
    ASSUME NEW r \in Route, NEW i \in 1 .. L
    PROVE  /\ SenderSecret(r, i).key = BlindedKey(r, i)
           /\ \A k \in 1 .. L : SenderSecret(r, i) = SenderSecret(r, k) => i = k
           /\ \A key \in {Identity, Garbled} : \A n :
                 SenderSecret(r, i) # SharedSecret(key, n)
<1>0. L \in Nat
  BY SphinxAssumption
<1>1. BlindedKey(r, i) \in SenderKey
  <2>1. BlindedKey(r, i) \in [1 .. i - 1 -> Node] /\ i - 1 \in 0 .. L - 1
    BY <1>0, BlindedKeyLength
  <2> QED BY <2>1, ZenonT(30) DEF SenderKey
<1>2. SenderSecret(r, i).key = BlindedKey(r, i)
  BY DEF SenderSecret, SharedSecret
<1>3. ASSUME NEW k \in 1 .. L, SenderSecret(r, i) = SenderSecret(r, k) PROVE i = k
  <2>1. BlindedKey(r, i) = BlindedKey(r, k)
    BY <1>3 DEF SenderSecret, SharedSecret
  <2>2. DOMAIN BlindedKey(r, i) = 1 .. i - 1 /\ DOMAIN BlindedKey(r, k) = 1 .. k - 1
    BY BlindedKeyLength
  <2>3. 1 .. i - 1 = 1 .. k - 1
    BY <2>1, <2>2
  <2> QED BY <2>3, <1>0
<1>4. ASSUME NEW key \in {Identity, Garbled}, NEW n
      PROVE  SenderSecret(r, i) # SharedSecret(key, n)
  <2>1. SharedSecret(key, n).key = key
    BY DEF SharedSecret
  <2> QED BY <2>1, <1>1, <1>2, KeyAssumption
<1> QED BY <1>2, <1>3, <1>4

\* The element appended to a sequence is its last.
LEMMA AppendLast ==
    ASSUME NEW S, NEW s \in Seq(S), NEW b \in S
    PROVE  Append(s, b)[Len(s) + 1] = b
BY AppendProperties, SMTT(20)

\* An element appended to a sequence of one.
LEMMA AppendToOne ==
    ASSUME NEW S, NEW s \in Seq(S), Len(s) = 1, NEW b \in S
    PROVE  Append(s, b) = <<s[1], b>>
<1>1. /\ Append(s, b) \in Seq(S)
      /\ Len(Append(s, b)) = Len(s) + 1
      /\ \A i \in 1 .. Len(s) : Append(s, b)[i] = s[i]
      /\ Append(s, b)[Len(s) + 1] = b
  <2>1. Append(s, b) \in Seq(S)
    OBVIOUS
  <2>2. Len(Append(s, b)) = Len(s) + 1
    OBVIOUS
  <2>3. \A i \in 1 .. Len(s) : Append(s, b)[i] = s[i]
    BY SMTT(20)
  <2>4. Append(s, b)[Len(s) + 1] = b
    BY AppendLast
  <2> QED BY <2>1, <2>2, <2>3, <2>4
<1>2. /\ Append(s, b) \in Seq(S) /\ Len(Append(s, b)) = 2
      /\ Append(s, b)[1] = s[1] /\ Append(s, b)[2] = b
  BY <1>1
<1>3. s[1] \in S
  BY ElementOfSeq
<1> DEFINE t == <<s[1], b>>
<1>4. t \in Seq(S) /\ Len(t) = 2 /\ t[1] = s[1] /\ t[2] = b
  BY <1>3
<1> HIDE DEF t
<1>5. \A i \in 1 .. 2 : Append(s, b)[i] = t[i]
  BY <1>2, <1>4
<1>6. Append(s, b) = t
  BY <1>2, <1>4, <1>5, SeqEqual
<1> QED BY <1>6 DEF t

-----------------------------------------------------------------------------
FirstHop(r) == [node |-> r[1], secret |-> SenderSecret(r, 1), next |-> r[2]]

SecondHop(r, key) == [node |-> r[2], secret |-> SharedSecret(key, r[2]), next |-> Nowhere]

Peeled(r) == Decrypted(ConstructHeader(r), SenderSecret(r, 1))

\* The inductive invariant: the packet is as the sender made it, or as the
\* first relay left it, or the second relay could not read its key.
RouteInv ==
    /\ route \in Route
    /\ \/ hops = <<>> /\ header = ConstructHeader(route) /\ holder = route[1]
       \/ hops = <<FirstHop(route)>> /\ header = Peeled(route) /\ holder = route[2]
       \/ \E key \in {Identity, Garbled} :
             /\ hops = <<FirstHop(route), SecondHop(route, key)>>
             /\ header = Decrypted(Peeled(route), SharedSecret(key, route[2]))
             /\ holder = Nowhere

\* What the three headers show in their slots 0 and 1.
LEMMA HeaderSlots ==
    ASSUME NEW r \in Route
    PROVE  /\ ConstructHeader(r)[0].text = EphPk /\ ConstructHeader(r)[0].mask = {}
           /\ Peeled(r)[0].mask = {SenderSecret(r, 1)}
           /\ Peeled(r)[1].text = r[2] /\ Peeled(r)[1].mask = {}
           /\ \A key \in {Identity, Garbled} :
                 Decrypted(Peeled(r), SharedSecret(key, r[2]))[1].mask = {SharedSecret(key, r[2])}
<1>1. {0, 1} \subseteq 0 .. Slots - 1 /\ 1 < L
  BY SphinxAssumption
<1>2. Secrets(r, 1 .. 1) = {SenderSecret(r, 1)}
  BY DEF Secrets
<1>3. /\ ConstructHeader(r)[0] = [text |-> EphPk, mask |-> {}]
      /\ ConstructHeader(r)[1] = [text |-> r[2], mask |-> {SenderSecret(r, 1)}]
  BY <1>1, <1>2 DEF ConstructHeader
<1>4. /\ Peeled(r)[0] = [text |-> EphPk, mask |-> {SenderSecret(r, 1)}]
      /\ Peeled(r)[1] = [text |-> r[2], mask |-> {}]
  BY <1>1, <1>3 DEF Peeled, Decrypted
<1>5. ASSUME NEW key \in {Identity, Garbled}
      PROVE  Decrypted(Peeled(r), SharedSecret(key, r[2]))[1].mask = {SharedSecret(key, r[2])}
  BY <1>1, <1>4 DEF Decrypted
<1>6. ConstructHeader(r)[0].text = EphPk /\ ConstructHeader(r)[0].mask = {}
  BY <1>3
<1>7. /\ Peeled(r)[0].mask = {SenderSecret(r, 1)}
      /\ Peeled(r)[1].text = r[2] /\ Peeled(r)[1].mask = {}
  BY <1>4
<1> QED BY <1>5, <1>6, <1>7

\* The inductive invariant holds.
THEOREM RouteInvariant == Spec => []RouteInv
<1>1. Init => RouteInv
  BY DEF Init, RouteInv
<1>2. RouteInv /\ [Next]_vars => RouteInv'
  <2> SUFFICES ASSUME RouteInv, [Next]_vars PROVE RouteInv'
    OBVIOUS
  <2>0. route \in Route /\ route[1] \in Node /\ route[2] \in Node
    BY SphinxAssumption DEF RouteInv, Route
  <2>1. CASE UNCHANGED vars
    BY <2>1 DEF RouteInv, vars
  <2>2. ASSUME ProcessAtRelay, hops = <<>>, header = ConstructHeader(route), holder = route[1]
        PROVE  RouteInv'
    <3>1. PICK key \in ParsedKeys(header[0]) :
             LET secret == SharedSecret(key, holder)
                 next == ReadAddress(Decrypted(header, secret)[1])
             IN  /\ header' = Decrypted(header, secret)
                 /\ hops' = Append(hops, [node |-> holder, secret |-> secret, next |-> next])
                 /\ holder' = next
      BY <2>2 DEF ProcessAtRelay
    <3>2. key = <<>>
      BY <2>0, <2>2, HeaderSlots DEF ParsedKeys
    <3>3. SharedSecret(key, holder) = SenderSecret(route, 1)
      <4>1. BlindedKey(route, 1) = <<>>
        BY <2>0, SphinxAssumption, BlindedKeyLength
      <4> QED BY <4>1, <3>2, <2>2 DEF SenderSecret
    <3>4. ReadAddress(Peeled(route)[1]) = route[2]
      BY <2>0, HeaderSlots DEF ReadAddress
    <3>5. /\ header' = Peeled(route) /\ holder' = route[2]
          /\ hops' = <<FirstHop(route)>>
      BY <2>2, <3>1, <3>3, <3>4 DEF Peeled, FirstHop
    <3>6. route' = route
      BY <2>2 DEF ProcessAtRelay
    <3> QED BY <2>0, <3>5, <3>6 DEF RouteInv
  <2>3. ASSUME ProcessAtRelay, hops = <<FirstHop(route)>>, header = Peeled(route),
               holder = route[2]
        PROVE  RouteInv'
    <3>1. PICK key \in ParsedKeys(header[0]) :
             LET secret == SharedSecret(key, holder)
                 next == ReadAddress(Decrypted(header, secret)[1])
             IN  /\ header' = Decrypted(header, secret)
                 /\ hops' = Append(hops, [node |-> holder, secret |-> secret, next |-> next])
                 /\ holder' = next
      BY <2>3 DEF ProcessAtRelay
    <3>2. key \in {Identity, Garbled}
      <4>1. header[0].mask = {SenderSecret(route, 1)}
        BY <2>0, <2>3, HeaderSlots
      <4> QED BY <4>1 DEF ParsedKeys
    <3>3. ReadAddress(Decrypted(Peeled(route), SharedSecret(key, route[2]))[1]) = Nowhere
      <4>1. Decrypted(Peeled(route), SharedSecret(key, route[2]))[1].mask
               = {SharedSecret(key, route[2])}
        BY <2>0, <3>2, HeaderSlots
      <4> QED BY <4>1 DEF ReadAddress
    <3>4. /\ header' = Decrypted(Peeled(route), SharedSecret(key, route[2]))
          /\ holder' = Nowhere
          /\ hops' = <<FirstHop(route), SecondHop(route, key)>>
      <4>1. hops' = Append(<<FirstHop(route)>>, SecondHop(route, key))
        BY <2>3, <3>1, <3>3 DEF SecondHop
      <4>2. hops' = <<FirstHop(route), SecondHop(route, key)>>
        <5> DEFINE S == {FirstHop(route), SecondHop(route, key)}
                   s == <<FirstHop(route)>>
        <5>1. s \in Seq(S) /\ Len(s) = 1 /\ s[1] = FirstHop(route)
          OBVIOUS
        <5>2. SecondHop(route, key) \in S
          OBVIOUS
        <5>3. hops' = Append(s, SecondHop(route, key))
          BY <4>1
        <5> HIDE DEF S, s
        <5>4. hops' = <<s[1], SecondHop(route, key)>>
          BY <5>1, <5>2, <5>3, AppendToOne
        <5> QED BY <5>1, <5>4
      <4>3. header' = Decrypted(Peeled(route), SharedSecret(key, route[2])) /\ holder' = Nowhere
        BY <2>3, <3>1, <3>3
      <4> QED BY <4>2, <4>3
    <3>5. route' = route
      BY <2>3 DEF ProcessAtRelay
    <3> QED BY <2>0, <3>2, <3>4, <3>5 DEF RouteInv
  <2>4. ASSUME ProcessAtRelay, holder = Nowhere PROVE FALSE
    BY <2>4, SphinxAssumption DEF ProcessAtRelay
  <2> QED BY <2>1, <2>2, <2>3, <2>4 DEF RouteInv, Next
<1> QED BY <1>1, <1>2, PTL DEF Spec

-----------------------------------------------------------------------------
\* A header stays one when a relay adds or takes off a keystream.
LEMMA DecryptedTyped ==
    ASSUME NEW h \in Header, NEW secret \in Secret
    PROVE  Decrypted(h, secret) \in Header
<1>1. ASSUME NEW j \in 0 .. Slots - 1
      PROVE  [text |-> h[j].text,
              mask |-> IF secret \in h[j].mask THEN h[j].mask \ {secret}
                                               ELSE h[j].mask \cup {secret}] \in Slot
  <2>1. h[j] \in Slot
    BY DEF Header
  <2>2. h[j].text \in Node \cup {EphPk, Zero} /\ h[j].mask \subseteq Secret
    BY <2>1 DEF Slot
  <2> QED BY <2>2 DEF Slot
<1> QED BY <1>1 DEF Decrypted, Header

\* The secrets that a sender and the relays derive, and the sender's header.
LEMMA SenderTyped ==
    ASSUME NEW r \in Route
    PROVE  /\ \A i \in 1 .. L : SenderSecret(r, i) \in Secret
           /\ \A key \in {Identity, Garbled} : SharedSecret(key, r[2]) \in Secret
           /\ ConstructHeader(r) \in Header
<1>0. {L, Slots} \subseteq Nat /\ 2 <= L /\ \A i \in 1 .. L : r[i] \in Node
  BY SphinxAssumption DEF Route
<1>1. ASSUME NEW i \in 1 .. L PROVE SenderSecret(r, i) \in Secret
  <2>1. BlindedKey(r, i) \in SenderKey
    <3>1. i - 1 \in 0 .. L - 1 /\ BlindedKey(r, i) \in [1 .. i - 1 -> Node]
      BY <1>0, BlindedKeyLength
    <3> HIDE DEF BlindedKey
    <3> QED BY <3>1 DEF SenderKey
  <2>2. BlindedKey(r, i) # Identity
    BY <2>1, KeyAssumption
  <2> QED BY <1>0, <2>1, <2>2 DEF SenderSecret, SharedSecret, Secret, Key
<1>2. ASSUME NEW key \in {Identity, Garbled} PROVE SharedSecret(key, r[2]) \in Secret
  BY <1>0 DEF SharedSecret, Secret, Key
<1>3. ASSUME NEW j \in 0 .. Slots - 1 PROVE ConstructHeader(r)[j] \in Slot
  <2>1. \A n \in 0 .. L : Secrets(r, 1 .. n) \subseteq Secret
    BY <1>0, <1>1 DEF Secrets
  <2>2. CASE j = 0
    BY <2>2 DEF ConstructHeader, Slot
  <2>3. CASE j # 0 /\ j < L
    <3>1. ConstructHeader(r)[j] = [text |-> r[j + 1], mask |-> Secrets(r, 1 .. j)]
      BY <2>3 DEF ConstructHeader
    <3>2. Secrets(r, 1 .. j) \subseteq Secret /\ r[j + 1] \in Node
      BY <1>0, <2>1, <2>3
    <3> QED BY <3>1, <3>2 DEF Slot
  <2>4. CASE j # 0 /\ ~(j < L)
    <3>1. ConstructHeader(r)[j] = [text |-> Zero, mask |-> Secrets(r, 1 .. L)]
      BY <2>4 DEF ConstructHeader
    <3>2. Secrets(r, 1 .. L) \subseteq Secret
      BY <1>0, <2>1
    <3> QED BY <3>1, <3>2 DEF Slot
  <2> QED BY <2>2, <2>3, <2>4
<1>4. ConstructHeader(r) \in Header
  BY <1>3 DEF ConstructHeader, Header
<1> QED BY <1>1, <1>2, <1>4

\* The header keeps its size and its slots hold nothing but addresses, the key
\* and zeros under keystreams of secrets, whichever keys the relays read.
THEOREM HeaderTyped == Spec => []TypeOK
<1>1. RouteInv => TypeOK
  <2> SUFFICES ASSUME RouteInv PROVE TypeOK
    OBVIOUS
  <2>0. route \in Route /\ route[1] \in Node /\ route[2] \in Node /\ L \in Nat /\ 2 <= L
    BY SphinxAssumption DEF RouteInv, Route
  <2>1. FirstHop(route) \in Hop
    BY <2>0, SenderTyped DEF FirstHop, Hop
  <2>2. \A key \in {Identity, Garbled} : SecondHop(route, key) \in Hop
    BY <2>0, SenderTyped DEF SecondHop, Hop
  <2>3. Peeled(route) \in Header
    BY <2>0, SenderTyped, DecryptedTyped DEF Peeled
  <2>4. \A key \in {Identity, Garbled} :
           Decrypted(Peeled(route), SharedSecret(key, route[2])) \in Header
    BY <2>0, <2>3, SenderTyped, DecryptedTyped
  <2>5. header \in Header
    BY <2>0, <2>3, <2>4, SenderTyped DEF RouteInv
  <2>6. hops \in Seq(Hop)
    <3>1. \A a, b : a \in Hop /\ b \in Hop => <<a>> \in Seq(Hop) /\ <<a, b>> \in Seq(Hop)
      OBVIOUS
    <3>2. <<FirstHop(route)>> \in Seq(Hop)
      BY <2>1, <3>1
    <3>3. \A key \in {Identity, Garbled} : <<FirstHop(route), SecondHop(route, key)>> \in Seq(Hop)
      BY <2>1, <2>2, <3>1
    <3>4. hops = <<>> \/ hops = <<FirstHop(route)>>
            \/ \E key \in {Identity, Garbled} : hops = <<FirstHop(route), SecondHop(route, key)>>
      BY DEF RouteInv
    <3>5. <<>> \in Seq(Hop)
      OBVIOUS
    <3> QED BY <3>2, <3>3, <3>4, <3>5, Zenon
  <2> QED BY <2>0, <2>5, <2>6 DEF RouteInv, TypeOK
<1> QED BY <1>1, RouteInvariant, PTL

-----------------------------------------------------------------------------
\* The first relay of every route derives the sender's secret and finds the
\* address of the second.
THEOREM FirstHopAgrees == Spec => []FirstHopPeels
<1>1. RouteInv => FirstHopPeels
  BY DEF RouteInv, FirstHopPeels, FirstHop
<1> QED BY <1>1, RouteInvariant, PTL

\* No relay before the exit derives the secret that masks the payload.
THEOREM PayloadMasked == Spec => []PayloadOnlyForExit
<1>1. RouteInv => PayloadOnlyForExit
  <2> SUFFICES ASSUME RouteInv, NEW i \in DOMAIN hops, i < L
               PROVE  hops[i].secret # SenderSecret(route, L)
    BY DEF PayloadOnlyForExit
  <2>0. route \in Route /\ L \in Nat /\ 2 <= L
    BY SphinxAssumption DEF RouteInv
  <2>1. SenderSecret(route, 1) # SenderSecret(route, L)
    BY <2>0, SecretsDiffer
  <2>2. \A key \in {Identity, Garbled} : SharedSecret(key, route[2]) # SenderSecret(route, L)
    BY <2>0, SecretsDiffer
  <2> QED BY <2>1, <2>2 DEF RouteInv, FirstHop, SecondHop
<1> QED BY <1>1, RouteInvariant, PTL

\* The relays that handled a packet together read only addresses that they
\* passed it on to.
THEOREM AddressesHidden == Spec => []PathHidden
<1>1. RouteInv => PathHidden
  <2> DEFINE derived == {hops[i].secret : i \in DOMAIN hops}
             found   == {hops[i].next : i \in DOMAIN hops}
  <2> SUFFICES ASSUME RouteInv, NEW j \in 0 .. Slots - 1,
                      header[j].text \in Node, header[j].mask \subseteq derived
               PROVE  header[j].text \in found
    BY DEF PathHidden
  <2>0. route \in Route /\ {L, Slots} \subseteq Nat /\ 2 <= L
    BY SphinxAssumption DEF RouteInv
  <2>1. ConstructHeader(route)[j].text \in Node => j \in 1 .. L - 1
    BY <2>0, SphinxAssumption DEF ConstructHeader
  <2>2. ConstructHeader(route)[j].text = header[j].text
    <3>1. Peeled(route)[j].text = ConstructHeader(route)[j].text
      BY DEF Peeled, Decrypted
    <3>2. \A secret : Decrypted(Peeled(route), secret)[j].text = Peeled(route)[j].text
      BY DEF Decrypted
    <3> QED BY <3>1, <3>2 DEF RouteInv
  <2>3. j \in 1 .. L - 1
    BY <2>1, <2>2
  <2>4. \A i \in 1 .. j : SenderSecret(route, i) \in ConstructHeader(route)[j].mask
    BY <2>0, <2>3 DEF ConstructHeader, Secrets
  <2>5. CASE hops = <<>>
    BY <2>0, <2>3, <2>4, <2>5 DEF RouteInv
  <2>6. CASE hops # <<>> /\ j = 1
    <3>1. ConstructHeader(route)[j].text = route[2]
      BY <2>0, <2>3, <2>6 DEF ConstructHeader
    <3>2. 1 \in DOMAIN hops /\ hops[1].next = route[2]
      BY <2>6 DEF RouteInv, FirstHop
    <3> QED BY <2>2, <3>1, <3>2
  <2>7. CASE hops # <<>> /\ j # 1
    <3>1. SenderSecret(route, 2) # SenderSecret(route, 1)
      BY <2>0, SecretsDiffer
    <3>2. \A key \in {Identity, Garbled} : SharedSecret(key, route[2]) # SenderSecret(route, 2)
      BY <2>0, SecretsDiffer
    <3>3. SenderSecret(route, 2) \in Peeled(route)[j].mask
      BY <2>0, <2>3, <2>4, <2>7, <3>1 DEF Peeled, Decrypted
    <3>4. SenderSecret(route, 2) \in header[j].mask
      <4>1. \A key \in {Identity, Garbled} :
               SenderSecret(route, 2) \in
                   Decrypted(Peeled(route), SharedSecret(key, route[2]))[j].mask
        BY <3>2, <3>3 DEF Decrypted
      <4> QED BY <2>7, <3>3, <4>1 DEF RouteInv
    <3>5. SenderSecret(route, 2) \notin derived
      BY <2>7, <3>1, <3>2 DEF RouteInv, FirstHop, SecondHop
    <3> QED BY <3>4, <3>5
  <2> QED BY <2>5, <2>6, <2>7
<1> QED BY <1>1, RouteInvariant, PTL
=============================================================================
