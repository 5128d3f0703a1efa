------------------------------- MODULE Sphinx -------------------------------
(***************************************************************************)
(* core/src/sphinx.rs: the packet of a route of L hops, and what the       *)
(* relays make of its header, one after the other.                         *)
(*                                                                         *)
(* A header is a sequence of 32-byte slots, counted from 0.  Whatever is   *)
(* written into a slot is XORed with keystreams, each of them twice at     *)
(* most and never shifted: a slot is its text and the set of the secrets   *)
(* whose keystream masks it.  The routing keys that construct_packet       *)
(* derives are not used by it.                                             *)
(***************************************************************************)
EXTENDS Naturals, Sequences

CONSTANTS
    Node,               \* the relays; a node's address is the node
    Nowhere,            \* no node
    L,                  \* hops of a route
    Slots,              \* slots of a header
    EphPk, Zero,        \* text of a slot: the ephemeral key, and nothing
    Identity, Garbled   \* the curve's default point, and one of unknown origin

ASSUME SphinxAssumption ==
    /\ {L, Slots} \subseteq Nat \ {0} /\ 2 <= L /\ L <= Slots
    /\ Nowhere \notin Node /\ {EphPk, Zero} \cap Node = {}

Route == [1 .. L -> Node]

\* What stands for the keys that a sender uses, see BlindedKey.
SenderKey == UNION {[1 .. i -> Node] : i \in 0 .. L - 1}

ASSUME KeyAssumption == {Identity, Garbled} \cap SenderKey = {}

-----------------------------------------------------------------------------
\* The sender multiplies its scalar by a factor per hop that depends on the
\* secret shared with it: the sequence of the hops before the i-th stands for
\* the key that the sender uses with the i-th.

\* Mutant: the scalar is not blinded from hop to hop.
BlindedKey_once(route, i) == <<>>

\* Mutant: the scalar is blinded before it is used.
BlindedKey_early(route, i) == SubSeq(route, 1, i)

BlindedKey(route, i) == SubSeq(route, 1, i - 1)

Key == SenderKey \cup {Identity, Garbled}

\* The hash of the Diffie-Hellman point, which is the same for every node when
\* the key is the default point.
SharedSecret(key, node) ==
    [key |-> key, node |-> IF key = Identity THEN Nowhere ELSE node]

Secret == [key : Key, node : Node \cup {Nowhere}]

SenderSecret(route, i) == SharedSecret(BlindedKey(route, i), route[i])

Slot == [text : Node \cup {EphPk, Zero}, mask : SUBSET Secret]

Header == [0 .. Slots - 1 -> Slot]

Secrets(route, hops) == {SenderSecret(route, i) : i \in hops}

\* Mutant: an address is written before the header is masked for its hop.
ConstructHeader_addressFirst(route) ==
    [j \in 0 .. Slots - 1 |->
        IF j = 0 THEN [text |-> EphPk, mask |-> {}]
        ELSE IF j < L THEN [text |-> route[j + 1], mask |-> Secrets(route, 1 .. j + 1)]
        ELSE [text |-> Zero, mask |-> Secrets(route, 1 .. L)]]

\* Mutant: the header is masked once, for the first hop.
ConstructHeader_oneLayer(route) ==
    [j \in 0 .. Slots - 1 |->
        IF j = 0 THEN [text |-> EphPk, mask |-> {}]
        ELSE IF j < L THEN [text |-> route[j + 1], mask |-> Secrets(route, {1})]
        ELSE [text |-> Zero, mask |-> Secrets(route, {1})]]

\* From the last hop to the first the header is masked for the hop, and then
\* the address of hop j + 1 overwrites slot j: this address ends up masked for
\* the hops 1 .. j, the slots behind the addresses for all.  The ephemeral key
\* overwrites slot 0 at last.
ConstructHeader(route) ==
    [j \in 0 .. Slots - 1 |->
        IF j = 0 THEN [text |-> EphPk, mask |-> {}]
        ELSE IF j < L THEN [text |-> route[j + 1], mask |-> Secrets(route, 1 .. j)]
        ELSE [text |-> Zero, mask |-> Secrets(route, 1 .. L)]]

\* The keys a relay may read from slot 0: masked bytes are either no point of
\* the curve, for which the code takes the default one, or an arbitrary point.
ParsedKeys(slot) == IF slot.text = EphPk /\ slot.mask = {} THEN {<<>>} ELSE {Identity, Garbled}

\* XOR with the keystream of a secret: a second time it undoes the first.
Decrypted(h, secret) ==
    [j \in 0 .. Slots - 1 |->
        [text |-> h[j].text,
         mask |-> IF secret \in h[j].mask THEN h[j].mask \ {secret}
                                          ELSE h[j].mask \cup {secret}]]

\* The node whose address the slot shows, if any.
ReadAddress(slot) == IF slot.mask = {} /\ slot.text \in Node THEN slot.text ELSE Nowhere

-----------------------------------------------------------------------------
VARIABLES
    route,    \* the hops that the sender chose
    header,   \* the packet's header
    holder,   \* the relay that has the packet, or Nowhere
    hops      \* history: the relays that processed it and what each obtained

vars == <<route, header, holder, hops>>

\* construct_packet, and the packet is handed to the first hop.
Init ==
    /\ route \in Route
    /\ header = ConstructHeader(route)
    /\ holder = route[1]
    /\ hops = <<>>

\* process_at_relay at the holder, which passes the new header on to the
\* address it found in slot 1, if that is one.
ProcessAtRelay ==
    /\ holder \in Node /\ Len(hops) < L
    /\ \E key \in ParsedKeys(header[0]) :
          LET secret == SharedSecret(key, holder)
              next == ReadAddress(Decrypted(header, secret)[1])
          IN  /\ header' = Decrypted(header, secret)
              /\ hops' = Append(hops, [node |-> holder, secret |-> secret, next |-> next])
              /\ holder' = next
    /\ UNCHANGED route

Next == ProcessAtRelay

Spec == Init /\ [][Next]_vars

-----------------------------------------------------------------------------
Hop == [node : Node, secret : Secret, next : Node \cup {Nowhere}]

TypeOK ==
    /\ route \in Route
    /\ header \in Header
    /\ holder \in Node \cup {Nowhere}
    /\ hops \in Seq(Hop)

\* The first relay and the sender agree: the relay derives the secret that the
\* sender used for it, and finds the address of the second.
FirstHopPeels ==
    hops # <<>> => hops[1] = [node |-> route[1], secret |-> SenderSecret(route, 1),
                              next |-> route[2]]

\* The relays that handled the packet, all their secrets taken together, read
\* no address in its header but those they passed it on to.
PathHidden ==
    LET derived == {hops[i].secret : i \in DOMAIN hops}
        found   == {hops[i].next : i \in DOMAIN hops}
    IN  \A j \in 0 .. Slots - 1 :
            header[j].text \in Node /\ header[j].mask \subseteq derived => header[j].text \in found

\* The payload is masked with the secret of the last hop (sphinx.rs:97-101),
\* which no relay before it derives, even when a node is on the route twice.
PayloadOnlyForExit ==
    \A i \in DOMAIN hops : i < L => hops[i].secret # SenderSecret(route, L)

\* "Process a Sphinx packet at a relay node (peel one layer)" (sphinx.rs:114):
\* each relay of the route finds the address of the next one.
EveryHopRoutes == \A i \in DOMAIN hops : i < L => hops[i].next = route[i + 1]
=============================================================================
