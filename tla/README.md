# A verification project for the Veil Protocol library

TLA+ models of the protocol logic of Veil Protocol (`core/src`, `circuits/src`), the TLC
configurations that check them, and theorems about them that the TLA+ proof
system (TLAPS) has proved. The library is single-threaded Rust without
networking: what makes it hard is that its operations are called by parties
that the library does not contain (gossiping nodes, a background prover, a
first-hop verifier, emission timers, a lossy mix network), in orders that its
unit tests do not try. The models put each component between such parties.

## 1. The system

| Component | Source | State | Operations |
|---|---|---|---|
| Penalty log | `penalty_log.rs` | ids per node, event per id | `insert`, `merge`, `get_penalties`, `penalty_factor` |
| Gossip | `simulation/crdt_convergence.py` | who knows which penalty | clone a log, ship it, merge it |
| Reputation | `reputation.rs` | relays seen per node, per observer | `record_verified_relay`, `compute_reputation`, `is_reputable` |
| Credits | `credit.rs` | receipts, cached proof, consumed; the pipeline of them | `add_witness`, `add_relay_witness`, `set_compressed_proof`, `consume`, queries |
| Nullifiers | `nullifier.rs` | used nullifiers per epoch, per verifier | `compute_nullifier`, `derive_nonce`, `check_and_insert`, `clear_epoch` |
| Cover traffic | `cover_traffic.rs` | the pending real shares | `queue_real_share`, `next_emission`, `acknowledge_emission` |
| Secret sharing | `shamir.rs` | none | `split`, `reconstruct` |
| Sphinx | `sphinx.rs` | none | `construct_packet`, `process_at_relay`, `packet_hash` |
| Poseidon | `poseidon.rs`, `poseidon_gadget.rs` | the lanes of a hash under way | the rounds of the native hash and of the gadget |
| Merkle tree | `merkle_gadget.rs` | the layers of a tree, a proof, a climb | `build_merkle_tree`, `get_merkle_proof`, `verify_membership` |
| Relay circuit | `relay_step.rs`, `ecdh_gadget.rs` | public inputs and witnesses | `generate_constraints` |
| Simulations | `simulation/*.py` | none | gossip convergence, a Monte-Carlo estimate of an adversary's share |

How they interact. A penalty log is cloned, sent and merged at other nodes; each
node multiplies the penalty factor of its log with the growth it has counted
itself, and its reputable set is what the relay circuit's Merkle root stands
for. A relay that forwards a packet gets a receipt; `N_CREDIT` receipts of
different issuers fill an accumulator, a background job compresses them into a
proof bound to a verifier and an epoch, `consume` attaches the proof to a
message, and the verifier stores its nullifier. A message to be sent is split
into shares, which wait in the cover traffic scheduler, leave one by one in
place of cover packets, travel in Sphinx packets, and are combined again at the
receiver.

What is hard, and what makes each part correct:

* **Penalty log and gossip.** Two maps updated separately; snapshots that are
  stale, repeated, reordered or lost; nodes that withhold. Correct when the two
  maps agree, when replicas that know the same events hold the same log, when
  merge is a semilattice operation on *reachable* logs, when no exchange of
  severities in [0, 1] raises a factor, and when everything known reaches every
  honest node.
* **Reputation.** A verdict drawn from shared penalties and private growth.
  Correct when only an observer's own observation lifts a node, only a new
  penalty of that node lowers it, and a grave penalty ends its standing
  everywhere for good, while the severities known of the node are in [0, 1].
* **Credits and nullifiers.** A second proof started while the first is in the
  making, a late proof on a consumed accumulator, repeated and delayed messages,
  stores that are cleared. Correct when each credit is spent once, at one
  verifier, and accepted at most once by all verifiers together.
* **Cover traffic, sharing and delivery.** An index handed out, used after the
  list changed; shares lost, repeated and reordered. Correct when each share leaves exactly
  once, fewer than `T` shares fit every message, any `T` different ones give it
  back without a division by zero, and `T` of them arrive.
* **Sphinx.** A sender and the relays of a route, who never meet, must derive
  the same secrets and peel what the sender layered. Correct when each relay finds
  the next hop, relays read no other address, and no relay before the exit can
  unmask the payload.
* **The circuit.** Three functions walk the Merkle tree, two implementations hash, and
  a relay may keep proofs and receipts from an earlier epoch. Correct when the gadget
  accepts the ways through the tree of its root and nothing else, when an honest relay
  is never refused in the epoch of its receipt, when a proof of another tree or a
  receipt of another epoch is, and when native hash and gadget compute the same function.

## 2. The modules

| Module | Models | State and actions |
|---|---|---|
| `PenaltyLog` | `penalty_log.rs` | a log is a record of the struct's two maps; `Insert`, `Merge`, `PenaltyFactor` ... are its methods |
| `PenaltySet` | the promise "Merge = set union of penalty events" | grow-only sets, one per replica |
| `PenaltyGossip` | replicas that gossip | `log`, `inflight`; `Observe`, `Gossip`, `Deliver`, `Drop` |
| `PartitionedGossip` | `PenaltyGossip` over a network whose groups change | adds `partition_groups`; `GroupGossip`, `Regroup` |
| `Reputation` | `reputation.rs` over `PenaltyGossip` | adds `local_relay_counts` and `RecordVerifiedRelay` |
| `Credit` | `credit.rs` | an accumulator is a record, a manager the sequence `pipeline \o <<current>>` |
| `Nullifier` | `nullifier.rs` | a store maps epochs to sets of nullifiers |
| `OneTimeCredit` | what a credit promises | earned, then spent at one verifier, then redeemed at most once |
| `CreditSpending` | sender, prover, network, verifiers | `manager`, `jobs`, `sent`, `now`, `used`; one action per call |
| `CoverTraffic` | `cover_traffic.rs` and its caller | `pending_real_shares`, and a timer per emission under way |
| `Shamir` | `shamir.rs` over the field of `P` elements | operators only |
| `ShareDelivery` | `Shamir` and `CoverTraffic` over a network | adds `polys`, `network`, `received`; `Queue`, `TimerStep`, `Arrive`, `Repeat`, `Lose` |
| `Sphinx` | `sphinx.rs`: the header of a packet along its route | `header`, `holder`; `Init` is `construct_packet`, `ProcessAtRelay` the relay |
| `Merkle` | `merkle_gadget.rs` | `layers`, `proof`, and the gadget's `witness`, `current`, `level`; one action per turn of each loop |
| `RelayStep` | `relay_step.rs` over `Merkle` | adds `epoch`, `receipt`, `header`, `receipt_value`; `Issue`, `ProveStep`, `AssignAny`, `NextEpoch` |
| `Poseidon`, `PoseidonGadget` | `poseidon.rs`, `poseidon_gadget.rs` | the lanes and the offset into the constants of each; a step is one round of both |
| `MC*` | instances for TLC | values of the constants |
| `*Proofs` | theorems, one module per component; those on the penalty log and its gossip are in `ReputationProofs`, those on the scheduler in `ShareDeliveryProofs` | |
| `FieldPolynomials` | nothing of the program: facts about numbers, residues and polynomials that `PoseidonProofs` and `ShamirProofs` share | |

`Reputation` and `PartitionedGossip` extend `PenaltyGossip`, which extends `PenaltyLog`;
`CreditSpending` extends `Credit` and `Nullifier`; `ShareDelivery` extends
`CoverTraffic` and `Shamir`; `RelayStep` extends `Merkle`, and `PoseidonGadget`
`Poseidon`. `PenaltyGossip` implements `PenaltySet`, and
`CreditSpending` implements `OneTimeCredit`, each through a refinement mapping
stated in the detailed module.

Abstractions that several modules share:

* A hash is injective: the tuple of its inputs. A collision is not a behaviour.
  The exception is `Poseidon`, where the field and the rounds are modelled. In
  `Merkle`, no hash is a key or the zero of the padding (`HashAssumption`).
  In `Sphinx`, a Diffie-Hellman point is the pair of the key and the node, and a
  32-byte slot of the header is what was written into it and the set of the
  secrets whose keystream is XORed to it. A key read from masked bytes is the
  default point, as the code has it for bytes that do not parse, or an
  arbitrary point.
* Severities, growth and factors are integers in units of `1/Scale`, products
  are exact (`Product`). A severity may be any integer, negative or above `Scale`,
  as the `f64` is checked nowhere; infinities and NaN are not modelled. The `f64` product of the code depends in its last bits on the
  iteration order of a hash set, which the models miss.
* What the code leaves to its caller is an environment action that may happen
  whenever the comments in the source allow it: a proof is started when
  `is_ready_to_compress` says so, a verifier looks at proofs bound to it and of
  a valid epoch (`nullifier.rs:11-14`, `CREDIT_VALIDITY_WINDOWS`), a store is
  cleared when its epoch has expired (`nullifier.rs:43-44`). `add_witness`,
  `set_compressed_proof` and `consume` are called on the accumulators of the
  manager; its fields are private and it offers no way to them
  (`credit.rs:119-161`), so here the model allows more than the code does as yet.
* The network repeats a message (`CreditSpending`), a snapshot (`PenaltyGossip`) and
  a share (`ShareDelivery`). The receiver keeps what comes: `reconstruct` looks for no
  repeated index, and panics if one is among the first `T` shares.
* A circuit's witnesses are what its prover assigns. `ProveStep` assigns the receipt
  and the proof that the relay holds; `AssignAny` every assignment of nodes of the
  current tree and keys to leaf, path and sides. (`proof.tree`, the layers a proof was
  drawn from, is read by properties only.)
* `queued`, `emitted` and `redeemed` are history variables: no guard of the
  code reads them. (`queued` also makes the environment hand a share over once.)
* Operators whose comment starts with "Mutant" are plausible errors of the code
  and used nowhere in the specifications: replacing the operator they follow by
  them makes TLC find a violation of the property they are meant for, so no
  checked property is vacuous.

## 3. The runs

| Run | Question | Instance | Distinct states |
|---|---|---|---|
| `PartitionedGossip_gossip` | Do replicas with stale, repeated and lost snapshots stay coherent, agree and implement sets, and does what one honest replica knows reach all, though the network is never whole? | ring of 3 and a withholding node, groups that cut one honest node off in turn, 2 events, 2 snapshots in flight | 7,456 |
| `PenaltyGossip_conflict` | Does merge commute when two observers rate one id differently? **No** | 2 replicas, 1 id with 2 severities | |
| `Reputation_observers` | What raises and lowers a node's standing, and is a grave penalty beyond repair? | 2 observers; a grave penalty of one node, a light and a negative one of another; growth 0, R_MIN, 2 R_MIN | 40,176 |
| `CreditSpending_life` | Is each credit spent and accepted once? | 2 credits of 2 receipts, 3 issuers, 2 verifiers, 2 concurrent proofs, 3 epochs, proofs good for 2 | 652,608 |
| `CreditSpending_nonce` | Does one set of receipts always give one nullifier? **No** | 2 credits of 2 receipts, 2 issuers | |
| `ShareDelivery_path` | Does a message get through, and only with enough shares? | K = 4, T = 3 over the field of 5, 3 values of each coefficient, one share lost, one repeated, one timer | 73,989 |
| `RelayStep_relay` | Which relay steps satisfy the circuit? | trees of 4 places over lists of 2, 4 and 5 of 5 nodes, two of them different at one place only, 3 headers, 3 epochs | 873,144 |
| `RelayStep_epoch` | Does a receipt serve in its own epoch only? **No** | the same | |
| `PoseidonGadget_poseidon` | Do native hash and gadget agree, and does a round collide? | field of 13, 4 full and 3 partial rounds, all inputs | 247,416 |
| `Sphinx_header` | Does the first relay agree with the sender, and who can read what? | 3 hops over 4 nodes, repeated ones included, 5 slots | 256 |
| `Sphinx_route` | Does every relay find the next hop? **No** | the same | |
| `CoverTraffic_overlap` | Does an acknowledgement remove only what was emitted, when two emissions overlap? **No** | 2 shares, 2 timers | |

Why the bounds are enough to meet the interesting cases. Two snapshots in flight
are one that overtakes another; three honest replicas give indirect paths around the
fourth. The events of `Reputation_observers` are two of one node, which exercise the
id set of an existing entry, and one of another; of the two one has a negative
severity, so the hypothesis of the properties (`InRange`) holds at one node always and
at the other until that event is known. Two concurrent proofs of one credit are a second job and a late one, three
epochs with validity two let a proof expire and its store be cleared while a
copy of the message is still around. Four shares of which one is lost leave
exactly `T`, in every order of arrival; the field of 5 is the smallest that
holds four indices other than 0. The bounds themselves are constants of the
modules: `MaxInFlight`, `MaxRelays`, `MaxEpoch`, `MaxCredits`, `MaxJobs`,
`MaxLost`, `MaxRepeated`, `Coefficient`. The last one bounds the coefficients that
`split` draws: `FewSharesRevealNothing` still counts over all polynomials. Four nodes
are enough for every pattern of repetition on a route of three hops (`L` in
`config.rs`) and one that is not on it; a header has 12 slots, of which those from
`L` on are alike, so two of these suffice. A tree of four places has left and right
nodes on two levels; lists shorter than it are padded, the one of five is cut off, and
trees share leaves at the same place; two lists differ at one place only, where the
proof kept from one tree is a way through the other. Three epochs let a reputable set come back after
another one, with its old proofs. In the field of 13 elements fifth powers are a
permutation, as in the code's field, and the entries of the matrix have inverses; all
inputs of every allowed length are tried. Deadlock is checked in every run but those
of `Sphinx` and `PoseidonGadget`: none of the other systems may stop (an empty timer, a refused
receipt or a replaced event is a step), while a packet stops when its next address
cannot be read, and a hash ends with its last round.

### What the five violations show

* **conflict.** `merge` decides by the id alone (`penalty_log.rs:38`), so of two
  events under one id each replica keeps the one that came first. The doc's
  "Commutative" (`penalty_log.rs:11`) holds exactly when ids determine events
  (`UniqueIds`), which nothing in the code computes or checks.
* **nonce.** `derive_nonce` depends on the order of the receipts, and receipts of a
  full accumulator are accepted again by the next one, so one credit set gives
  two nullifiers, against `nullifier.rs:33`. `NoDoubleSpend` counts credits, that
  is accumulators; it does not say that receipts are used once.
* **overlap.** `next_emission` reserves nothing (`cover_traffic.rs:77`), so its index
  is stale when another emission was acknowledged in between, and
  `acknowledge_emission` removes a share that was not emitted (84-88). Callers
  must acknowledge before they sample again; no comment says so.
* **route.** A relay returns as `next_header` the header after its own keystream, with
  the ephemeral key garbled (`sphinx.rs:129-142`), and all relays read bytes 32 to 64
  while the sender wrote the addresses one behind the other (87-89, 138). So "peel
  one layer" (114) works once: the first relay finds the second hop, the second
  finds nothing. No test of the repository calls `process_at_relay`.

* **epoch.** The comment at `relay_step.rs:114` lists the epoch among the inputs of the
  receipt's hash, the constraint (115-118) leaves it out: a receipt of an earlier epoch
  satisfies the circuit as long as its issuer's proof fits. `HonestStepSatisfies` asks
  for receipts of the same epoch only and would also hold of the circuit in the comment.

More disagreements are visible in the models and have no run of their own.

* A severity is an `f64` that neither `insert` nor `merge` checks (`types.rs:32`,
  `penalty_log.rs:27-46`). A negative one raises the factor, and so do two above 1, against
  "penalties can only decrease reputation" (`penalty_log.rs:14`); merged from any node
  that gossips, it can bring back a node with a grave penalty, without a relay. The
  properties on factors and standing therefore carry the hypothesis `InRange`, that the
  severities that the replica knows of *this* node are in [0, 1], and
  `Reputation_observers` has a negative one that breaks them without it.
  `OnlyNewPenaltyLowers` needs no such hypothesis.
* A place that the resize filled up is a leaf like any other: the circuit is satisfied
  with `Zero` as the issuer, if there are fewer nodes than places. The comment says
  "Verify receipt issuer is in the reputable set" (`relay_step.rs:121`), `SECURITY.md:34`
  that credits cannot be earned outside it. `AcceptsExactlyPaths` counts these ways
  among those of the tree.
* `packet_hash` (`sphinx.rs:163`, "for receipt generation") hashes the first block of the
  header and of the payload, the circuit header blocks 0 and 1, so a receipt made with
  it satisfies no circuit. With the circuit's hash, packets that differ in later blocks
  or in the payload share their receipt; the instance has two such packets.
* A share that arrives twice among the first `T` makes `reconstruct` panic
  (`shamir.rs:100`), where replay is in scope (`SECURITY.md:17`). `ThresholdSuffices`
  excludes it by `Repeated`; `EmittedOnce` says that the sender is never the cause.
* The doc of the circuit lists `verifier_pk` as a public input (`relay_step.rs:30`),
  which the struct does not have.

## 4. Fairness

* `PartitionedGossip`: a peer that is a candidate again and again is drawn again and
  again (`FairDraw`), and strong fairness of a delivery from `r` to `q`, for honest
  peers. The simulation has every informed node gossip in every round and draw its
  targets uniformly from the candidates (`crdt_convergence.py:43-70`); that a link does
  not lose every snapshot is the strong fairness. Strong fairness of `GroupGossip` would
  not do: the bound on the snapshots in flight could disable it whenever the link is
  whole. How the groups change is not fair at all; `Converges` assumes instead
  that no link stays broken for ever, and is void if one does. Observations are not fair.
* `PenaltyGossip` as `Reputation` uses it: strong fairness of `Gossip(r, q)` and of the
  delivery, on the same grounds, in a network without groups.
* `Reputation`: that of `PenaltyGossip`, and nothing of relays or observations: `MisbehaverExcluded`
  holds also if nobody ever relays again.
* `ShareDelivery`: weak fairness of queueing the rest of a message, of each timer
  and of the arrival of some share that is under way. The Poisson process of `next_emission` never pauses, and
  the network delivers what it does not lose. `EveryShareLeaves` needs queueing to
  end, which `K` gives: the last share queued leaves first, so under queueing
  without end the first share can wait for ever.

## 5. What is proved

All theorems hold for every value of the constants under the named assumptions of
the modules. Those of `ReputationProofs` but the typings assume `UniqueIds`;
`SharesNotDropped` and `SharesEmittedOnce`, about one emission at a time, assume
`Timer = {t1}`. The violations above show that neither hypothesis can be dropped.
No theorem assumes anything of the severities: where a property needs them in [0, 1], it
says so itself, of one node at one replica. `StaleRefused` assumes
`Depth > 1`; the code's depth is 14, and with one level the property is false, since a
leaf that the resize cut off has the path of a first leaf. `NoCollision` and
`PoseidonTyped` use `PoseidonAssumption`: the modulus is a prime above 9 and 5 does not
divide `P - 1`, as for the field of BN254. The theorems on secret sharing use `FieldAssumption`,
that every element but 0 has an inverse (the scalar field of BN254 is a prime field;
nothing else is assumed of `P`), and `ShamirAssumption`: `1 <= T <= K < P`, and a chunk of
bytes is a number below `P`, as 31 bytes are below the 254-bit modulus.

| Theorem | States |
|---|---|
| `GossipTyped`, `CreditTyped`, `CoverTyped`, `DeliveryTyped`, `RelayTyped`, `PoseidonTyped`, `HeaderTyped` | the type invariant of each specification |
| `IndexCoherence`, `Agreement`, `Semilattice` | `IndexCoherent`, `SameEventsSameLog`, `MergeAlgebra` |
| `Refinement` | `PenaltyGossip` implements `PenaltySet` |
| `FactorExact`, `InflationResistance` | `FactorOfKnownEvents`, `InflationResistant` |
| `OwnWitnessOnly`, `NewPenaltyOnly` | the step properties `OnlyOwnWitnessRaises`, `OnlyNewPenaltyLowers` |
| `GraveDecides` | `GraveOutweighsGrowth` |
| `IssuersDistinct`, `ReceiptsSettled`, `ReadyNotSpent` | `DistinctIssuers`, `ProofCoversReceipts`, `ReadyIsUnspent` |
| `OneTimeUse` | `NoDoubleSpend` |
| `CreditRefinement` | `CreditSpending` implements `OneTimeCredit` |
| `SharesNotDropped`, `SharesEmittedOnce` | `NoShareDropped`, `EmittedOnce` |
| `DeliveryImplementsCover` | every behaviour of `ShareDelivery` is one of `CoverTraffic` |
| `InterpolationIs`, `SameWays`, `MessageRoundTrip` | what `lagrange_interpolate_at_zero`, `generate_polynomial` and the conversion of bytes compute, for all inputs |
| `SharesRevealNothing`, `DeliveryReconstructs` | `FewSharesRevealNothing`, `ThresholdSuffices` |
| `MembershipExact` | `AcceptsExactlyPaths` |
| `HonestSatisfies`, `StaleRefused` | `HonestStepSatisfies`, `StaleProofRefused` |
| `GadgetIsNative`, `NoCollision` | `HashesAgree`, `NoRoundCollides` |
| `FirstHopAgrees`, `PayloadMasked`, `AddressesHidden` | `FirstHopPeels`, `PayloadOnlyForExit`, `PathHidden` |

The arguments.

* *Gossip.* A coherent log is determined by its set of events
  (`EventsDetermineLog`), and on coherent logs insert and merge are addition and
  union (`InsertAdds`, `MergeIsUnion`): the algebra, agreement and the
  refinement are then those of sets. The inductive invariant `GossipInv` is type
  correctness, coherence of every log *and every snapshot* (a merge is as good
  as what it merges), and `SnapshotsKnown`: a snapshot has no event that its
  sender lacks, which the refinement needs to show that nobody learns an event
  out of nothing.
* *Factors and reputation.* A factor is a fold over a set, in an order the fold
  chooses. `TableUnique` and `TableExists` give the table of partial products that the
  fold computes, and `ProductInAnyOrder` says that it may be taken apart at any
  element; from that follow the bounds and the monotonicity of products
  (`ProductTyped`, `ProductMonotone`) and that another penalty can only shrink a factor
  (`FactorShrinks`) where all severities are in range. The library's induction over sets cannot be instantiated, so each
  induction is by minimal counterexample: strict inclusion on the subsets of a finite
  set is well founded (`SubsetInduction`). With `GossipInv`, logs only grow
  (`LogsGrow`), and the step properties compare a step's factor, growth and verdict
  before and after.
* *Credits.* The receipts of an accumulator are settled once it is full, so every
  proof of it covers them (`ReceiptsSettled`, inductive with the types).
  `NoDoubleSpend` is not inductive: `SpendInv` adds that a credit is sent in one
  message, from a consumed accumulator (`SentOnce`), and that the verifier of an
  accepted credit either still stores its nullifier or the epoch has expired
  (`Remembered`), since a store is cleared only then and time does not go back.
  `ReadyNotSpent` counts: the accumulators of the messages sent are different
  (`SentOnce`), full and consumed, hence not among those that `ready_credits` counts.
* *Emission.* `OneTimerInv` says that the index the timer holds still names its
  share, and that a queued share is pending and not emitted, or emitted and not yet
  acknowledged, or emitted and gone. With two timers the first part fails, which
  is the violation found by TLC.
* *Delivery.* Each step maps to a step or a stutter of `CoverTraffic`, so its
  invariants carry over.
* *Secret sharing.* The code reduces modulo `P` at every step. `EvaluateIs`, `SumModIs`
  and `ProductModIs` say that the results are congruent to the value of a polynomial, a
  sum and a product over the integers, about which `FieldPolynomials` has the facts; the
  folds are taken turn by turn, and each induction is by the least counterexample.
  For fewer than `T` indices there is a polynomial with `T` coefficients that vanishes at
  them and is 1 at 0 (`VanishingPolynomial`). A multiple of it, added, turns the
  polynomials that fit the shares with one constant term into those that fit with
  another, one to one (`FittingInjects`): hence `SameWays`, and `SharesRevealNothing`
  whatever the timers do. For `T` different indices `BasisExists` gives the polynomials
  that are 1 at one index and 0 at the others. Their sum, weighted with the values, agrees
  with the polynomial sought at `T` places and so has its coefficients (`FewRoots`); at 0
  it is what the code computes (`InterpolationIs`). The bytes come back
  because the number they make is below `P` and its digits determine it
  (`BytesRoundTrip`, `ChunksHold`). Of the delivery, `DeliveryReconstructs` needs that the
  values received are those of the polynomials that split drew (`DeliveryTyped`); that the
  first `T` indices differ is its hypothesis.
* *Sphinx.* Secrets of different hops differ, even at one node, because the keys are
  blinded a different number of times (`SecretsDiffer`). `RouteInv` lists what a
  packet can be: as the sender made it, as the first relay left it, or stopped at
  the second relay, which derived a secret that the sender never used. The properties
  are read off these three cases with the lemma on the slots (`HeaderSlots`).
  `PathHidden` and `PayloadOnlyForExit` therefore speak of the packets this code
  produces; for a header that every hop could peel the invariant would have to be
  redone.
* *Membership.* `MerkleInv` follows the gadget upwards: the running hash is that of
  node `q` of its level exactly if the levels so far describe a climb that ends at `q`
  (`ClimbOK`). The step is `ReachesParent`: a node is the hash of the two below it, a
  hash determines its inputs, and of the two the side in `indices` names the one the
  climb comes from. At the top there is one node. Since the invariant grows with
  `level`, nothing is assumed of the depth, and the induction is that of the steps.
* *The relay's own proof.* `DrawnOK` says that path and sides of a proof are the
  siblings of the climb from its index in its own tree. Two climbs with the same sides
  and siblings stay in step from bottom to top (`Upwards`, `Downwards`, inductions over
  levels by minimal counterexample). So a proof passes exactly if the other leaves are the
  same and its own place holds the receipt's issuer (`Fits`): a path pins down every
  leaf but its own, which it does not contain (`LeavesGiveSides`, `SidesGiveLeaves`).
  A proof drawn for a node that has left the set therefore still serves whoever took its
  place, and is refused after any other change.
* *Poseidon.* The operators of the two implementations are equal for equal arguments
  (`SameRound`), so states that start equal stay so: this needs no arithmetic.
  `NoCollision` shows that a round can be undone, from `P` being a prime and 5 not
  dividing `P - 1`. Euclid's lemma (`NoZeroDivisors`) makes multiplication by a unit a
  permutation of the units, which gives the inverses that the matrix consists of. Its rows,
  freed of their denominators, have the determinant 2 (`Determinant`). Had one a second
  fifth root, multiplying by it would divide the `P - 1` units into cycles of five
  (`FiveCycles`, by the smallest set of units for which it does not), so the S-box is
  one-to-one.

## 6. What is only model-checked

`Converges`, `MisbehaverExcluded`, `EveryShareLeaves` and `MessageArrives` are
liveness properties, outside the prover; of `MisbehaverExcluded` the theorem
`GraveDecides` proves the safe half, and of `MessageArrives` `DeliveryReconstructs` what
it is good for. Every other property of a passing run is stated by a theorem.

The steps of `PartitionedGossip` are those of `PenaltyGossip`, under a condition, and
`Regroup`, which drops snapshots and leaves the logs alone; the theorems are about
`PenaltyGossip`, and the run checks the same properties in the network with groups.

## 7. What is not modelled, and the plan

Not modelled: the curve and its scalar multiplication (`ecdh_gadget.rs`), the components
of the circuit whose results constrain nothing, the compression of proofs (no code),
the Monte-Carlo estimate (probabilities), delays and the choice among the three Poisson
processes (random numbers that no operation reads back; note that `next_emission`
documents milliseconds, line 49, and returns seconds, line 97), `f64` rounding,
`packet_hash` (no caller), shares of different lengths, and parameters that no code uses
(vouching, mailboxes).

Next: the theorems on the logs for the network with groups too, for which `GossipInv` only
has to survive `Regroup`; shares of different lengths, of which `reconstruct` takes the first
one's.
