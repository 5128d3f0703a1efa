--------------------------- MODULE ShareDelivery ---------------------------
(***************************************************************************)
(* The way of a message: it is split (shamir.rs), its shares wait in the   *)
(* cover traffic scheduler (cover_traffic.rs) and leave one by one, the    *)
(* network loses, reorders and repeats them, and the receiver, who keeps   *)
(* what comes, reconstructs.  There is no network in the library.          *)
(***************************************************************************)
EXTENDS CoverTraffic, Shamir

CONSTANTS
    Message,      \* the messages that may be sent
    MaxLost,      \* bound on the shares the network loses
    MaxRepeated,  \* bound on the copies that arrive again
    Coefficient   \* bound on the coefficients drawn: all of Field in the program

ASSUME DeliveryAssumption ==
    /\ Share = 1 .. K /\ Message \subseteq Seq(0 .. Base - 1)
    /\ {MaxLost, MaxRepeated} \subseteq Nat /\ Coefficient \subseteq Field

VARIABLES
    message,    \* the message on its way
    polys,      \* the polynomials that split drew for it
    network,    \* indices of the shares under way
    received    \* the receiver's shares, as they came

vars == <<pending_real_shares, timer, queued, emitted, message, polys, network, received>>

Got == {received[i].index : i \in DOMAIN received}

Lost == {s \in Share : emitted[s] > 0} \ (network \cup Got)

Init ==
    /\ CoverInit
    /\ message \in Message
    /\ polys \in {ps \in Splits(message) :
                    \A c \in DOMAIN ps : \A i \in 2 .. T : ps[c][i] \in Coefficient}
    /\ network = {}
    /\ received = <<>>

\* The shares are queued from the first to the last.
Queue(s) ==
    /\ queued = 1 .. s - 1 /\ QueueRealShare(s)
    /\ UNCHANGED <<message, polys, network, received>>

TimerStep(t) ==
    /\ NextEmission(t) \/ EmitCover(t) \/ EmitShare(t) \/ AcknowledgeEmission(t)
    /\ network' = network \cup {s \in Share : emitted'[s] > emitted[s]}
    /\ UNCHANGED <<message, polys, received>>

Arrive(s) ==
    /\ network' = network \ {s}
    /\ received' = Append(received, ShareOf(polys, s))
    /\ UNCHANGED <<coverVars, message, polys>>

\* A share that arrived before arrives again: it is replayed.  Nothing looks
\* for one that is there already.
Repeat(s) ==
    /\ Len(received) < Cardinality(Got) + MaxRepeated
    /\ received' = Append(received, ShareOf(polys, s))
    /\ UNCHANGED <<coverVars, message, polys, network>>

Lose(s) ==
    /\ Cardinality(Lost) < MaxLost
    /\ network' = network \ {s}
    /\ UNCHANGED <<coverVars, message, polys, received>>

Next ==
    \/ \E s \in Share : Queue(s)
    \/ \E t \in Timer : TimerStep(t)
    \/ \E s \in network : Arrive(s) \/ Lose(s)
    \/ \E s \in Got : Repeat(s)

Spec == Init /\ [][Next]_vars

\* Queueing goes on to the last share, every timer goes on, and what the
\* network does not lose it delivers.
FairSpec ==
    /\ Spec
    /\ WF_vars(\E s \in Share : Queue(s))
    /\ \A t \in Timer : WF_vars(TimerStep(t))
    /\ WF_vars(\E s \in network : Arrive(s))

-----------------------------------------------------------------------------
TypeOK ==
    /\ CoverTypeOK
    /\ message \in Message /\ polys \in Splits(message)
    /\ network \subseteq Share
    /\ received \in Seq({ShareOf(polys, s) : s \in Share})

\* reconstruct takes the first T shares as they came, repeated ones included.
Repeated == \E i, j \in 1 .. T : i # j /\ received[i].index = received[j].index

\* "K=5 shares, T=3 threshold" (shamir.rs:9): whichever T shares arrive first
\* and in whatever order, as long as no share is among them twice, reconstruct
\* does not panic and gives the message, with the zero bytes that fill its
\* last chunk.
ThresholdSuffices ==
    ~Insufficient(received) /\ ~Repeated =>
        LET out == Reconstruct(received)
        IN  /\ ~Panics(received)
            /\ Len(out) = Chunks(message) * ChunkSize
            /\ SubSeq(out, 1, Len(message)) = message
            /\ \A i \in Len(message) + 1 .. Len(out) : out[i] = 0

\* "<T shares reveal nothing" (shamir.rs:9): the fewer than T shares that have
\* left the sender fit every value of a chunk by as many polynomials as the
\* true one.
FewSharesRevealNothing ==
    LET out == {s \in Share : emitted[s] > 0}
        Fits(p, c) == \A s \in out :
                          EvaluatePolynomial(p, s) = EvaluatePolynomial(polys[c], s)
        ways(e, c) == Cardinality({p \in Polynomials(e) : Fits(p, c)})
    IN  Cardinality(out) < T =>
            \A c \in DOMAIN polys :
                LET true == ways(polys[c][1], c) IN \A e \in Field : ways(e, c) = true

\* When at most K - T shares are lost, the receiver gets T different ones,
\* however many of them arrive again.
MessageArrives == <>(Cardinality(Got) >= T)
=============================================================================
