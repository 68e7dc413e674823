------------------------------- MODULE Gossip -------------------------------
(***************************************************************************)
(* The gossip of a node: the event loop of src/main.rs at the receiving    *)
(* end, and at the sending end the flood command of src/bin/prims-cli.rs   *)
(* and other peers, through the publish operations of PrimsNode in         *)
(* src/network/node.rs.  libp2p is external: it establishes connections,   *)
(* learns of subscriptions, refuses to publish, loses and reorders         *)
(* messages, and delivers no message twice.                                *)
(*                                                                         *)
(* The node handles one event at a time; a transaction makes it wait for   *)
(* room in the mempool.  flood waits with time limits and retries what     *)
(* libp2p refuses.                                                         *)
(***************************************************************************)
EXTENDS Naturals, Sequences, SequencesExt

CONSTANTS
    MaxCount,     \* largest count passed to flood
    Starts,       \* values of start_nonce
    WordSize,     \* the 2^64 of u64
    MaxNoPeers,   \* 20, attempts while nobody subscribes to the topic
    MaxQueueFull, \* 200, attempts while all queues are full
    PeerMessages, \* messages other peers publish, with MessageKind and Decodes
    MessageKind,  \* the variant of a message, "raw" if it is none
    Decodes,      \* whether the payload of a NewTransaction deserializes
    HasHello,     \* whether PRIMS_PUBLISH_MESSAGE is set
    MaxSubs       \* bound on the subscriptions the node learns of

\* count and the nonces are words.  What other peers publish are other transactions
\* than flood's, which flood signs with a key of its own.
ASSUME GossipAssumption ==
    /\ WordSize \in Nat \ {0}
    /\ MaxCount \in 0 .. (WordSize - 1)
    /\ PeerMessages \cap (0 .. (WordSize - 1)) = {}
    /\ Starts \subseteq 0 .. (WordSize - 1)
    /\ MaxNoPeers \in Nat
    /\ MaxQueueFull \in Nat
    /\ HasHello \in BOOLEAN
    /\ MaxSubs \in Nat

VARIABLES
    flood,        \* [at, count, start, offset, attempts] of the flood command
    subscribed,   \* flood knows a subscriber of prims.transactions
    net,          \* messages published and not yet delivered or lost
    heard,        \* history: messages other peers published, each once
    loop,         \* the message the event loop is adding to the mempool, or <<>>
    mempool,      \* history: transactions the loop added, in order
    message_sent, \* the node has published its own message
    subs,         \* number of subscriptions to prims-testnet it learned of
    published,    \* history: nonces flood published, in order
    hellos        \* history: how often the node's own message was published

floodVars == <<flood, subscribed, published>>
nodeVars == <<loop, mempool, message_sent, subs, hellos>>
gossipVars == <<floodVars, net, heard, nodeVars>>

-----------------------------------------------------------------------------
\* The message of publish_transaction: its payload is the serialized transaction.
NewTransaction(nonce) == [kind |-> "NewTransaction", payload |-> nonce, decodes |-> TRUE]

\* What publish_message of a peer puts on one of the topics the node listens to
PeerMessage(m) ==
    [kind |-> MessageKind[m], payload |-> m, decodes |-> Decodes[m]]

\* start_nonce + offset, wrapping around as in a release build
NonceOf(offset) == (flood.start + offset) % WordSize

FloodAt(label) == flood.at = label

\* flood up to the dial: a count of zero and a missing seed node are errors.
FloodStart(seeds) ==
    /\ FloodAt("start")
    /\ flood' = [flood EXCEPT !.at =
                     IF flood.count = 0 \/ ~seeds THEN "failed" ELSE "connecting"]
    /\ UNCHANGED <<subscribed, published, net, heard, nodeVars>>

\* ConnectionEstablished before the deadline of ten seconds
FloodConnects ==
    /\ FloodAt("connecting")
    /\ flood' = [flood EXCEPT !.at = "waiting"]
    /\ UNCHANGED <<subscribed, published, net, heard, nodeVars>>

\* A time limit passes: no connection is an error, the three seconds for
\* subscriptions and the two seconds of the flush just end.
FloodDeadline ==
    /\ flood.at \in {"connecting", "waiting", "flushing"}
    /\ flood' = [flood EXCEPT !.at = CASE FloodAt("connecting") -> "failed"
                                       [] FloodAt("waiting") -> "publishing"
                                       [] FloodAt("flushing") -> "done"]
    /\ UNCHANGED <<subscribed, published, net, heard, nodeVars>>

\* The swarm of flood learns of a subscription, or loses its subscriber.
SubscriptionChanges ==
    /\ flood.at \in {"waiting", "publishing"}
    /\ subscribed' = ~subscribed
    /\ UNCHANGED <<flood, published, net, heard, nodeVars>>

\* publish_transaction succeeds; the next transaction starts with no attempts.
FloodPublishes ==
    LET next == flood.offset + 1
    IN  /\ FloodAt("publishing")
        /\ subscribed
        /\ net' = net \cup {NewTransaction(NonceOf(flood.offset))}
        /\ published' = Append(published, NonceOf(flood.offset))
        /\ flood' = [flood EXCEPT !.offset = next, !.attempts = 0,
                         !.at = IF next = flood.count THEN "flushing" ELSE "publishing"]
        /\ UNCHANGED <<subscribed, heard, nodeVars>>

\* A refused transaction is tried again, up to a limit that depends on the
\* error; the number of attempts is one for both errors.
Retry(limit) ==
    IF flood.attempts < limit
    THEN flood' = [flood EXCEPT !.attempts = @ + 1]
    ELSE flood' = [flood EXCEPT !.at = "failed"]

\* NoPeersSubscribedToTopic
FloodNoPeers ==
    /\ FloodAt("publishing")
    /\ ~subscribed
    /\ Retry(MaxNoPeers)
    /\ UNCHANGED <<subscribed, published, net, heard, nodeVars>>

\* Mutant: the attempts made without subscribers are forgotten.
FloodQueuesFullForgets ==
    /\ FloodAt("publishing")
    /\ subscribed
    /\ flood' = [flood EXCEPT !.attempts = 0]
    /\ UNCHANGED <<subscribed, published, net, heard, nodeVars>>

\* AllQueuesFull
FloodQueuesFull ==
    /\ FloodAt("publishing")
    /\ subscribed
    /\ Retry(MaxQueueFull)
    /\ UNCHANGED <<subscribed, published, net, heard, nodeVars>>

\* Any other error ends the command, as does the overflow of the nonce in a
\* build that checks for it.
FloodFails ==
    /\ FloodAt("publishing")
    /\ flood' = [flood EXCEPT !.at = "failed"]
    /\ UNCHANGED <<subscribed, published, net, heard, nodeVars>>

-----------------------------------------------------------------------------
\* publish_proposed_block, publish_vote or publish_transaction of another peer
PeerPublishes(m) ==
    /\ m \notin heard
    /\ heard' = heard \cup {m}
    /\ net' = net \cup {PeerMessage(m)}
    /\ UNCHANGED <<floodVars, nodeVars>>

Lose(msg) ==
    /\ msg \in net
    /\ net' = net \ {msg}
    /\ UNCHANGED <<floodVars, heard, nodeVars>>

\* Mutant: the message counts as sent before libp2p has taken it.
PeerSubscribesUnchecked(ok) ==
    LET tries == ~message_sent /\ HasHello
    IN  /\ loop = <<>>
        /\ subs < MaxSubs
        /\ subs' = subs + 1
        /\ message_sent' = (message_sent \/ tries)
        /\ hellos' = IF tries /\ ok THEN hellos + 1 ELSE hellos
        /\ UNCHANGED <<floodVars, net, heard, loop, mempool>>

\* gossipsub::Event::Subscribed for prims-testnet: the node publishes its own
\* message unless it has done so; if libp2p refuses, the next event tries again.
PeerSubscribes(ok) ==
    LET tries == ~message_sent /\ HasHello
    IN  /\ loop = <<>>
        /\ subs < MaxSubs
        /\ subs' = subs + 1
        /\ message_sent' = (message_sent \/ (tries /\ ok))
        /\ hellos' = IF tries /\ ok THEN hellos + 1 ELSE hellos
        /\ UNCHANGED <<floodVars, net, heard, loop, mempool>>

\* gossipsub::Event::Message: a transaction that deserializes is dispatched;
\* anything else, decodable or not, is printed and has no effect.
ReceiveMessage(msg) ==
    /\ loop = <<>>
    /\ msg \in net
    /\ net' = net \ {msg}
    /\ loop' = IF msg.kind = "NewTransaction" /\ msg.decodes THEN <<msg>> ELSE <<>>
    /\ UNCHANGED <<floodVars, heard, mempool, message_sent, subs, hellos>>

\* add_transaction_async(..).await returns; until then no event is handled.
AddReturns ==
    /\ loop # <<>>
    /\ mempool' = Append(mempool, loop[1].payload)
    /\ loop' = <<>>
    /\ UNCHANGED <<floodVars, net, heard, message_sent, subs, hellos>>

-----------------------------------------------------------------------------
\* PrimsNode::new has dialled and subscribed, main has opened its storage.
GossipInit ==
    /\ flood \in [at : {"start"}, count : 0 .. MaxCount, start : Starts,
                  offset : {0}, attempts : {0}]
    /\ subscribed = FALSE
    /\ net = {}
    /\ heard = {}
    /\ loop = <<>>
    /\ mempool = <<>>
    /\ message_sent = FALSE
    /\ subs = 0
    /\ published = <<>>
    /\ hellos = 0

FloodStep ==
    \/ \E seeds \in BOOLEAN : FloodStart(seeds)
    \/ FloodDeadline
    \/ FloodPublishes \/ FloodNoPeers \/ FloodQueuesFull \/ FloodFails

GossipNext ==
    \/ FloodStep \/ FloodConnects \/ SubscriptionChanges
    \/ \E m \in PeerMessages : PeerPublishes(m)
    \/ \E msg \in net : Lose(msg) \/ ReceiveMessage(msg)
    \/ \E ok \in BOOLEAN : PeerSubscribes(ok)
    \/ AddReturns

\* Time passes and a program that can go on does: flood takes its next step (the
\* deadlines are wall-clock times), the mempool answers, which Mempool shows.
GossipSpec ==
    /\ GossipInit
    /\ [][GossipNext]_gossipVars
    /\ WF_gossipVars(FloodStep)
    /\ WF_gossipVars(AddReturns)

-----------------------------------------------------------------------------
\* flood sends what it says and the node queues what was sent.  Retries, lost
\* subscribers and full queues notwithstanding, flood publishes the nonces from
\* start_nonce on one after the other, none twice and none skipped, and ends well
\* only with all of them published.  The node queues transactions that were
\* published and decode, each at most once, and nothing else it hears; its
\* own message goes out at most once and is only counted as sent if it did.
GossipIsExact ==
    LET added == IF loop = <<>> THEN mempool ELSE Append(mempool, loop[1].payload)
    IN  /\ published = [i \in 1 .. flood.offset |-> NonceOf(i - 1)]
        /\ flood.at \in {"flushing", "done"} => Len(published) = flood.count
        /\ \A i \in DOMAIN added :
               /\ IF added[i] \in heard
                  THEN MessageKind[added[i]] = "NewTransaction" /\ Decodes[added[i]]
                  ELSE Contains(published, added[i])
               /\ \A j \in DOMAIN added : added[i] = added[j] => i = j
        /\ hellos = IF message_sent THEN 1 ELSE 0

\* flood always comes to an end, also when subscribers come and go and queues
\* fill up again and again: its limits on attempts hold over both errors.  And
\* the event loop always gets back to its events.
FloodEnds ==
    /\ <>(flood.at \in {"failed", "done"})
    /\ []<>(loop = <<>>)

=============================================================================
