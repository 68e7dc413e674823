---------------------------- MODULE PeerPenalty ----------------------------
(***************************************************************************)
(* Penalties of peers, src/network/connection.rs and PrimsNode of          *)
(* src/network/node.rs: a peer is banned for a while at every              *)
(* max_invalid_messages-th invalid message, and has to wait a while after  *)
(* it disconnected.  Whoever drives the node passes it the time, which     *)
(* does not run backwards, and may or may not drop a peer it banned.       *)
(***************************************************************************)
EXTENDS Naturals

CONSTANTS
    Peers,
    MaxInvalid,     \* max_invalid_messages
    BanSecs,        \* temporary_ban_secs
    ReconnectDelay, \* reconnect_delay_secs
    Never,          \* no time, the None of the Option<u64> fields
    MaxTime,        \* the latest time; u64::MAX in the code
    MaxMessages     \* bound on the invalid messages of a peer

ASSUME PenaltyAssumption ==
    /\ MaxInvalid \in Nat
    /\ BanSecs \in Nat
    /\ ReconnectDelay \in Nat
    /\ MaxTime \in Nat
    /\ MaxMessages \in Nat
    /\ Never \notin Nat

VARIABLES
    now,                  \* now_unix
    invalid_messages,
    banned_until_unix,
    last_disconnect_unix,
    connected,            \* peers with an established connection
    offence,              \* history: when each peer was last banned
    received              \* history: invalid messages of each peer so far

penalties == <<invalid_messages, banned_until_unix, last_disconnect_unix>>
vars == <<now, penalties, connected, offence, received>>

Times == 0 .. MaxTime

\* now_unix.saturating_add(secs)
Later(secs) == IF now + secs <= MaxTime THEN now + secs ELSE MaxTime

IsBanned(p) == banned_until_unix[p] # Never /\ now < banned_until_unix[p]

CanReconnect(p) ==
    \/ last_disconnect_unix[p] = Never
    \/ now - last_disconnect_unix[p] >= ReconnectDelay

\* The answer of can_accept_peer: clearing an expired ban does not change it.
CanAccept(p) == ~IsBanned(p) /\ CanReconnect(p)

\* Mutant: any ban is cleared.
ClearExpiredBanAlways(p) ==
    banned_until_unix' = [banned_until_unix EXCEPT ![p] = Never]

ClearExpiredBan(p) ==
    banned_until_unix' =
        IF banned_until_unix[p] # Never /\ now >= banned_until_unix[p]
        THEN [banned_until_unix EXCEPT ![p] = Never]
        ELSE banned_until_unix

\* can_accept_peer; the caller keeps the connection if it says so.
CanAcceptPeer(p) ==
    /\ p \notin connected
    /\ ClearExpiredBan(p)
    /\ connected' = IF CanAccept(p) THEN connected \cup {p} ELSE connected
    /\ UNCHANGED <<now, invalid_messages, last_disconnect_unix, offence, received>>

\* register_peer_disconnect
RegisterPeerDisconnect(p) ==
    /\ p \in connected
    /\ connected' = connected \ {p}
    /\ last_disconnect_unix' = [last_disconnect_unix EXCEPT ![p] = now]
    /\ UNCHANGED <<now, invalid_messages, banned_until_unix, offence, received>>

\* Mutant: the counter survives the ban.
BanKeepsCount(p) ==
    /\ invalid_messages' = [invalid_messages EXCEPT ![p] = @ + 1]
    /\ banned_until_unix' = [banned_until_unix EXCEPT ![p] = Later(BanSecs)]
    /\ offence' = [offence EXCEPT ![p] = now]

\* The ban branch of register_invalid_message.
Ban(p) ==
    /\ invalid_messages' = [invalid_messages EXCEPT ![p] = 0]
    /\ banned_until_unix' = [banned_until_unix EXCEPT ![p] = Later(BanSecs)]
    /\ offence' = [offence EXCEPT ![p] = now]

RegisterInvalidMessage(p) ==
    /\ p \in connected
    /\ received[p] < MaxMessages
    /\ received' = [received EXCEPT ![p] = @ + 1]
    /\ IF invalid_messages[p] + 1 >= MaxInvalid
       THEN Ban(p)
       ELSE /\ invalid_messages' = [invalid_messages EXCEPT ![p] = @ + 1]
            /\ UNCHANGED <<banned_until_unix, offence>>
    /\ UNCHANGED <<now, last_disconnect_unix, connected>>

Tick ==
    /\ now < MaxTime
    /\ now' = now + 1
    /\ UNCHANGED <<penalties, connected, offence, received>>

Init ==
    /\ now = 0
    /\ invalid_messages = [p \in Peers |-> 0]
    /\ banned_until_unix = [p \in Peers |-> Never]
    /\ last_disconnect_unix = [p \in Peers |-> Never]
    /\ connected = {}
    /\ offence = [p \in Peers |-> Never]
    /\ received = [p \in Peers |-> 0]

Next ==
    \/ \E p \in Peers :
           CanAcceptPeer(p) \/ RegisterPeerDisconnect(p) \/ RegisterInvalidMessage(p)
    \/ Tick

Spec == Init /\ [][Next]_vars

-----------------------------------------------------------------------------
TypeOK ==
    /\ now \in Times
    /\ invalid_messages \in [Peers -> 0 .. MaxInvalid]
    /\ banned_until_unix \in [Peers -> Times \cup {Never}]
    /\ last_disconnect_unix \in [Peers -> Times \cup {Never}]
    /\ connected \subseteq Peers
    /\ offence \in [Peers -> Times \cup {Never}]
    /\ received \in [Peers -> 0 .. MaxMessages]

BanIsServed ==
    \A p \in Peers :
        offence[p] # Never /\ now < offence[p] + BanSecs /\ now < MaxTime
            => ~CanAccept(p)

PenaltyExpires ==
    \A p \in Peers :
        /\ offence[p] = Never \/ now >= offence[p] + BanSecs
        /\ last_disconnect_unix[p] = Never
               \/ now >= last_disconnect_unix[p] + ReconnectDelay
        => CanAccept(p)

\* A ban is served in full and no longer.  However often a peer is asked about,
\* disconnects or offends again, it is not acceptable before temporary_ban_secs
\* have passed since its last banning offence (as far as the clock reaches); and
\* it is acceptable once they have, and reconnect_delay_secs since it disconnected.
BansAreExact == BanIsServed /\ PenaltyExpires

\* No invalid message is forgotten over bans and reconnections: a peer is banned
\* by now exactly if max_invalid_messages (or one, if that is 0) have arrived,
\* and the u32 counter never passes that limit.
OffencesAreCounted ==
    \A p \in Peers :
        LET limit == IF MaxInvalid = 0 THEN 1 ELSE MaxInvalid
        IN  /\ invalid_messages[p] = received[p] % limit
            /\ offence[p] # Never <=> received[p] >= limit

=============================================================================
