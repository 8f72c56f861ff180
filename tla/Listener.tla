------------------------------ MODULE Listener ------------------------------
(***************************************************************************)
(* The sosistab server-side listener actor (ListenerActor::run in          *)
(* src/lib/sosistab/src/listener.rs) with the state it owns and the tasks  *)
(* it talks to:                                                            *)
(*   - the session table (by_token / by_addr, modelled from the spec:      *)
(*     listener/table.rs is not part of the sources),                      *)
(*   - the sessions it accepts, their drop hooks (the reap channel         *)
(*     recv_dead) and their output pollers,                                *)
(*   - the process-wide recent-packet filter (modelled from the spec),     *)
(*   - the per-address fallthrough rate limiter (governor, 5 per minute),  *)
(*   - the clients and attackers that put datagrams on the backhaul.       *)
(*                                                                         *)
(* Data is abstracted: a datagram is a buffer (an identity standing for    *)
(* its bytes, and the frame it decrypts to under the cookie keys) and the  *)
(* source address it arrived from.  A buffer that does not decrypt under   *)
(* any cookie key (session data, noise) has frame kind "Data".  Resume     *)
(* tokens are model values; a token decrypts under token_key iff this      *)
(* listener issued it.                                                     *)
(***************************************************************************)
EXTENDS Naturals, Sequences, FiniteSets, Functions

CONSTANTS
    Addrs,            \* remote socket addresses (clients, NATs, attackers)
    Tokens,           \* resume tokens this listener can issue
    Shards,           \* shard ids a ClientResume may carry (u8 in the code)
    HelloVersions,    \* versions clients put into ClientHello
    Forged,           \* a resume token not encrypted under token_key
    NoToken,          \* "no token": an unbound address
    NoAddr,           \* "no address": an unbound shard
    MaxSends,         \* bound: datagrams the environment sends or replays
    Burst,            \* fallthrough limiter burst (Quota::per_minute(5))
    InputCap,         \* session input channel capacity (bounded(1000))
    OutputCap,        \* session output channel capacity (bounded(1000))
    FilterRotates,    \* the recent filter forgets old entries
    RecvErrors,       \* recv_from_many may return an error
    EnvKinds          \* the kinds of frames clients and attackers send

ASSUME ConstantsAssumption ==
    /\ Forged \notin Tokens
    /\ NoToken \notin Tokens \cup {Forged}
    /\ NoAddr \notin Addrs
    /\ Shards # {}
    /\ MaxSends \in Nat
    /\ Burst \in Nat \ {0}
    /\ InputCap \in Nat \ {0}
    /\ OutputCap \in Nat \ {0}
    /\ FilterRotates \in BOOLEAN
    /\ RecvErrors \in BOOLEAN
    /\ EnvKinds \subseteq {"Hello", "Resume", "Data", "Other", "Empty"}

\* Versions the ClientHello handler accepts (version != 1 && != 2 && != 3
\* breaks out of the key loop).
SupportedVersions == {1, 2, 3}

\* The frames a buffer can decrypt to.  "Other" is any further
\* HandshakeFrame variant, "Empty" a frame list of length zero, "Data" a
\* buffer that decrypts under no cookie key.
Frames ==
    [kind : {"Hello"}, version : HelloVersions]
      \cup [kind : {"Resume"}, token : Tokens \cup {Forged}, shard : Shards]
      \cup [kind : {"Data", "Other", "Empty"}]

Buffers == [id : 1..MaxSends, frame : Frames]

Datagrams == [buf : Buffers, from : Addrs]

SessStates == {"none", "live", "dropped"}

NoAddrs == [s \in Shards |-> NoAddr]

VARIABLES
    net,         \* datagrams in flight towards the listener's backhaul
    sent,        \* every buffer ever sent: what an observer can replay
    sends,       \* datagrams the environment has sent so far
    batch,       \* items of the NewRecv event being handled
    running,     \* the listener task has not panicked
    byToken,     \* tokens with an entry in the session table
    addrs,       \* addrs[t]: the ShardedAddrs of t's entry (shard -> addr)
    byAddr,      \* byAddr[a]: the token the table maps a to
    sess,        \* sess[t]: the last session accepted for t: none yet, live
                 \* (held by its consumer) or dropped (its drop hook ran)
    input,       \* input[t]: packets queued in t's session input channel
    output,      \* output[t]: packets queued for t's output poller
    deadQ,       \* recv_dead: tokens sent by drop hooks, not yet reaped
    filterCur,   \* recent filter, current generation (buffer ids)
    filterOld,   \* recent filter, previous generation
    cells,       \* cells[a]: fallthrough limiter cells left for a
    issued,      \* tokens handed out in a ServerHello that arrived
    creations,   \* creations[i]: sessions created from buffer i (ghost)
    forgot,      \* forgot[i]: times a rotation dropped buffer i (ghost)
    boundTo      \* boundTo[a]: token a was last rebound to (ghost)

envVars == <<net, sent, sends>>
tableVars == <<byToken, addrs, byAddr>>
vars == <<net, sent, sends, batch, running, byToken, addrs, byAddr, sess,
          input, output, deadQ, filterCur, filterOld, cells, issued,
          creations, forgot, boundTo>>

-----------------------------------------------------------------------------
(* Session table (listener/table.rs, from the spec).                       *)

\* lookup(addr): by_addr, then by_token.
Lookup(a) == IF byAddr[a] \in byToken THEN byAddr[a] ELSE NoToken

\* rebind(addr, shard_id, token) when the token has an entry: set the
\* shard's address and point by_addr[addr] at the token.
Rebind(a, s, t) ==
    /\ addrs' = [addrs EXCEPT ![t][s] = a]
    /\ byAddr' = [byAddr EXCEPT ![a] = t]
    /\ boundTo' = [boundTo EXCEPT ![a] = t]
    /\ UNCHANGED byToken

\* new_sess(token, ...) with ShardedAddrs::new(shard_id, addr), followed by
\* the rebind(addr, shard_id, token) the listener makes right after it.
NewSess(a, s, t) ==
    /\ byToken' = byToken \cup {t}
    /\ addrs' = [addrs EXCEPT ![t] = [x \in Shards |-> IF x = s THEN a ELSE NoAddr]]
    /\ byAddr' = [byAddr EXCEPT ![a] = t]
    /\ boundTo' = [boundTo EXCEPT ![a] = t]

\* delete(token): remove the entry and purge every address of its
\* ShardedAddrs from by_addr.
Delete(t) ==
    /\ byToken' = byToken \ {t}
    /\ byAddr' = [a \in Addrs |-> IF a \in Range(addrs[t]) THEN NoToken ELSE byAddr[a]]
    /\ addrs' = [addrs EXCEPT ![t] = NoAddrs]
    /\ boundTo' = [a \in Addrs |-> IF boundTo[a] = t THEN NoToken ELSE boundTo[a]]

-----------------------------------------------------------------------------
(* The environment: clients and observers sending to the listener, and a   *)
(* network that may lose, duplicate and replay datagrams.                  *)

\* Frames a client or an attacker can produce, of the kinds EnvKinds
\* allows: any ClientHello, a ClientResume with a token it was given (or a
\* forged one), session data, any other handshake variant, an empty list.
EnvFrames ==
    {f \in [kind : {"Hello"}, version : HelloVersions]
              \cup [kind : {"Resume"}, token : issued \cup {Forged}, shard : Shards]
              \cup [kind : {"Data", "Other", "Empty"}] : f.kind \in EnvKinds}

SendNew(f, a) ==
    /\ sends < MaxSends
    /\ LET b == [id |-> sends + 1, frame |-> f]
       IN /\ net' = net \cup {[buf |-> b, from |-> a]}
          /\ sent' = sent \cup {b}
    /\ sends' = sends + 1
    /\ UNCHANGED <<batch, running, byToken, addrs, byAddr, sess, input,
                   output, deadQ, filterCur, filterOld, cells, issued,
                   creations, forgot, boundTo>>

\* The same bytes again, from any address: a duplicate or a replay.
Replay(b, a) ==
    /\ sends < MaxSends
    /\ net' = net \cup {[buf |-> b, from |-> a]}
    /\ sends' = sends + 1
    /\ UNCHANGED <<sent, batch, running, byToken, addrs, byAddr, sess, input,
                   output, deadQ, filterCur, filterOld, cells, issued,
                   creations, forgot, boundTo>>

Lose(d) ==
    /\ net' = net \ {d}
    /\ UNCHANGED <<sent, sends, batch, running, byToken, addrs, byAddr, sess,
                   input, output, deadQ, filterCur, filterOld, cells, issued,
                   creations, forgot, boundTo>>

-----------------------------------------------------------------------------
(* The listener actor's event loop.                                        *)

\* The state the handshake path may change.
hsVars == <<filterCur, issued, byToken, addrs, byAddr, sess, creations,
            boundTo, running>>

\* ClientHello: a supported version gets a fresh ephemeral key and a fresh
\* TokenInfo encrypted under token_key, sent back in a ServerHello; the
\* listener keeps no state.  The reply is a UDP datagram: either it arrives
\* and its token is in the client's hands, or it is lost.
ClientHello(f) ==
    /\ IF f.version \in SupportedVersions
         THEN issued' \in {issued} \cup {issued \cup {t} : t \in Tokens \ issued}
         ELSE UNCHANGED issued
    /\ UNCHANGED <<byToken, addrs, byAddr, sess, creations, boundTo, running>>

\* Mutant: a valid token always builds a new session, whether or not the
\* table already has an entry for it (the rebind check is dropped).
ClientResumeNoRebindCheck(b, a) ==
    LET t == b.frame.token
        s == b.frame.shard
    IN  /\ UNCHANGED <<issued, running>>
        /\ \/ /\ t \notin issued
              /\ UNCHANGED <<byToken, addrs, byAddr, sess, creations, boundTo>>
           \/ /\ t \in issued
              /\ NewSess(a, s, t)
              /\ sess' = [sess EXCEPT ![t] = "live"]
              /\ creations' = [creations EXCEPT ![b.id] = @ + 1]

\* ClientResume: a token that does not decrypt under token_key is dropped;
\* a token with a table entry only rebinds the shard; otherwise a new
\* session is built, its output poller spawned, its drop hook installed,
\* the entry inserted and rebound, and the session accepted.
ClientResume(b, a) ==
    LET t == b.frame.token
        s == b.frame.shard
    IN  /\ UNCHANGED <<issued, running>>
        /\ \/ /\ t \notin issued
              /\ UNCHANGED <<byToken, addrs, byAddr, sess, creations, boundTo>>
           \/ /\ t \in issued
              /\ t \in byToken
              /\ Rebind(a, s, t)
              /\ UNCHANGED <<sess, creations>>
           \/ /\ t \in issued
              /\ t \notin byToken
              /\ NewSess(a, s, t)
              /\ sess' = [sess EXCEPT ![t] = "live"]
              /\ creations' = [creations EXCEPT ![b.id] = @ + 1]

DecodedCurOnly(b, a) ==
    IF b.id \in filterCur
      THEN UNCHANGED hsVars
      ELSE /\ filterCur' = filterCur \cup {b.id}
           /\ \/ /\ b.frame.kind = "Empty"
                 /\ running' = FALSE
                 /\ UNCHANGED <<issued, byToken, addrs, byAddr, sess,
                                creations, boundTo>>
              \/ /\ b.frame.kind = "Other"
                 /\ UNCHANGED <<issued, byToken, addrs, byAddr, sess,
                                creations, boundTo, running>>
              \/ /\ b.frame.kind = "Hello"
                 /\ ClientHello(b.frame)
              \/ /\ b.frame.kind = "Resume"
                 /\ ClientResume(b, a)

\* A buffer that decrypted under one of the cookie's c2s keys: the recent
\* filter discards a buffer it has seen, then handshake[0] is dispatched
\* (indexing an empty frame list panics the listener task).
Decoded(b, a) ==
    IF b.id \in filterCur \cup filterOld
      THEN UNCHANGED hsVars
      ELSE /\ filterCur' = filterCur \cup {b.id}
           /\ \/ /\ b.frame.kind = "Empty"
                 /\ running' = FALSE
                 /\ UNCHANGED <<issued, byToken, addrs, byAddr, sess,
                                creations, boundTo>>
              \/ /\ b.frame.kind = "Other"
                 /\ UNCHANGED <<issued, byToken, addrs, byAddr, sess,
                                creations, boundTo, running>>
              \/ /\ b.frame.kind = "Hello"
                 /\ ClientHello(b.frame)
              \/ /\ b.frame.kind = "Resume"
                 /\ ClientResume(b, a)

\* One (buffer, addr) item of a NewRecv batch.  An address the table maps
\* to a session gets the buffer try_send-ed to that session's input (lost
\* when the channel is full or closed) and falls through to the handshake
\* path only if the fallthrough limiter grants a cell.
HandleItem(d) ==
    LET a   == d.from
        b   == d.buf
        hit == Lookup(a)
    IN  /\ running
        /\ d \in batch
        /\ batch' = batch \ {d}
        /\ input' = IF hit # NoToken /\ sess[hit] = "live" /\ input[hit] < InputCap
                      THEN [input EXCEPT ![hit] = @ + 1]
                      ELSE input
        /\ cells' = IF hit # NoToken /\ cells[a] > 0
                      THEN [cells EXCEPT ![a] = @ - 1]
                      ELSE cells
        /\ IF (hit = NoToken \/ cells[a] > 0) /\ b.frame.kind # "Data"
             THEN Decoded(b, a)
             ELSE UNCHANGED hsVars
        /\ UNCHANGED <<net, sent, sends, output, deadQ, filterOld, forgot>>

\* The race between recv_from_many and recv_dead is won by the backhaul:
\* a non-empty batch of datagrams is taken off the network.
Receive ==
    /\ running
    /\ batch = {}
    /\ \E B \in SUBSET net \ {{}} :
          /\ batch' = B
          /\ net' = net \ B
    /\ UNCHANGED <<sent, sends, running, byToken, addrs, byAddr, sess, input,
                   output, deadQ, filterCur, filterOld, cells, issued,
                   creations, forgot, boundTo>>

\* The race is won by recv_dead: DeadSess(token) deletes the table entry.
Reap ==
    /\ running
    /\ batch = {}
    /\ deadQ # <<>>
    /\ Delete(Head(deadQ))
    /\ deadQ' = Tail(deadQ)
    /\ UNCHANGED <<net, sent, sends, batch, running, sess, input, output,
                   filterCur, filterOld, cells, issued, creations, forgot>>

\* recv_from_many() returns an error: .unwrap() panics the listener task.
RecvFail ==
    /\ RecvErrors
    /\ running
    /\ batch = {}
    /\ running' = FALSE
    /\ UNCHANGED <<net, sent, sends, batch, byToken, addrs, byAddr, sess,
                   input, output, deadQ, filterCur, filterOld, cells, issued,
                   creations, forgot, boundTo>>

-----------------------------------------------------------------------------
(* The sessions the listener accepted and their output pollers.            *)

\* The session consumes a packet from its input channel.
SessionRecv(t) ==
    /\ sess[t] = "live"
    /\ input[t] > 0
    /\ input' = [input EXCEPT ![t] = @ - 1]
    /\ UNCHANGED <<net, sent, sends, batch, running, byToken, addrs, byAddr,
                   sess, output, deadQ, filterCur, filterOld, cells, issued,
                   creations, forgot, boundTo>>

\* The session queues a packet on its output channel.
SessionSend(t) ==
    /\ sess[t] = "live"
    /\ output[t] < OutputCap
    /\ output' = [output EXCEPT ![t] = @ + 1]
    /\ UNCHANGED <<net, sent, sends, batch, running, byToken, addrs, byAddr,
                   sess, input, deadQ, filterCur, filterOld, cells, issued,
                   creations, forgot, boundTo>>

\* The output poller takes a packet and sends it to locked_addrs.get_addr().
PollerSend(t) ==
    /\ sess[t] = "live"
    /\ output[t] > 0
    /\ output' = [output EXCEPT ![t] = @ - 1]
    /\ UNCHANGED <<net, sent, sends, batch, running, byToken, addrs, byAddr,
                   sess, input, deadQ, filterCur, filterOld, cells, issued,
                   creations, forgot, boundTo>>

\* Mutant: the drop hook cancels the poller but never reports the token.
DropSessionNoReport(t) ==
    /\ sess[t] = "live"
    /\ sess' = [sess EXCEPT ![t] = "dropped"]
    /\ input' = [input EXCEPT ![t] = 0]
    /\ output' = [output EXCEPT ![t] = 0]
    /\ UNCHANGED <<net, sent, sends, batch, running, byToken, addrs, byAddr,
                   deadQ, filterCur, filterOld, cells, issued, creations, forgot,
                   boundTo>>

\* The session is dropped (by its consumer or on recv_timeout): the drop
\* hook cancels the output poller and sends the token to recv_dead; the
\* session's channels go with it.
DropSession(t) ==
    /\ sess[t] = "live"
    /\ sess' = [sess EXCEPT ![t] = "dropped"]
    /\ input' = [input EXCEPT ![t] = 0]
    /\ output' = [output EXCEPT ![t] = 0]
    /\ deadQ' = Append(deadQ, t)
    /\ UNCHANGED <<net, sent, sends, batch, running, byToken, addrs, byAddr,
                   filterCur, filterOld, cells, issued, creations, forgot, boundTo>>

-----------------------------------------------------------------------------
(* Time passing.                                                           *)

\* Mutant: the limiter replenishes past its burst.
RefillUncapped(a) ==
    /\ cells' = [cells EXCEPT ![a] = @ + 1]
    /\ UNCHANGED <<net, sent, sends, batch, running, byToken, addrs, byAddr,
                   sess, input, output, deadQ, filterCur, filterOld, issued,
                   creations, forgot, boundTo>>

\* The limiter replenishes a cell for an address.
Refill(a) ==
    /\ cells[a] < Burst
    /\ cells' = [cells EXCEPT ![a] = @ + 1]
    /\ UNCHANGED <<net, sent, sends, batch, running, byToken, addrs, byAddr,
                   sess, input, output, deadQ, filterCur, filterOld, issued,
                   creations, forgot, boundTo>>

\* The recent filter rotates: the previous generation is forgotten.
Rotate ==
    /\ FilterRotates
    /\ filterCur \cup filterOld # {}
    /\ filterOld' = filterCur
    /\ filterCur' = {}
    /\ forgot' = [i \in 1..MaxSends |-> IF i \in filterOld THEN forgot[i] + 1
                                                         ELSE forgot[i]]
    /\ UNCHANGED <<net, sent, sends, batch, running, byToken, addrs, byAddr,
                   sess, input, output, deadQ, cells, issued, creations,
                   boundTo>>

-----------------------------------------------------------------------------

Init ==
    /\ net = {}
    /\ sent = {}
    /\ sends = 0
    /\ batch = {}
    /\ running = TRUE
    /\ byToken = {}
    /\ addrs = [t \in Tokens |-> NoAddrs]
    /\ byAddr = [a \in Addrs |-> NoToken]
    /\ sess = [t \in Tokens |-> "none"]
    /\ input = [t \in Tokens |-> 0]
    /\ output = [t \in Tokens |-> 0]
    /\ deadQ = <<>>
    /\ filterCur = {}
    /\ filterOld = {}
    /\ cells = [a \in Addrs |-> Burst]
    /\ issued = {}
    /\ creations = [i \in 1..MaxSends |-> 0]
    /\ forgot = [i \in 1..MaxSends |-> 0]
    /\ boundTo = [a \in Addrs |-> NoToken]

\* One step of the listener task.
ListenerStep == Receive \/ Reap \/ RecvFail \/ \E d \in batch : HandleItem(d)

Environment ==
    \/ \E a \in Addrs : \E f \in EnvFrames : SendNew(f, a)
    \/ \E b \in sent : \E a \in Addrs : Replay(b, a)
    \/ \E d \in net : Lose(d)

SessionStep ==
    \E t \in Tokens :
        SessionRecv(t) \/ SessionSend(t) \/ PollerSend(t) \/ DropSession(t)

Clock == Rotate \/ \E a \in Addrs : Refill(a)

Next == ListenerStep \/ Environment \/ SessionStep \/ Clock

\* The listener task is scheduled whenever it has an event to handle.
Spec == Init /\ [][Next]_vars /\ WF_vars(ListenerStep)

-----------------------------------------------------------------------------
(* Properties.                                                             *)

TypeOK ==
    /\ net \subseteq Datagrams
    /\ sent \subseteq Buffers
    /\ sends \in 0..MaxSends
    /\ batch \subseteq Datagrams
    /\ running \in BOOLEAN
    /\ byToken \subseteq Tokens
    /\ addrs \in [Tokens -> [Shards -> Addrs \cup {NoAddr}]]
    /\ byAddr \in [Addrs -> Tokens \cup {NoToken}]
    /\ sess \in [Tokens -> SessStates]
    /\ input \in [Tokens -> 0..InputCap]
    /\ output \in [Tokens -> 0..OutputCap]
    /\ deadQ \in Seq(Tokens)
    /\ filterCur \subseteq 1..MaxSends
    /\ filterOld \subseteq 1..MaxSends
    /\ cells \in [Addrs -> 0..Burst]
    /\ issued \subseteq Tokens
    /\ creations \in [1..MaxSends -> Nat]
    /\ forgot \in [1..MaxSends -> Nat]
    /\ boundTo \in [Addrs -> Tokens \cup {NoToken}]

\* Every session the listener accepted and whose consumer still holds it
\* has its entry in the session table, so that traffic from its addresses
\* reaches it.  A reap (DeadSess) is handled long after the drop hook ran;
\* a ClientResume in between must not build a second session whose entry
\* the late reap then deletes.
LiveSessionInTable ==
    \A t \in Tokens : sess[t] = "live" => t \in byToken

\* A captured handshake buffer never creates a session twice: replaying a
\* ClientResume after its session was dropped and reaped is refused (the
\* recent filter, RECENT_FILTER.lock().check(&buffer), is the only guard:
\* TokenInfo.init_time_ms is never checked).
NoReplayedSession ==
    \A i \in 1..MaxSends : creations[i] <= 1

\* The recent filter is what stands between a replayed handshake and a
\* second session: a buffer creates a session again only after a rotation
\* of RECENT_FILTER dropped it, and at most once per such rotation.  The
\* filter must consult both of its generations for this to hold.
ReplayOnlyWhenForgotten ==
    \A i \in 1..MaxSends : creations[i] <= 1 + forgot[i]

\* A session whose drop hook ran is eventually removed from the table: the
\* listener's race of recv_from_many against recv_dead does not starve the
\* reap forever.
ReapEventually ==
    \A t \in Tokens : sess[t] = "dropped" ~> t \notin byToken

\* The state of each token's session as SessionLifecycle sees it: no
\* table entry, an entry of a live session, or an entry left by a dropped
\* session until the reap.
Life ==
    [t \in Tokens |-> IF t \notin byToken THEN "absent"
                      ELSE IF sess[t] = "live" THEN "live" ELSE "pending"]

SL == INSTANCE SessionLifecycle WITH life <- Life

\* The listener implements the session lifecycle: ClientResume builds a
\* session only for a token without an entry, the drop hook reports a live
\* session before its entry goes, and the reap of DeadSess removes each
\* such entry once, whatever the interleaving of resumes, drops and reaps.
SessionRefinement == SL!Spec

\* Spec 8: after rebind(a, _, t), lookup(a) returns t's sender, until a is
\* rebound elsewhere or t is deleted.  The reap of another session must not
\* take a away from t.
RouteStable ==
    \A a \in Addrs : boundTo[a] \in byToken => Lookup(a) = boundTo[a]

\* Spec 7: per-packet errors and transient I/O errors never stop the
\* listener (recv_from_many().unwrap(), handshake[0]).
ListenerRunning == running


-----------------------------------------------------------------------------
(* The inductive invariant behind LiveSessionInTable: the table holds an   *)
(* entry for a token exactly while its session is live or its DeadSess is  *)
(* still waiting in recv_dead, every waiting DeadSess is for a dropped     *)
(* session, and no token waits twice.                                      *)

TableHoldsSessions ==
    \A t \in Tokens : t \in byToken <=> (sess[t] = "live" \/ t \in Range(deadQ))

ReapQueueDropped ==
    \A t \in Range(deadQ) : sess[t] = "dropped"

IInv ==
    /\ TypeOK
    /\ TableHoldsSessions
    /\ ReapQueueDropped
    /\ IsInjective(deadQ)

=============================================================================
