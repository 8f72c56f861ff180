--------------------------- MODULE ListenerProofs ---------------------------
(***************************************************************************)
(* Proofs about the listener model, for every value of the constants that  *)
(* satisfies ConstantsAssumption.                                          *)
(***************************************************************************)
EXTENDS Listener, SequenceTheorems, TLAPS

USE ConstantsAssumption

\* A decrypted ClientResume carries a token and a shard of the right sets.
LEMMA ResumeFrameFields ==
    ASSUME NEW f \in Frames, f.kind = "Resume"
    PROVE  /\ f.token \in Tokens \cup {Forged}
           /\ f.shard \in Shards
BY DEF Frames

LEMMA InitTypeOK == Init => TypeOK
BY DEF Init, TypeOK, NoAddrs, SessStates


\* The type of the state the handshake path changes.
HsTypeOK ==
    /\ filterCur \subseteq 1..MaxSends
    /\ issued \subseteq Tokens
    /\ byToken \subseteq Tokens
    /\ addrs \in [Tokens -> [Shards -> Addrs \cup {NoAddr}]]
    /\ byAddr \in [Addrs -> Tokens \cup {NoToken}]
    /\ sess \in [Tokens -> SessStates]
    /\ creations \in [1..MaxSends -> Nat]
    /\ boundTo \in [Addrs -> Tokens \cup {NoToken}]
    /\ running \in BOOLEAN

LEMMA LookupType ==
    ASSUME TypeOK, NEW a \in Addrs
    PROVE  Lookup(a) \in byToken \cup {NoToken}
BY DEF Lookup

\* The handshake path keeps the state it changes well typed.
LEMMA DecodedTypeOK ==
    ASSUME TypeOK, NEW b \in Buffers, NEW a \in Addrs, Decoded(b, a)
    PROVE  HsTypeOK'
<1>1. HsTypeOK
  BY DEF TypeOK, HsTypeOK
<1>2. CASE b.id \in filterCur \cup filterOld
  BY <1>1, <1>2 DEF Decoded, hsVars, HsTypeOK
<1>3. CASE b.id \notin filterCur \cup filterOld
  <2>1. filterCur' \subseteq 1..MaxSends
    BY <1>3 DEF Decoded, TypeOK, Buffers
  <2>2. CASE b.frame.kind = "Empty"
    BY <1>1, <1>3, <2>1, <2>2 DEF Decoded, HsTypeOK
  <2>3. CASE b.frame.kind = "Other"
    BY <1>1, <1>3, <2>1, <2>3 DEF Decoded, HsTypeOK
  <2>4. CASE b.frame.kind = "Hello"
    <3>1. ClientHello(b.frame)
      BY <1>3, <2>4 DEF Decoded
    <3>2. issued' \subseteq Tokens
      BY <1>1, <3>1 DEF ClientHello, HsTypeOK
    <3>. QED
      BY <1>1, <2>1, <3>1, <3>2 DEF ClientHello, HsTypeOK
  <2>5. CASE b.frame.kind = "Resume"
    <3> DEFINE t == b.frame.token
               s == b.frame.shard
    <3>1. ClientResume(b, a)
      BY <1>3, <2>5 DEF Decoded
    <3>2. t \in Tokens \cup {Forged} /\ s \in Shards
      BY <2>5, ResumeFrameFields DEF Buffers
    <3>3. CASE t \notin issued
      BY <1>1, <2>1, <3>1, <3>3 DEF ClientResume, HsTypeOK
    <3>4. CASE t \in issued /\ t \in byToken
      <4>1. t \in Tokens
        BY <1>1, <3>4 DEF HsTypeOK
      <4>2. /\ Rebind(a, s, t)
            /\ UNCHANGED <<sess, creations, issued, running>>
        BY <3>1, <3>4 DEF ClientResume
      <4>3. addrs' \in [Tokens -> [Shards -> Addrs \cup {NoAddr}]]
        BY <1>1, <3>2, <4>1, <4>2 DEF Rebind, HsTypeOK
      <4>. QED
        BY <1>1, <2>1, <4>1, <4>2, <4>3 DEF Rebind, HsTypeOK
    <3>5. CASE t \in issued /\ t \notin byToken
      <4>1. t \in Tokens
        BY <1>1, <3>5 DEF HsTypeOK
      <4>2. b.id \in 1..MaxSends
        BY DEF Buffers
      <4>3. /\ NewSess(a, s, t)
            /\ sess' = [sess EXCEPT ![t] = "live"]
            /\ creations' = [creations EXCEPT ![b.id] = @ + 1]
            /\ UNCHANGED <<issued, running>>
        BY <3>1, <3>5 DEF ClientResume
      <4>4. addrs' \in [Tokens -> [Shards -> Addrs \cup {NoAddr}]]
        BY <1>1, <3>2, <4>1, <4>3 DEF NewSess, HsTypeOK
      <4>5. creations' \in [1..MaxSends -> Nat]
        BY <1>1, <4>2, <4>3 DEF HsTypeOK
      <4>6. sess' \in [Tokens -> SessStates]
        BY <1>1, <4>1, <4>3 DEF HsTypeOK, SessStates
      <4>. QED
        BY <1>1, <2>1, <4>1, <4>3, <4>4, <4>5, <4>6 DEF NewSess, HsTypeOK
    <3>. QED
      BY <3>3, <3>4, <3>5
  <2>6. b.frame.kind \in {"Hello", "Resume", "Data", "Other", "Empty"}
    BY DEF Buffers, Frames
  <2>7. CASE b.frame.kind = "Data"
    BY <1>3, <2>7 DEF Decoded
  <2>. QED
    BY <2>2, <2>3, <2>4, <2>5, <2>6, <2>7
<1>. QED
  BY <1>2, <1>3


\* One item of a batch keeps the state well typed.
LEMMA HandleItemTypeOK ==
    ASSUME TypeOK, NEW d \in batch, HandleItem(d)
    PROVE  TypeOK'
<1> DEFINE a == d.from
           b == d.buf
           hit == Lookup(a)
<1>1. a \in Addrs /\ b \in Buffers
  BY DEF TypeOK, Datagrams
<1>2. hit \in Tokens \cup {NoToken}
  BY <1>1, LookupType DEF TypeOK
<1>3. input' \in [Tokens -> 0..InputCap]
  BY <1>2 DEF HandleItem, TypeOK
<1>4. cells' \in [Addrs -> 0..Burst]
  BY <1>1 DEF HandleItem, TypeOK
<1>5. HsTypeOK'
  <2>1. CASE (hit = NoToken \/ cells[a] > 0) /\ b.frame.kind # "Data"
    BY <1>1, <2>1, DecodedTypeOK DEF HandleItem
  <2>2. CASE ~((hit = NoToken \/ cells[a] > 0) /\ b.frame.kind # "Data")
    BY <2>2 DEF HandleItem, hsVars, TypeOK, HsTypeOK
  <2>. QED
    BY <2>1, <2>2
<1>6. batch' \subseteq Datagrams
  BY DEF HandleItem, TypeOK
<1>. QED
  BY <1>3, <1>4, <1>5, <1>6 DEF HandleItem, TypeOK, HsTypeOK

LEMMA NextTypeOK == TypeOK /\ [Next]_vars => TypeOK'
<1> SUFFICES ASSUME TypeOK, [Next]_vars PROVE TypeOK'
  OBVIOUS
<1>1. ASSUME NEW a \in Addrs, NEW f \in EnvFrames, SendNew(f, a)
      PROVE  TypeOK'
  <2>1. f \in Frames
    BY DEF EnvFrames, Frames, TypeOK
  <2>2. sends + 1 \in 1..MaxSends
    BY <1>1 DEF SendNew, TypeOK
  <2>3. [id |-> sends + 1, frame |-> f] \in Buffers
    BY <2>1, <2>2 DEF Buffers
  <2>4. [buf |-> [id |-> sends + 1, frame |-> f], from |-> a] \in Datagrams
    BY <2>3 DEF Datagrams
  <2>5. /\ net' = net \cup {[buf |-> [id |-> sends + 1, frame |-> f], from |-> a]}
        /\ sent' = sent \cup {[id |-> sends + 1, frame |-> f]}
        /\ sends' = sends + 1
    BY <1>1 DEF SendNew
  <2>6. /\ net' \subseteq Datagrams
        /\ sent' \subseteq Buffers
        /\ sends' \in 0..MaxSends
    BY <2>2, <2>3, <2>4, <2>5 DEF TypeOK
  <2>. QED
    BY <1>1, <2>6 DEF SendNew, TypeOK
<1>2. ASSUME NEW b \in sent, NEW a \in Addrs, Replay(b, a)
      PROVE  TypeOK'
  <2>1. [buf |-> b, from |-> a] \in Datagrams
    BY DEF TypeOK, Datagrams
  <2>. QED
    BY <1>2, <2>1 DEF Replay, TypeOK
<1>3. ASSUME NEW d \in net, Lose(d)
      PROVE  TypeOK'
  BY <1>3 DEF Lose, TypeOK
<1>4. CASE Receive
  BY <1>4 DEF Receive, TypeOK
<1>5. CASE Reap
  <2>1. Head(deadQ) \in Tokens /\ Tail(deadQ) \in Seq(Tokens)
    BY <1>5 DEF Reap, TypeOK
  <2>2. byAddr' \in [Addrs -> Tokens \cup {NoToken}]
    BY <1>5 DEF Reap, Delete, TypeOK
  <2>3. boundTo' \in [Addrs -> Tokens \cup {NoToken}]
    BY <1>5 DEF Reap, Delete, TypeOK
  <2>4. addrs' \in [Tokens -> [Shards -> Addrs \cup {NoAddr}]]
    BY <1>5, <2>1 DEF Reap, Delete, TypeOK, NoAddrs
  <2>. QED
    BY <1>5, <2>1, <2>2, <2>3, <2>4 DEF Reap, Delete, TypeOK
<1>6. CASE RecvFail
  BY <1>6 DEF RecvFail, TypeOK
<1>7. ASSUME NEW d \in batch, HandleItem(d)
      PROVE  TypeOK'
  BY <1>7, HandleItemTypeOK
<1>8. ASSUME NEW t \in Tokens, SessionRecv(t)
      PROVE  TypeOK'
  <2>1. input' \in [Tokens -> 0..InputCap]
    BY <1>8 DEF SessionRecv, TypeOK
  <2>. QED
    BY <1>8, <2>1 DEF SessionRecv, TypeOK
<1>13. ASSUME NEW t \in Tokens, SessionSend(t)
      PROVE  TypeOK'
  <2>1. output' \in [Tokens -> 0..OutputCap]
    BY <1>13 DEF SessionSend, TypeOK
  <2>. QED
    BY <1>13, <2>1 DEF SessionSend, TypeOK
<1>14. ASSUME NEW t \in Tokens, PollerSend(t)
      PROVE  TypeOK'
  <2>1. output' \in [Tokens -> 0..OutputCap]
    BY <1>14 DEF PollerSend, TypeOK
  <2>. QED
    BY <1>14, <2>1 DEF PollerSend, TypeOK
<1>9. ASSUME NEW t \in Tokens, DropSession(t)
      PROVE  TypeOK'
  <2>1. deadQ' \in Seq(Tokens)
    BY <1>9, AppendProperties DEF DropSession, TypeOK
  <2>2. sess' \in [Tokens -> SessStates]
    BY <1>9 DEF DropSession, TypeOK, SessStates
  <2>3. input' \in [Tokens -> 0..InputCap] /\ output' \in [Tokens -> 0..OutputCap]
    BY <1>9 DEF DropSession, TypeOK
  <2>. QED
    BY <1>9, <2>1, <2>2, <2>3 DEF DropSession, TypeOK
<1>10. CASE Rotate
  BY <1>10 DEF Rotate, TypeOK
<1>11. ASSUME NEW a \in Addrs, Refill(a)
       PROVE  TypeOK'
  <2>1. cells' \in [Addrs -> 0..Burst]
    BY <1>11 DEF Refill, TypeOK
  <2>. QED
    BY <1>11, <2>1 DEF Refill, TypeOK
<1>12. CASE UNCHANGED vars
  BY <1>12 DEF vars, TypeOK
<1>. QED
  BY <1>1, <1>2, <1>3, <1>4, <1>5, <1>6, <1>7, <1>8, <1>9, <1>10, <1>11,
     <1>12, <1>13, <1>14
  DEF Next, ListenerStep, Environment, SessionStep, Clock

\* The listener's state is well typed in every reachable state.
THEOREM TypeCorrect == Spec => []TypeOK
BY InitTypeOK, NextTypeOK, PTL DEF Spec


-----------------------------------------------------------------------------
(* recv_dead as a sequence: what a send and a receive do to the set of     *)
(* tokens waiting in it.                                                   *)

\* Sending a token on recv_dead adds it to the waiting set, and keeps the
\* queue free of duplicates when the token was not already waiting.
LEMMA AppendRange ==
    ASSUME NEW S, NEW q \in Seq(S), NEW x \in S
    PROVE  /\ Range(Append(q, x)) = Range(q) \cup {x}
           /\ IsInjective(q) /\ x \notin Range(q) => IsInjective(Append(q, x))
<1> DEFINE r == Append(q, x)
<1>1. /\ DOMAIN r = 1..Len(q) + 1
      /\ DOMAIN q = 1..Len(q)
      /\ Len(q) \in Nat
      /\ \A i \in 1..Len(q) : r[i] = q[i]
      /\ r[Len(q) + 1] = x
  BY AppendProperties, LenProperties
<1>2. Range(r) = Range(q) \cup {x}
  BY <1>1 DEF Range
<1>3. ASSUME IsInjective(q), x \notin Range(q) PROVE IsInjective(r)
  BY <1>1, <1>3 DEF Range, IsInjective
<1>. QED
  BY <1>2, <1>3

\* Receiving from a duplicate-free recv_dead removes exactly its head from
\* the waiting set.
LEMMA TailRange ==
    ASSUME NEW S, NEW q \in Seq(S), q # <<>>, IsInjective(q)
    PROVE  /\ Range(Tail(q)) = Range(q) \ {Head(q)}
           /\ IsInjective(Tail(q))
           /\ Head(q) \in Range(q)
<1> DEFINE r == Tail(q)
<1>1. /\ Len(q) \in Nat \ {0}
      /\ DOMAIN q = 1..Len(q)
      /\ DOMAIN r = 1..Len(q) - 1
      /\ \A i \in 1..Len(q) - 1 : r[i] = q[i + 1]
      /\ Head(q) = q[1]
  BY EmptySeq, LenProperties, HeadTailProperties
<1>2. Head(q) \in Range(q)
  BY <1>1 DEF Range
<1>3. Range(r) = Range(q) \ {Head(q)}
  <2>1. ASSUME NEW i \in DOMAIN r PROVE r[i] \in Range(q) \ {Head(q)}
    <3>1. i + 1 \in DOMAIN q /\ i + 1 # 1 /\ r[i] = q[i + 1]
      BY <1>1
    <3>. QED
      BY <3>1, <1>1 DEF Range, IsInjective
  <2>2. ASSUME NEW j \in DOMAIN q, q[j] # Head(q) PROVE q[j] \in Range(r)
    <3>1. j # 1 /\ j - 1 \in DOMAIN r /\ r[j - 1] = q[j]
      BY <2>2, <1>1
    <3>. QED
      BY <3>1 DEF Range
  <2>. QED
    BY <2>1, <2>2 DEF Range
<1>4. IsInjective(r)
  BY <1>1 DEF IsInjective
<1>. QED
  BY <1>2, <1>3, <1>4

LEMMA InitIInv == Init => IInv
<1> SUFFICES ASSUME Init PROVE IInv
  OBVIOUS
<1>1. Range(deadQ) = {} /\ IsInjective(deadQ)
  BY DEF Init, Range, IsInjective
<1>. QED
  BY <1>1, InitTypeOK DEF IInv, Init, TableHoldsSessions, ReapQueueDropped

\* The handshake path either leaves the session table and the session
\* states alone or creates one session for a token that had no entry.
LEMMA DecodedTable ==
    ASSUME TypeOK, NEW b \in Buffers, NEW a \in Addrs, Decoded(b, a)
    PROVE  \/ UNCHANGED <<byToken, sess>>
           \/ \E t \in Tokens :
                 /\ t \notin byToken
                 /\ byToken' = byToken \cup {t}
                 /\ sess' = [sess EXCEPT ![t] = "live"]
<1>1. CASE b.id \in filterCur \cup filterOld
  BY <1>1 DEF Decoded, hsVars
<1>2. CASE b.id \notin filterCur \cup filterOld /\ b.frame.kind # "Resume"
  BY <1>2 DEF Decoded, ClientHello
<1>3. CASE b.id \notin filterCur \cup filterOld /\ b.frame.kind = "Resume"
  <2> DEFINE t == b.frame.token
  <2>1. ClientResume(b, a)
    BY <1>3 DEF Decoded
  <2>2. CASE t \in issued /\ t \notin byToken
    <3>1. t \in Tokens
      BY <2>2 DEF TypeOK
    <3>. QED
      BY <2>1, <2>2, <3>1 DEF ClientResume, NewSess
  <2>. QED
    BY <2>1, <2>2 DEF ClientResume, Rebind
<1>. QED
  BY <1>1, <1>2, <1>3


\* The conjuncts of IInv beyond the type.
TableInv == TableHoldsSessions /\ ReapQueueDropped /\ IsInjective(deadQ)

\* A step that leaves the table, the session states and recv_dead alone
\* keeps TableInv.
LEMMA TableUnchanged ==
    ASSUME TableInv, UNCHANGED <<byToken, sess, deadQ>>
    PROVE  TableInv'
BY DEF TableInv, TableHoldsSessions, ReapQueueDropped

\* One item of a batch keeps TableInv: a ClientResume creates a session
\* only for a token with no entry, hence neither live nor waiting.
LEMMA HandleItemTable ==
    ASSUME TypeOK, TableInv, NEW d \in batch, HandleItem(d)
    PROVE  TableInv'
<1> DEFINE a == d.from
           b == d.buf
<1>1. a \in Addrs /\ b \in Buffers
  BY DEF TypeOK, Datagrams
<1>2. deadQ' = deadQ
  BY DEF HandleItem
<1>3. \/ UNCHANGED <<byToken, sess>>
      \/ \E t \in Tokens : /\ t \notin byToken
                           /\ byToken' = byToken \cup {t}
                           /\ sess' = [sess EXCEPT ![t] = "live"]
  BY <1>1, DecodedTable DEF HandleItem, hsVars
<1>4. CASE UNCHANGED <<byToken, sess>>
  BY <1>2, <1>4, TableUnchanged
<1>5. ASSUME NEW t \in Tokens, t \notin byToken,
             byToken' = byToken \cup {t}, sess' = [sess EXCEPT ![t] = "live"]
      PROVE  TableInv'
  <2>1. sess[t] # "live" /\ t \notin Range(deadQ)
    BY <1>5 DEF TableInv, TableHoldsSessions
  <2>2. TableHoldsSessions'
    BY <1>2, <1>5, <2>1 DEF TableInv, TableHoldsSessions, TypeOK
  <2>3. ReapQueueDropped'
    BY <1>2, <1>5, <2>1 DEF TableInv, ReapQueueDropped, TypeOK
  <2>. QED
    BY <1>2, <2>2, <2>3 DEF TableInv
<1>. QED
  BY <1>3, <1>4, <1>5

\* Reaping the head of recv_dead deletes a dropped session's entry and
\* nothing else that TableInv speaks of.
LEMMA ReapTable ==
    ASSUME TypeOK, TableInv, Reap
    PROVE  TableInv'
<1> DEFINE h == Head(deadQ)
<1>1. /\ Range(deadQ') = Range(deadQ) \ {h}
      /\ IsInjective(deadQ')
      /\ h \in Range(deadQ)
  BY TailRange DEF Reap, TableInv, TypeOK
<1>2. sess[h] = "dropped"
  BY <1>1 DEF TableInv, ReapQueueDropped
<1>3. byToken' = byToken \ {h} /\ sess' = sess
  BY DEF Reap, Delete
<1>4. TableHoldsSessions'
  BY <1>1, <1>2, <1>3 DEF TableInv, TableHoldsSessions
<1>5. ReapQueueDropped'
  BY <1>1, <1>3 DEF TableInv, ReapQueueDropped
<1>. QED
  BY <1>1, <1>4, <1>5 DEF TableInv

\* A dropped session's token joins recv_dead while its entry is still in
\* the table; it was live, so it was not already waiting.
LEMMA DropSessionTable ==
    ASSUME TypeOK, TableInv, NEW t \in Tokens, DropSession(t)
    PROVE  TableInv'
<1>1. t \notin Range(deadQ) /\ t \in byToken
  BY DEF DropSession, TableInv, ReapQueueDropped, TableHoldsSessions
<1>2. /\ Range(deadQ') = Range(deadQ) \cup {t}
      /\ IsInjective(deadQ')
  BY <1>1, AppendRange DEF DropSession, TableInv, TypeOK
<1>3. byToken' = byToken /\ sess' = [sess EXCEPT ![t] = "dropped"]
  BY DEF DropSession
<1>4. TableHoldsSessions'
  BY <1>1, <1>2, <1>3 DEF TableInv, TableHoldsSessions, TypeOK
<1>5. ReapQueueDropped'
  BY <1>1, <1>2, <1>3 DEF TableInv, ReapQueueDropped, TypeOK
<1>. QED
  BY <1>2, <1>4, <1>5 DEF TableInv

LEMMA NextIInv == IInv /\ [Next]_vars => IInv'
<1> SUFFICES ASSUME IInv, [Next]_vars PROVE IInv'
  OBVIOUS
<1>1. TypeOK /\ TableInv
  BY DEF IInv, TableInv
<1>2. TypeOK'
  BY <1>1, NextTypeOK
<1>3. TableInv'
  <2>1. CASE Reap
    BY <1>1, <2>1, ReapTable
  <2>2. ASSUME NEW d \in batch, HandleItem(d) PROVE TableInv'
    BY <1>1, <2>2, HandleItemTable
  <2>3. ASSUME NEW t \in Tokens, DropSession(t) PROVE TableInv'
    BY <1>1, <2>3, DropSessionTable
  <2>4. CASE \/ Receive \/ RecvFail \/ Rotate \/ UNCHANGED vars
             \/ \E a \in Addrs : Refill(a)
             \/ \E a \in Addrs, f \in EnvFrames : SendNew(f, a)
             \/ \E b \in sent, a \in Addrs : Replay(b, a)
             \/ \E d \in net : Lose(d)
             \/ \E t \in Tokens : SessionRecv(t) \/ SessionSend(t) \/ PollerSend(t)
    <3>1. UNCHANGED <<byToken, sess, deadQ>>
      BY <2>4 DEF Receive, RecvFail, Rotate, vars, Refill, SendNew, Replay,
                  Lose, SessionRecv, SessionSend, PollerSend
    <3>. QED
      BY <1>1, <3>1, TableUnchanged
  <2>. QED
    BY <2>1, <2>2, <2>3, <2>4
    DEF Next, ListenerStep, Environment, SessionStep, Clock
<1>. QED
  BY <1>1, <1>2, <1>3 DEF IInv, TableInv

\* An entry for a live session is never missing from by_token: the
\* listener's ClientResume (listener.rs) creates a session only together
\* with its table entry, and the entry is deleted only when the session's
\* drop hook has reported it dead on recv_dead.
THEOREM LiveSessionsRouted == Spec => []LiveSessionInTable
<1>1. IInv => LiveSessionInTable
  BY DEF IInv, TableHoldsSessions, LiveSessionInTable
<1>. QED
  BY <1>1, InitIInv, NextIInv, PTL DEF Spec

-----------------------------------------------------------------------------
(* The recent filter and replayed handshakes.                              *)

(***************************************************************************)
(* ReplayOnlyWhenForgotten is not inductive: a buffer that has created its *)
(* sessions creates another when it comes back unless the filter still     *)
(* holds it.  The strengthening counts the filter's own entry: a buffer's  *)
(* creations are at most the times the filter forgot it, plus one while   *)
(* the filter holds it.  A buffer enters the filter in the step in which   *)
(* it creates a session, and a rotation that drops it counts the drop.     *)
(***************************************************************************)
Held(i) == IF i \in filterCur \cup filterOld THEN 1 ELSE 0

FilterHoldsCreated ==
    \A i \in 1..MaxSends : creations[i] <= forgot[i] + Held(i)

ReplayIInv == TypeOK /\ FilterHoldsCreated

LEMMA InitReplayIInv == Init => ReplayIInv
BY InitTypeOK DEF Init, ReplayIInv, FilterHoldsCreated, Held

\* A decoded buffer either changes neither the filter nor the creations,
\* or is new to the filter, enters it, and creates at most one session.
LEMMA DecodedCreations ==
    ASSUME TypeOK, NEW b \in Buffers, NEW a \in Addrs, Decoded(b, a)
    PROVE  \/ UNCHANGED <<creations, filterCur>>
           \/ /\ b.id \notin filterCur \cup filterOld
              /\ filterCur' = filterCur \cup {b.id}
              /\ \/ creations' = creations
                 \/ creations' = [creations EXCEPT ![b.id] = @ + 1]
<1>1. CASE b.id \in filterCur \cup filterOld
  BY <1>1 DEF Decoded, hsVars
<1>2. CASE b.id \notin filterCur \cup filterOld /\ b.frame.kind # "Resume"
  BY <1>2 DEF Decoded, ClientHello
<1>3. CASE b.id \notin filterCur \cup filterOld /\ b.frame.kind = "Resume"
  <2>1. ClientResume(b, a)
    BY <1>3 DEF Decoded
  <2>. QED
    BY <1>3, <2>1 DEF Decoded, ClientResume
<1>. QED
  BY <1>1, <1>2, <1>3

\* One item of a batch keeps FilterHoldsCreated.
LEMMA HandleItemReplay ==
    ASSUME TypeOK, FilterHoldsCreated, NEW d \in batch, HandleItem(d)
    PROVE  FilterHoldsCreated'
<1> DEFINE b == d.buf
<1>1. d.from \in Addrs /\ b \in Buffers /\ b.id \in 1..MaxSends
  BY DEF TypeOK, Datagrams, Buffers
<1>2. filterOld' = filterOld /\ forgot' = forgot
  BY DEF HandleItem
<1>3. \/ UNCHANGED <<creations, filterCur>>
      \/ /\ b.id \notin filterCur \cup filterOld
         /\ filterCur' = filterCur \cup {b.id}
         /\ \/ creations' = creations
            \/ creations' = [creations EXCEPT ![b.id] = @ + 1]
  BY <1>1, DecodedCreations DEF HandleItem, hsVars
<1>4. CASE UNCHANGED <<creations, filterCur>>
  <2> SUFFICES ASSUME NEW i \in 1..MaxSends
               PROVE  creations'[i] <= forgot'[i] + Held(i)'
    BY DEF FilterHoldsCreated
  <2>1. Held(i)' = Held(i)
    BY <1>2, <1>4 DEF Held
  <2>. QED
    BY <1>2, <1>4, <2>1 DEF FilterHoldsCreated
<1>5. CASE /\ b.id \notin filterCur \cup filterOld
           /\ filterCur' = filterCur \cup {b.id}
           /\ \/ creations' = creations
              \/ creations' = [creations EXCEPT ![b.id] = @ + 1]
  <2> SUFFICES ASSUME NEW i \in 1..MaxSends
               PROVE  creations'[i] <= forgot'[i] + Held(i)'
    BY DEF FilterHoldsCreated
  <2>1. creations[i] <= forgot[i] + Held(i)
    BY DEF FilterHoldsCreated
  <2>2. creations \in [1..MaxSends -> Nat] /\ forgot \in [1..MaxSends -> Nat]
    BY DEF TypeOK
  <2>3. Held(b.id) = 0 /\ Held(b.id)' = 1
    BY <1>2, <1>5 DEF Held
  <2>4. CASE i = b.id
    <3>1. creations'[b.id] \in Nat /\ creations'[b.id] <= creations[b.id] + 1
      BY <1>1, <1>5, <2>2
    <3>2. creations[b.id] <= forgot[b.id]
      BY <2>1, <2>3, <2>4, <1>1, <2>2
    <3>3. creations'[b.id] <= forgot'[b.id] + Held(b.id)'
      BY <1>1, <1>2, <2>2, <2>3, <3>1, <3>2
    <3>. QED
      BY <2>4, <3>3
  <2>5. CASE i # b.id
    <3>1. Held(i)' >= Held(i)
      BY <1>2, <1>5 DEF Held
    <3>2. creations'[i] = creations[i]
      BY <1>1, <1>5, <2>2, <2>5
    <3>. QED
      BY <1>2, <2>1, <2>2, <3>1, <3>2 DEF Held
  <2>. QED
    BY <2>4, <2>5
<1>. QED
  BY <1>3, <1>4, <1>5

\* A rotation moves the current generation to the old one and drops the
\* old one; each buffer it drops has its drop counted.
LEMMA RotateReplay ==
    ASSUME TypeOK, FilterHoldsCreated, Rotate
    PROVE  FilterHoldsCreated'
<1> SUFFICES ASSUME NEW i \in 1..MaxSends
             PROVE  creations'[i] <= forgot'[i] + Held(i)'
  BY DEF FilterHoldsCreated
<1>1. creations[i] <= forgot[i] + Held(i)
  BY DEF FilterHoldsCreated
<1>2. creations[i] \in Nat /\ forgot[i] \in Nat
  BY DEF TypeOK
<1>3. creations' = creations
  BY DEF Rotate
<1>4. CASE i \in filterOld
  BY <1>1, <1>2, <1>3, <1>4 DEF Rotate, Held
<1>5. CASE i \notin filterOld
  BY <1>1, <1>2, <1>3, <1>5 DEF Rotate, Held
<1>. QED
  BY <1>4, <1>5

\* Every other step leaves the filter, the creations and the drops alone.
LEMMA NextReplay ==
    ASSUME TypeOK, FilterHoldsCreated, [Next]_vars
    PROVE  FilterHoldsCreated'
<1>1. ASSUME NEW d \in batch, HandleItem(d)
      PROVE  FilterHoldsCreated'
  BY <1>1, HandleItemReplay
<1>2. CASE Rotate
  BY <1>2, RotateReplay
<1>3. ASSUME ~\E d \in batch : HandleItem(d), ~Rotate
      PROVE  UNCHANGED <<creations, filterCur, filterOld, forgot>>
  BY <1>3
  DEF Next, ListenerStep, Environment, SessionStep, Clock, vars, SendNew,
      Replay, Lose, Receive, Reap, RecvFail, SessionRecv, SessionSend,
      PollerSend, DropSession, Refill
<1>. QED
  BY <1>1, <1>2, <1>3 DEF FilterHoldsCreated, Held

LEMMA NextReplayIInv ==
    ASSUME ReplayIInv, [Next]_vars
    PROVE  ReplayIInv'
BY NextTypeOK, NextReplay DEF ReplayIInv

\* However the network duplicates or replays a handshake buffer and however
\* often the recent filter rotates, the buffer creates a session again only
\* after a rotation dropped it, once per drop (listener.rs, the
\* RECENT_FILTER check before the ClientResume handling).
THEOREM ReplayFiltered == Spec => []ReplayOnlyWhenForgotten
<1>1. ReplayIInv => ReplayOnlyWhenForgotten
  <2> SUFFICES ASSUME ReplayIInv, NEW i \in 1..MaxSends
               PROVE  creations[i] <= 1 + forgot[i]
    BY DEF ReplayOnlyWhenForgotten
  <2>1. creations[i] <= forgot[i] + Held(i) /\ Held(i) \in {0, 1}
    BY DEF ReplayIInv, FilterHoldsCreated, Held
  <2>2. creations[i] \in Nat /\ forgot[i] \in Nat
    BY DEF ReplayIInv, TypeOK
  <2>. QED
    BY <2>1, <2>2
<1>. QED
  BY <1>1, InitReplayIInv, NextReplayIInv, PTL DEF Spec

-----------------------------------------------------------------------------
(* The session lifecycle.                                                  *)

(***************************************************************************)
(* The refinement needs no invariant beyond IInv: a reap deletes the head  *)
(* of recv_dead, which ReapQueueDropped says is a dropped session and      *)
(* TableHoldsSessions says still has its entry, so its lifecycle goes from *)
(* pending to absent; a drop hook reports a live session, which has its    *)
(* entry, so it goes from live to pending.                                 *)
(***************************************************************************)

\* What one item of a batch does to the table and the session states: at
\* most one session is created, for a token without an entry.
LEMMA HandleItemCreates ==
    ASSUME TypeOK, NEW d \in batch, HandleItem(d)
    PROVE  \/ UNCHANGED <<byToken, sess>>
           \/ \E t \in Tokens : /\ t \notin byToken
                                /\ byToken' = byToken \cup {t}
                                /\ sess' = [sess EXCEPT ![t] = "live"]
<1>1. d.from \in Addrs /\ d.buf \in Buffers
  BY DEF TypeOK, Datagrams
<1>. QED
  BY <1>1, DecodedTable DEF HandleItem, hsVars

LEMMA InitRefinesLifecycle == Init => SL!Init
BY DEF Init, SL!Init, Life

\* A new session for a token without an entry is an Accept.
LEMMA AcceptRefines ==
    ASSUME TypeOK, NEW t \in Tokens, t \notin byToken,
           byToken' = byToken \cup {t}, sess' = [sess EXCEPT ![t] = "live"]
    PROVE  SL!Accept(t)
<1>1. Life[t] = "absent"
  BY DEF Life
<1>2. Life' = [Life EXCEPT ![t] = "live"]
  BY DEF Life, TypeOK
<1>. QED
  BY <1>1, <1>2 DEF SL!Accept

\* The reap of the head of recv_dead is the Reap of that token.
LEMMA ReapRefines ==
    ASSUME TypeOK, TableInv, Reap
    PROVE  /\ Head(deadQ) \in Tokens
           /\ SL!Reap(Head(deadQ))
<1> DEFINE h == Head(deadQ)
<1>1. h \in Range(deadQ) /\ h \in Tokens
  BY DEF Reap, TypeOK, Range
<1>2. sess[h] = "dropped" /\ h \in byToken
  BY <1>1 DEF TableInv, ReapQueueDropped, TableHoldsSessions
<1>3. byToken' = byToken \ {h} /\ sess' = sess
  BY DEF Reap, Delete
<1>4. Life[h] = "pending"
  BY <1>1, <1>2 DEF Life
<1>5. Life' = [Life EXCEPT ![h] = "absent"]
  BY <1>1, <1>3 DEF Life
<1>. QED
  BY <1>1, <1>4, <1>5 DEF SL!Reap

\* The drop hook's report of a live session is its Drop.
LEMMA DropRefines ==
    ASSUME TypeOK, TableInv, NEW t \in Tokens, DropSession(t)
    PROVE  SL!Drop(t)
<1>1. t \in byToken
  BY DEF DropSession, TableInv, TableHoldsSessions
<1>2. byToken' = byToken /\ sess' = [sess EXCEPT ![t] = "dropped"]
  BY DEF DropSession
<1>3. Life[t] = "live"
  BY <1>1 DEF DropSession, Life
<1>4. Life' = [Life EXCEPT ![t] = "pending"]
  BY <1>1, <1>2 DEF Life, TypeOK
<1>. QED
  BY <1>3, <1>4 DEF SL!Drop

\* Every step of the listener is a step of the lifecycle or leaves it alone.
LEMMA NextRefinesLifecycle ==
    ASSUME IInv, [Next]_vars
    PROVE  [SL!Next]_Life
<1>1. TypeOK /\ TableInv
  BY DEF IInv, TableInv
<1>2. CASE Reap
  BY <1>1, <1>2, ReapRefines DEF SL!Next
<1>3. ASSUME NEW d \in batch, HandleItem(d) PROVE [SL!Next]_Life
  <2>1. CASE UNCHANGED <<byToken, sess>>
    BY <2>1 DEF Life
  <2>2. ASSUME NEW t \in Tokens, t \notin byToken,
               byToken' = byToken \cup {t}, sess' = [sess EXCEPT ![t] = "live"]
        PROVE  [SL!Next]_Life
    BY <1>1, <2>2, AcceptRefines DEF SL!Next
  <2>. QED
    BY <1>1, <1>3, <2>1, <2>2, HandleItemCreates
<1>4. ASSUME NEW t \in Tokens, DropSession(t) PROVE [SL!Next]_Life
  BY <1>1, <1>4, DropRefines DEF SL!Next
<1>5. CASE \/ Receive \/ RecvFail \/ Rotate \/ UNCHANGED vars
           \/ \E a \in Addrs : Refill(a)
           \/ \E a \in Addrs, f \in EnvFrames : SendNew(f, a)
           \/ \E b \in sent, a \in Addrs : Replay(b, a)
           \/ \E d \in net : Lose(d)
           \/ \E t \in Tokens : SessionRecv(t) \/ SessionSend(t) \/ PollerSend(t)
  <2>1. UNCHANGED <<byToken, sess>>
    BY <1>5 DEF Receive, RecvFail, Rotate, vars, Refill, SendNew, Replay,
                Lose, SessionRecv, SessionSend, PollerSend
  <2>. QED
    BY <2>1 DEF Life
<1>. QED
  BY <1>2, <1>3, <1>4, <1>5
  DEF Next, ListenerStep, Environment, SessionStep, Clock

\* The listener implements the session lifecycle (listener.rs: the
\* ClientResume branch of the handshake path, the drop hook and the
\* DeadSess arm of the event loop): a session is built only for a token
\* without a table entry, and an entry goes only after its session was
\* reported dropped, once.
THEOREM ListenerRefinesLifecycle == Spec => SessionRefinement
<1>1. IInv /\ [Next]_vars => [SL!Next]_Life
  BY NextRefinesLifecycle
<1>. QED
  BY <1>1, InitIInv, NextIInv, InitRefinesLifecycle, PTL
  DEF Spec, SessionRefinement, SL!Spec

=============================================================================
