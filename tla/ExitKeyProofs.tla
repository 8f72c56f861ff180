--------------------------- MODULE ExitKeyProofs ----------------------------
(***************************************************************************)
(* Proof that an exit running as root changes its identity only through    *)
(* I/O errors of its key file, for every set of keys and every bound on    *)
(* restarts and faults that satisfies ExitKeyAssumption: deaths at any     *)
(* point of start-up, torn writes and failed binder requests never make it *)
(* come up with a second key.                                              *)
(***************************************************************************)
EXTENDS ExitKey, FiniteSetTheorems, TLAPS

USE ExitKeyAssumption

PCs == {"down", "gen", "written", "keyed", "up", "failed"}

KeyTypeOK ==
    /\ file \in [key : Keys \cup {NoKey}, mode : Nat]
    /\ pc \in PCs
    /\ mem \in Keys \cup {NoKey}
    /\ used \subseteq Keys
    /\ announced \subseteq Keys
    /\ restarts \in 0..MaxRestarts
    /\ faults \in 0..MaxFaults

\* The key the file holds, if it holds one.
Disk == IF file.key \in Keys THEN {file.key} ELSE {}

\* The key start-up holds and has not yet served with.
Pend == IF pc \in {"gen", "written", "keyed"} THEN {mem} ELSE {}

\* Every key the exit has served with or may still serve with.
Known == announced \cup Disk \cup Pend

(***************************************************************************)
(* IdentityLostOnlyByFaults is not inductive: a start that finds no key    *)
(* file generates a key, and nothing in the property says that the file   *)
(* is absent only if the keys served so far were paid for by faults.  The *)
(* strengthening counts every key that is served or may still be served   *)
(* (Known), and says that while neither the file nor start-up holds a key, *)
(* every key served so far was paid for by a fault.  A generated key is    *)
(* paid for by the absent file or by the fault of the read, and root can   *)
(* always write it back.                                                  *)
(***************************************************************************)
IInv ==
    /\ KeyTypeOK
    /\ pc \in {"gen", "written", "keyed"} => mem \in Keys
    /\ pc = "written" => file.key = mem
    /\ Cardinality(Known) <= 1 + faults
    /\ Disk = {} /\ pc # "gen" => Cardinality(announced \cup Pend) <= faults
    /\ pc = "gen" => Cardinality(announced) <= faults

\* A set of keys is no larger than a set of keys that contains it.
LEMMA CardSub ==
    ASSUME NEW A, NEW B, B \subseteq Keys, A \subseteq B
    PROVE  Cardinality(A) <= Cardinality(B)
<1>1. IsFiniteSet(B)
  BY FS_Subset
<1>. QED
  BY <1>1, FS_Subset

\* Adding a key to a set of keys adds at most one.
LEMMA CardAdd ==
    ASSUME NEW A, NEW x, A \subseteq Keys
    PROVE  /\ Cardinality(A \cup {x}) <= Cardinality(A) + 1
           /\ Cardinality(A) \in Nat
<1>1. IsFiniteSet(A)
  BY FS_Subset
<1>2. Cardinality(A) \in Nat
  BY <1>1, FS_CardinalityType
<1>3. Cardinality(A \cup {x}) = IF x \in A THEN Cardinality(A) ELSE Cardinality(A) + 1
  BY <1>1, FS_AddElement
<1>. QED
  BY <1>2, <1>3

LEMMA KnownKeys ==
    ASSUME IInv
    PROVE  /\ Known \subseteq Keys
           /\ announced \cup Pend \subseteq Keys
           /\ Cardinality(announced) \in Nat
           /\ Cardinality(Known) \in Nat
           /\ Cardinality(announced \cup Pend) \in Nat
           /\ faults \in Nat
<1>1. Known \subseteq Keys /\ announced \cup Pend \subseteq Keys
  BY DEF IInv, KeyTypeOK, Known, Disk, Pend
<1>2. announced \subseteq Keys /\ faults \in Nat
  BY DEF IInv, KeyTypeOK
<1>. QED
  BY <1>1, <1>2, CardAdd

LEMMA InitIInv == Init => IInv
<1> SUFFICES ASSUME Init PROVE IInv
  OBVIOUS
<1>1. Known = {} /\ announced \cup Pend = {} /\ Disk = {}
  BY DEF Init, Known, Disk, Pend, Absent
<1>. QED
  BY <1>1, FS_EmptySet DEF Init, IInv, KeyTypeOK, PCs, Absent


LEMMA ReadKeyIInv ==
    ASSUME RunAsRoot, IInv, ReadKey
    PROVE  IInv'
<1>0. /\ pc = "down" /\ Pend = {}
      /\ UNCHANGED <<file, announced, restarts>>
      /\ Disk' = Disk
      /\ KeyTypeOK /\ faults \in Nat
      /\ Known \subseteq Keys
      /\ Cardinality(announced) \in Nat /\ Cardinality(Known) \in Nat
  <2>1. pc = "down" /\ UNCHANGED <<file, announced, restarts>>
    BY DEF ReadKey
  <2>2. Pend = {} /\ Disk' = Disk
    BY <2>1 DEF Pend, Disk
  <2>3. KeyTypeOK /\ faults \in Nat
    BY DEF IInv, KeyTypeOK
  <2>. QED
    BY <2>1, <2>2, <2>3, KnownKeys, CardAdd
<1>1. CASE /\ CanRead /\ file.key # Garbage
          /\ mem' = file.key /\ pc' = "keyed"
          /\ UNCHANGED <<used, faults>>
  <2>1. file.key \in Keys
    BY <1>1 DEF IInv, KeyTypeOK, Garbage
  <2>2. mem' = file.key /\ pc' = "keyed" /\ faults' = faults
    BY <1>1
  <2>3. Known' = Known /\ Disk # {}
    BY <1>0, <2>1, <2>2 DEF Known, Pend, Disk
  <2>. QED
    BY <1>0, <1>1, <2>1, <2>2, <2>3 DEF ReadKey, IInv, KeyTypeOK, PCs
<1>2. CASE /\ CanRead /\ file.key = Garbage
          /\ pc' = "failed"
          /\ UNCHANGED <<mem, used, faults>>
  <2>1. pc' = "failed" /\ faults' = faults /\ UNCHANGED <<mem, used>>
    BY <1>2
  <2>2. Pend' = {} /\ Disk = {}
    BY <1>2, <2>1 DEF Pend, Disk, Garbage, ExitKeyAssumption
  <2>3. Known' = Known /\ announced' \cup Pend' = announced \cup Pend
    BY <1>0, <2>2 DEF Known
  <2>4. KeyTypeOK'
    BY <1>0, <1>2, <2>1 DEF IInv, KeyTypeOK, PCs
  <2>5. Cardinality(announced' \cup Pend') <= faults'
    BY <1>0, <2>1, <2>2, <2>3 DEF IInv
  <2>. QED
    BY <1>0, <2>1, <2>3, <2>4, <2>5 DEF IInv
<1>3. ASSUME NEW k \in Keys \ used,
             mem' = k, used' = used \cup {k}, pc' = "gen"
      PROVE  Known' = Known \cup {k}
  <2>1. Pend' = {k}
    BY <1>3 DEF Pend
  <2>. QED
    BY <1>0, <2>1 DEF Known
<1>4. CASE ~CanRead /\ Generate /\ UNCHANGED faults
  <2>1. PICK k \in Keys \ used : mem' = k /\ used' = used \cup {k} /\ pc' = "gen"
    BY <1>4 DEF Generate
  <2>2. Disk = {}
    BY <1>4 DEF CanRead, Disk, Absent, ExitKeyAssumption
  <2>3. Cardinality(announced) <= faults
    BY <1>0, <2>2 DEF IInv
  <2>8. Known' = Known \cup {k}
    BY <1>3, <2>1
  <2>4. Known' = announced \cup {k}
    BY <1>0, <2>2, <2>8 DEF Known
  <2>5. Cardinality(announced \cup {k}) <= Cardinality(announced) + 1
    BY CardAdd DEF IInv, KeyTypeOK
  <2>6. KeyTypeOK'
    BY <1>0, <1>4, <2>1 DEF IInv, KeyTypeOK, PCs
  <2>9. Cardinality(announced \cup {k}) \in Nat
    BY <1>0, CardAdd DEF KeyTypeOK
  <2>7. Cardinality(Known') <= 1 + faults'
    BY <1>0, <1>4, <2>3, <2>4, <2>5, <2>9
  <2>. QED
    BY <1>0, <1>4, <2>1, <2>3, <2>6, <2>7 DEF IInv
<1>5. CASE CanRead /\ Fault /\ Generate /\ faults' = faults + 1
  <2>1. PICK k \in Keys \ used : mem' = k /\ used' = used \cup {k} /\ pc' = "gen"
    BY <1>5 DEF Generate
  <2>2. Cardinality(Known \cup {k}) <= Cardinality(Known) + 1
    BY <1>0, CardAdd
  <2>3. Cardinality(announced) <= Cardinality(Known)
    BY <1>0, CardSub DEF Known
  <2>4. KeyTypeOK'
    BY <1>0, <1>5, <2>1 DEF IInv, KeyTypeOK, PCs, Fault
  <2>5. Cardinality(Known) <= 1 + faults
    BY DEF IInv
  <2>8. Known' = Known \cup {k}
    BY <1>3, <2>1
  <2>9. Cardinality(Known \cup {k}) \in Nat
    BY <1>0, CardAdd
  <2>6. Cardinality(Known') <= 1 + faults'
    BY <1>0, <1>5, <2>2, <2>5, <2>8, <2>9
  <2>7. Cardinality(announced') <= faults'
    BY <1>0, <1>5, <2>3, <2>5
  <2>. QED
    BY <2>1, <2>4, <2>6, <2>7 DEF IInv
<1>. QED
  BY <1>1, <1>2, <1>4, <1>5 DEF ReadKey


LEMMA WriteKeyIInv ==
    ASSUME RunAsRoot, IInv, WriteKey
    PROVE  IInv'
<1>0. /\ pc = "gen" /\ mem \in Keys /\ Pend = {mem}
      /\ UNCHANGED <<mem, used, announced, restarts>>
      /\ KeyTypeOK /\ faults \in Nat
      /\ Cardinality(announced) <= faults
      /\ Cardinality(announced) \in Nat
      /\ Cardinality(announced \cup {mem}) \in Nat
      /\ Cardinality(announced \cup {mem}) <= Cardinality(announced) + 1
  <2>1. pc = "gen" /\ UNCHANGED <<mem, used, announced, restarts>>
    BY DEF WriteKey
  <2>2. mem \in Keys /\ Pend = {mem} /\ Cardinality(announced) <= faults
    BY <2>1 DEF IInv, Pend
  <2>3. KeyTypeOK /\ faults \in Nat
    BY DEF IInv, KeyTypeOK
  <2>4. /\ Cardinality(announced) \in Nat
        /\ Cardinality(announced \cup {mem}) \in Nat
        /\ Cardinality(announced \cup {mem}) <= Cardinality(announced) + 1
    BY <2>2, <2>3, CardAdd DEF KeyTypeOK
  <2>. QED
    BY <2>1, <2>2, <2>3, <2>4
<1>1. Written(mem) \in [key : Keys \cup {NoKey}, mode : Nat]
  BY <1>0 DEF Written, KeyTypeOK, CreateMode
<1>2. CASE CanWrite /\ file' = Written(mem) /\ pc' = "written" /\ UNCHANGED faults
  <2>1. Disk' = {mem} /\ Pend' = {mem}
    BY <1>0, <1>2 DEF Disk, Pend, Written
  <2>2. Known' = announced \cup {mem}
    BY <1>0, <2>1 DEF Known
  <2>3. KeyTypeOK'
    BY <1>0, <1>1, <1>2 DEF KeyTypeOK, PCs
  <2>6. Cardinality(Known') = Cardinality(announced \cup {mem})
    BY <2>2
  <2>4. Cardinality(Known') <= 1 + faults'
    BY <1>0, <1>2, <2>6
  <2>5. file'.key = mem' /\ Disk' # {}
    BY <1>0, <1>2, <2>1 DEF Written
  <2>. QED
    BY <1>0, <1>2, <2>3, <2>4, <2>5 DEF IInv
<1>3. CASE ~CanWrite
  BY <1>3 DEF CanWrite
<1>4. CASE /\ CanWrite /\ Fault
           /\ file' \in {file, Written(Garbage)}
           /\ pc' = "keyed"
           /\ faults' = faults + 1
  <2>1. Written(Garbage) \in [key : Keys \cup {NoKey}, mode : Nat]
    BY <1>0 DEF Written, KeyTypeOK, CreateMode, Garbage
  <2>2. Disk' \subseteq Disk /\ Pend' = {mem}
    BY <1>0, <1>4 DEF Disk, Pend, Written, Garbage
  <2>3. Known' \subseteq Known /\ Known \subseteq Keys
    BY <1>0, <2>2, KnownKeys DEF Known
  <2>4. Cardinality(Known') <= Cardinality(Known) /\ Cardinality(Known) <= 1 + faults
    BY <2>3, CardSub DEF IInv
  <2>5. Cardinality(Known') \in Nat
    BY <2>3, CardAdd
  <2>8. announced' \cup Pend' = announced \cup {mem}
    BY <1>0, <2>2
  <2>9. Cardinality(announced' \cup Pend') = Cardinality(announced \cup {mem})
    BY <2>8
  <2>10. Cardinality(announced \cup {mem}) <= faults + 1
    BY <1>0
  <2>6. Cardinality(announced' \cup Pend') <= faults'
    BY <1>4, <2>9, <2>10
  <2>7. KeyTypeOK'
    BY <1>0, <1>4, <2>1 DEF KeyTypeOK, PCs, Fault
  <2>12. Cardinality(Known) \in Nat
    BY <2>3, CardAdd
  <2>11. Cardinality(Known') <= 1 + faults'
    BY <1>0, <1>4, <2>4, <2>5, <2>12
  <2>. QED
    BY <1>0, <1>4, <2>6, <2>7, <2>11 DEF IInv
<1>. QED
  BY <1>2, <1>3, <1>4 DEF WriteKey


LEMMA TornWriteIInv ==
    ASSUME IInv, TornWrite
    PROVE  IInv'
<1>1. /\ pc = "gen" /\ pc' = "down"
      /\ file' = Written(Garbage)
      /\ UNCHANGED <<announced, faults>>
  BY DEF TornWrite
<1>2. Disk' = {} /\ Pend' = {}
  BY <1>1 DEF Disk, Pend, Written, Garbage
<1>3. Known' = announced /\ announced' \cup Pend' = announced
  BY <1>1, <1>2 DEF Known
<1>4. Cardinality(announced) <= faults /\ faults \in Nat
  BY <1>1 DEF IInv, KeyTypeOK
<1>5. KeyTypeOK'
  BY <1>1 DEF TornWrite, IInv, KeyTypeOK, PCs, Written, Garbage, CreateMode
<1>. QED
  BY <1>1, <1>3, <1>4, <1>5, KnownKeys DEF IInv

LEMMA SetPermsIInv ==
    ASSUME IInv, SetPerms
    PROVE  IInv'
<1>1. /\ pc = "written" /\ mem \in Keys /\ file.key = mem
      /\ UNCHANGED <<mem, announced, faults>>
      /\ file'.key = file.key
      /\ pc' \in {"keyed", "failed"}
  BY DEF SetPerms, IInv, KeyTypeOK
<1>2. Disk' = {mem} /\ Disk = {mem} /\ Pend = {mem}
  BY <1>1 DEF Disk, Pend
<1>3. Known' \subseteq Known /\ Known \subseteq Keys
  BY <1>1, <1>2, KnownKeys DEF Known, Pend
<1>4. /\ Cardinality(Known') <= Cardinality(Known)
      /\ Cardinality(Known) <= 1 + faults
      /\ Cardinality(Known') \in Nat
  BY <1>3, CardSub, CardAdd DEF IInv
<1>5. KeyTypeOK'
  BY <1>1 DEF SetPerms, IInv, KeyTypeOK, PCs, KeyMode
<1>. QED
  BY <1>1, <1>2, <1>4, <1>5, KnownKeys DEF IInv

LEMMA ServeIInv ==
    ASSUME IInv, Serve
    PROVE  IInv'
<1>1. /\ pc = "keyed" /\ mem \in Keys /\ Pend = {mem}
      /\ UNCHANGED <<file, mem, faults>>
      /\ pc' \in {"up", "failed"} /\ Pend' = {}
      /\ announced' \in {announced, announced \cup {mem}}
  BY DEF Serve, IInv, Pend
<1>2. Known' \subseteq Known /\ Known \subseteq Keys /\ Disk' = Disk
  BY <1>1, KnownKeys DEF Known, Disk
<1>3. announced' \cup Pend' \subseteq announced \cup Pend
      /\ announced \cup Pend \subseteq Keys
  BY <1>1, KnownKeys
<1>4. /\ Cardinality(Known') <= Cardinality(Known)
      /\ Cardinality(announced' \cup Pend') <= Cardinality(announced \cup Pend)
  BY <1>2, <1>3, CardSub
<1>7. Cardinality(Known') \in Nat /\ Cardinality(announced' \cup Pend') \in Nat
  BY <1>2, <1>3, CardAdd
<1>5. KeyTypeOK'
  BY <1>1 DEF Serve, IInv, KeyTypeOK, PCs
<1>6. Cardinality(Known) <= 1 + faults
      /\ (Disk = {} => Cardinality(announced \cup Pend) <= faults)
  BY <1>1 DEF IInv
<1>. QED
  BY <1>1, <1>2, <1>4, <1>5, <1>6, <1>7, KnownKeys DEF IInv

LEMMA RestartIInv ==
    ASSUME IInv, Restart
    PROVE  IInv'
<1>1. /\ pc # "down" /\ pc' = "down"
      /\ UNCHANGED <<file, announced, faults>>
      /\ Pend' = {} /\ Disk' = Disk
  BY DEF Restart, Pend, Disk
<1>2. Known' \subseteq Known /\ Known \subseteq Keys
  BY <1>1, KnownKeys DEF Known
<1>3. Cardinality(Known') <= Cardinality(Known) /\ Cardinality(Known') \in Nat
  BY <1>2, CardSub, CardAdd
<1>4. Disk = {} => Cardinality(announced) <= faults
  <2>1. announced \subseteq announced \cup Pend /\ announced \cup Pend \subseteq Keys
    BY KnownKeys
  <2>2. Cardinality(announced) <= Cardinality(announced \cup Pend)
    BY <2>1, CardSub
  <2>3. CASE pc = "gen"
    BY <2>3 DEF IInv
  <2>4. CASE pc # "gen"
    BY <2>2, <2>4, KnownKeys DEF IInv
  <2>. QED
    BY <2>3, <2>4
<1>5. KeyTypeOK'
  BY <1>1 DEF Restart, IInv, KeyTypeOK, PCs
<1>. QED
  BY <1>1, <1>3, <1>4, <1>5, KnownKeys DEF IInv

LEMMA RelaunchIInv ==
    ASSUME IInv, Relaunch
    PROVE  IInv'
<1>1. Known' = Known /\ announced' \cup Pend' = announced \cup Pend /\ Disk' = Disk
  BY DEF Relaunch, Known, Pend, Disk
<1>. QED
  BY <1>1 DEF Relaunch, IInv, KeyTypeOK, PCs

LEMMA NextIInv ==
    ASSUME RunAsRoot, IInv, [Next]_vars
    PROVE  IInv'
<1>1. CASE ReadKey     BY <1>1, ReadKeyIInv
<1>2. CASE WriteKey    BY <1>2, WriteKeyIInv
<1>3. CASE SetPerms    BY <1>3, SetPermsIInv
<1>4. CASE Serve       BY <1>4, ServeIInv
<1>5. CASE TornWrite   BY <1>5, TornWriteIInv
<1>6. CASE Restart     BY <1>6, RestartIInv
<1>7. CASE Relaunch    BY <1>7, RelaunchIInv
<1>8. CASE Run \/ UNCHANGED vars
  <2>1. Known' = Known /\ announced' \cup Pend' = announced \cup Pend /\ Disk' = Disk
    BY <1>8 DEF Run, vars, Known, Pend, Disk
  <2>. QED
    BY <1>8, <2>1 DEF Run, vars, IInv, KeyTypeOK
<1>. QED
  BY <1>1, <1>2, <1>3, <1>4, <1>5, <1>6, <1>7, <1>8 DEF Next

\* The keys served are among the keys Known.
LEMMA IInvBound == IInv => IdentityLostOnlyByFaults
<1> SUFFICES ASSUME IInv PROVE Cardinality(announced) <= 1 + faults
  BY DEF IdentityLostOnlyByFaults
<1>1. announced \subseteq Known /\ Known \subseteq Keys
  BY KnownKeys DEF Known
<1>2. Cardinality(announced) <= Cardinality(Known)
  BY <1>1, CardSub
<1>3. Cardinality(announced) \in Nat /\ Cardinality(Known) \in Nat /\ faults \in Nat
  BY KnownKeys
<1>. QED
  BY <1>2, <1>3 DEF IInv

\* An exit that runs as root comes up with a second signing key only after
\* an I/O error of the read or the write of its key file, and with at most
\* one new key per error: deaths at any point of start-up, inside the key
\* file's write included, and failed binder requests never change its
\* identity (main.rs, the read-or-generate of signing_sk).
THEOREM RootIdentityStable ==
    ASSUME RunAsRoot
    PROVE  Spec => []IdentityLostOnlyByFaults
<1>1. Init => IInv
  BY InitIInv
<1>2. IInv /\ [Next]_vars => IInv'
  BY NextIInv
<1>. QED
  BY <1>1, <1>2, IInvBound, PTL DEF Spec

=============================================================================
