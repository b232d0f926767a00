--------------------------- MODULE KeyIndexProofs ---------------------------
(***************************************************************************)
(* For every number of keys, processes and indices: when process ids are   *)
(* not recycled and no process forks between XMSS update() and sign(), no  *)
(* one-time index is ever used twice.                                      *)
(*                                                                         *)
(* The argument: a key can be used only in the process that generated it,  *)
(* its home.  In any other process either the registry or the key object   *)
(* carries the id of an earlier process (HomeInv), because a fork gives    *)
(* the child an id that no stamp can have (StampInv).  At home the counter *)
(* is above every index that has been signed with or is reserved           *)
(* (CountInv).                                                             *)
(***************************************************************************)
EXTENDS KeyIndexRegistry, TLAPS

\* The registry was constructed in another process.
Foreign(p) == regPid[p] # NoRegistry /\ regPid[p] # pid[p]

StampInv ==
  \A p \in started :
    /\ pid[p] \in usedPids
    /\ regPid[p] \in usedPids \cup {NoRegistry}
    /\ \A k \in Keys : objects[p][k] \subseteq usedPids

HomeInv ==
  /\ \A k \in Keys : home[k] \in started \cup {NoProc}
  /\ \A p \in started, k \in Keys :
       /\ saved[p][k] # {} => regPid[p] # NoRegistry
       /\ home[k] # p => /\ \A s \in objects[p][k] : s # pid[p] \/ Foreign(p)
                         /\ saved[p][k] # {} => Foreign(p)

CountInv ==
  \A k \in Keys :
    /\ issuers[k] \subseteq {home[k]}
    /\ \A i \in Indices : /\ uses[k][i] <= 1
                          /\ uses[k][i] > 0 => /\ home[k] \in Procs
                                               /\ i < index[home[k]][k]
    /\ \A p \in started : \A i \in ops[p][k] :
         p = home[k] /\ uses[k][i] = 0 /\ i < index[p][k]

Inv == TypeOK /\ StampInv /\ HomeInv /\ CountInv

-----------------------------------------------------------------------------

LEMMA InitInv == Init => Inv
<1> SUFFICES ASSUME Init PROVE Inv
  OBVIOUS
<1>1. PICK p \in Procs, n \in Pids :
        live = {p} /\ started = {p} /\ pid = [q \in Procs |-> n] /\ usedPids = {n}
  BY DEF Init
<1>2. TypeOK
  BY <1>1, KeyIndexAssumption DEF Init, TypeOK
<1>3. StampInv
  BY <1>1 DEF Init, StampInv
<1>4. HomeInv
  BY <1>1 DEF Init, HomeInv
<1>5. CountInv
  <2>1. \A k \in Keys, i \in Indices : uses[k][i] = 0
    BY DEF Init
  <2>2. \A q \in started, k \in Keys : ops[q][k] = {}
    BY <1>1 DEF Init
  <2>3. \A k \in Keys : issuers[k] = {}
    BY DEF Init
  <2>4. \A k \in Keys, i \in Indices : uses[k][i] <= 1 /\ ~(uses[k][i] > 0)
    BY <2>1
  <2> QED
    BY <2>2, <2>3, <2>4, Zenon DEF CountInv
<1> QED
  BY <1>2, <1>3, <1>4, <1>5 DEF Inv

\* A key object that is not refused is at home.
LEMMA UsableAtHome ==
  ASSUME Inv, NEW p \in live, NEW k \in Keys, NEW s \in objects[p][k],
         ~ForkDetected(p, s)
  PROVE  home[k] = p
<1>1. s = pid[p] /\ RegistryPid(p) = pid[p] /\ p \in started
  BY DEF ForkDetected, Inv, TypeOK
<1>2. ~Foreign(p)
  BY <1>1 DEF RegistryPid, Foreign
<1> QED
  BY <1>1, <1>2 DEF Inv, HomeInv

\* A serialised copy can be loaded at home only.
LEMMA LoadableAtHome ==
  ASSUME Inv, NEW p \in live, NEW k \in Keys, saved[p][k] # {},
         ~ForkDetected(p, pid[p])
  PROVE  home[k] = p
<1>1. RegistryPid(p) = pid[p] /\ p \in started
  BY DEF ForkDetected, Inv, TypeOK
<1>2. ~Foreign(p)
  BY <1>1 DEF RegistryPid, Foreign
<1> QED
  BY <1>1, <1>2 DEF Inv, HomeInv

\* An access to the registry changes nothing that the invariant depends on.
LEMMA LookupKeeps ==
  ASSUME Inv, NEW p \in live, NEW s, Lookup(p, s),
         UNCHANGED <<procs, home>>
  PROVE  /\ regPid' \in [Procs -> Pids \cup {NoRegistry}]
         /\ latched' \in [Procs -> BOOLEAN]
         /\ p \in started /\ regPid'[p] # NoRegistry
         /\ \A q \in started : /\ regPid'[q] \in usedPids \cup {NoRegistry}
                               /\ regPid[q] # NoRegistry => regPid'[q] = regPid[q]
                               /\ Foreign(q) => Foreign(q)'
<1>1. p \in started /\ p \in Procs /\ pid[p] \in Pids /\ pid[p] \in usedPids
      /\ pid[p] # NoRegistry
  BY KeyIndexAssumption DEF Inv, TypeOK, StampInv
<1>2. regPid' = [regPid EXCEPT ![p] = RegistryPid(p)]
      /\ RegistryPid(p) \in {pid[p], regPid[p]}
      /\ (regPid[p] # NoRegistry => RegistryPid(p) = regPid[p])
      /\ RegistryPid(p) # NoRegistry
  BY <1>1 DEF Lookup, RegistryPid
<1>3. regPid' \in [Procs -> Pids \cup {NoRegistry}]
  BY <1>1, <1>2 DEF Inv, TypeOK
<1>4. latched' \in [Procs -> BOOLEAN]
  BY <1>1 DEF Lookup, ForkDetected, Inv, TypeOK
<1>5. ASSUME NEW q \in started
      PROVE  /\ regPid'[q] \in usedPids \cup {NoRegistry}
             /\ regPid[q] # NoRegistry => regPid'[q] = regPid[q]
  <2>1. q \in Procs /\ regPid[q] \in usedPids \cup {NoRegistry}
    BY DEF Inv, TypeOK, StampInv
  <2> QED
    BY <1>1, <1>2, <2>1 DEF Inv, TypeOK
<1>6. regPid'[p] # NoRegistry
  BY <1>1, <1>2 DEF Inv, TypeOK
<1> QED
  BY <1>1, <1>3, <1>4, <1>5, <1>6 DEF Foreign, procs

-----------------------------------------------------------------------------

LEMMA GenerateInv ==
  ASSUME Inv, NEW p \in live, NEW k \in Keys, Generate(p, k)
  PROVE  Inv'
<1> USE DEF Inv, Generate, procs, reg
<1>1. p \in started /\ p \in Procs /\ pid[p] \in usedPids /\ pid[p] \in Pids /\ p # NoProc
  BY KeyIndexAssumption DEF TypeOK, StampInv
<1>2. TypeOK'
  BY <1>1 DEF TypeOK
<1>3. StampInv'
  BY <1>1 DEF TypeOK, StampInv
<1>4. HomeInv'
  <2>1. /\ home'[k] = p /\ \A l \in Keys : l # k => home'[l] = home[l]
        /\ \A q \in started, l \in Keys : ~(q = p /\ l = k) => objects'[q][l] \subseteq objects[q][l]
    BY <1>1 DEF TypeOK
  <2>2. ASSUME NEW q \in started, q # p PROVE home[k] # q /\ objects'[q][k] = objects[q][k]
    BY <2>2, <1>1, KeyIndexAssumption DEF TypeOK
  <2>3. \A l \in Keys : home'[l] \in started \cup {NoProc}
    BY <1>1, <2>1 DEF HomeInv
  <2>4. ASSUME NEW q \in started, NEW l \in Keys, home'[l] # q
        PROVE  /\ \A s \in objects'[q][l] : s # pid[q] \/ Foreign(q)
               /\ saved[q][l] # {} => Foreign(q)
    <3>1. home[l] # q /\ ~(q = p /\ l = k)
      BY <2>1, <2>2, <2>4
    <3> QED
      BY <2>1, <3>1 DEF HomeInv
  <2> QED
    BY <2>3, <2>4 DEF HomeInv, Foreign
<1>5. CountInv'
  <2>1. uses[k] = [i \in Indices |-> uses[k][i]] /\ \A i \in Indices : uses[k][i] \in Nat
    BY DEF TypeOK
  <2>2. \A i \in Indices : ~(uses[k][i] > 0)
    BY KeyIndexAssumption DEF CountInv
  <2>3. issuers[k] = {}
    BY KeyIndexAssumption DEF CountInv, TypeOK
  <2>4. \A q \in started : ops[q][k] = {}
    BY KeyIndexAssumption DEF CountInv, TypeOK
  <2> QED
    BY <1>1, <2>2, <2>3, <2>4 DEF CountInv, TypeOK
<1> QED
  BY <1>2, <1>3, <1>4, <1>5

LEMMA QueryInv ==
  ASSUME Inv, NEW p \in live, NEW k \in Keys, Query(p, k)
  PROVE  Inv'
<1> USE DEF Inv, procs
<1>1. PICK s : Lookup(p, s)
  BY DEF Query
<1>2. UNCHANGED <<procs, index, objects, saved, ops, home, issuers, uses>>
  BY DEF Query
<1>3. TypeOK'
  BY <1>1, <1>2, LookupKeeps DEF TypeOK
<1>4. StampInv'
  BY <1>1, <1>2, LookupKeeps DEF StampInv
<1>5. HomeInv'
  BY <1>1, <1>2, LookupKeeps DEF HomeInv
<1>6. CountInv'
  BY <1>2 DEF CountInv
<1> QED
  BY <1>3, <1>4, <1>5, <1>6

LEMMA SaveInv ==
  ASSUME Inv, NEW p \in live, NEW k \in Keys, Save(p, k)
  PROVE  Inv'
<1> USE DEF Inv, procs
<1>1. PICK s \in objects[p][k] : ~ForkDetected(p, s) /\ Lookup(p, s)
  BY DEF Save
<1>2. UNCHANGED <<procs, index, objects, ops, home, issuers, uses>>
      /\ saved' = [saved EXCEPT ![p][k] = @ \cup {index[p][k]}]
  BY DEF Save
<1>3. home[k] = p
  BY <1>1, UsableAtHome
<1>4. p \in Procs /\ index[p][k] \in 0..MaxOps
  BY DEF TypeOK
<1>5. TypeOK'
  BY <1>1, <1>2, <1>4, LookupKeeps DEF TypeOK
<1>6. StampInv'
  BY <1>1, <1>2, LookupKeeps DEF StampInv
<1>7. HomeInv'
  <2>1. ASSUME NEW q \in started, NEW l \in Keys, ~(q = p /\ l = k)
        PROVE  saved'[q][l] = saved[q][l]
    BY <1>2, <2>1 DEF TypeOK
  <2> QED
    BY <1>1, <1>2, <1>3, <2>1, LookupKeeps DEF HomeInv
<1>8. CountInv'
  BY <1>2 DEF CountInv
<1> QED
  BY <1>5, <1>6, <1>7, <1>8

LEMMA LoadInv ==
  ASSUME Inv, NEW p \in live, NEW k \in Keys, Load(p, k)
  PROVE  Inv'
<1> USE DEF Inv, procs
<1>1. PICK i \in saved[p][k] : index' = [index EXCEPT ![p][k] = LowerBound(@, i)]
  BY DEF Load
<1>2. /\ ~ForkDetected(p, pid[p]) /\ Lookup(p, pid[p])
      /\ objects' = [objects EXCEPT ![p][k] = @ \cup {pid[p]}]
      /\ UNCHANGED <<procs, saved, ops, home, issuers, uses>>
  BY DEF Load
<1>3. home[k] = p
  BY <1>1, <1>2, LoadableAtHome
<1>4. p \in Procs /\ pid[p] \in Pids /\ i \in 0..MaxOps /\ index[p][k] \in 0..MaxOps
  BY <1>1 DEF TypeOK
<1>5. LowerBound(index[p][k], i) \in 0..MaxOps /\ LowerBound(index[p][k], i) >= index[p][k]
  BY <1>4 DEF LowerBound
<1>6. TypeOK'
  BY <1>1, <1>2, <1>4, <1>5, LookupKeeps DEF TypeOK
<1>7. ASSUME NEW q \in started, NEW l \in Keys, ~(q = p /\ l = k)
      PROVE  objects'[q][l] = objects[q][l] /\ index'[q][l] = index[q][l]
  BY <1>1, <1>2, <1>7 DEF TypeOK
<1>8. objects'[p][k] = objects[p][k] \cup {pid[p]} /\ index'[p][k] >= index[p][k]
  BY <1>1, <1>2, <1>4, <1>5 DEF TypeOK
<1>9. StampInv'
  BY <1>2, <1>7, <1>8, LookupKeeps DEF StampInv
<1>10. HomeInv'
  BY <1>2, <1>3, <1>7, <1>8, LookupKeeps DEF HomeInv
<1>11. CountInv'
  <2>1. ASSUME NEW l \in Keys, home[l] \in Procs PROVE index'[home[l]][l] >= index[home[l]][l]
    <3>1. home[l] \in started /\ index[home[l]][l] \in Nat
      BY <2>1, KeyIndexAssumption DEF HomeInv, TypeOK
    <3>2. CASE home[l] = p /\ l = k
      BY <3>2, <1>8
    <3>3. CASE ~(home[l] = p /\ l = k)
      BY <3>1, <3>3, <1>7
    <3> QED
      BY <3>2, <3>3
  <2>2. ASSUME NEW l \in Keys, NEW j \in Indices, uses[l][j] > 0
        PROVE  home[l] \in Procs /\ j < index'[home[l]][l]
    <3>1. home[l] \in Procs /\ j < index[home[l]][l]
      BY <2>2 DEF CountInv
    <3>2. index[home[l]][l] \in 0..MaxOps /\ index'[home[l]][l] \in 0..MaxOps
      BY <3>1, <1>6 DEF TypeOK
    <3>3. index'[home[l]][l] >= index[home[l]][l]
      BY <3>1, <2>1
    <3> QED
      BY <3>1, <3>2, <3>3, KeyIndexAssumption DEF Indices
  <2>3. ASSUME NEW l \in Keys, NEW q \in started, NEW j \in ops[q][l]
        PROVE  j < index'[q][l]
    <3>1. q = home[l] /\ q \in Procs /\ j < index[q][l] /\ j \in Indices
      BY DEF CountInv, TypeOK
    <3>2. index[q][l] \in 0..MaxOps /\ index'[q][l] \in 0..MaxOps
      BY <3>1, <1>6 DEF TypeOK
    <3>3. index'[q][l] >= index[q][l]
      BY <3>1, <2>1
    <3> QED
      BY <3>1, <3>2, <3>3, KeyIndexAssumption DEF Indices
  <2> QED
    BY <1>2, <2>2, <2>3 DEF CountInv
<1> QED
  BY <1>6, <1>9, <1>10, <1>11

\* What a successful reservation does, and that the index it hands out is new.
LEMMA ReserveFresh ==
  ASSUME Inv, NEW p \in live, NEW k \in Keys, Reserve(p, k),
         UNCHANGED <<procs, objects, saved, home>>
  PROVE  /\ home[k] = p /\ p \in Procs
         /\ index[p][k] \in Indices
         /\ uses[k][index[p][k]] = 0
         /\ index[p][k] \notin ops[p][k]
         /\ index' \in [Procs -> [Keys -> 0..MaxOps]]
         /\ index'[p][k] = index[p][k] + 1
         /\ \A q \in Procs, l \in Keys : ~(q = p /\ l = k) => index'[q][l] = index[q][l]
         /\ issuers' \in [Keys -> SUBSET Procs]
         /\ \A l \in Keys : issuers'[l] \subseteq {home[l]}
         /\ regPid' \in [Procs -> Pids \cup {NoRegistry}]
         /\ latched' \in [Procs -> BOOLEAN]
         /\ StampInv' /\ HomeInv'
<1> USE DEF Inv, procs
<1>1. PICK s \in objects[p][k] : ~ForkDetected(p, s) /\ Lookup(p, s)
  BY DEF Reserve
<1>2. home[k] = p
  BY <1>1, UsableAtHome
<1>3. p \in Procs /\ p \in started /\ index[p][k] \in 0..MaxOps /\ ~(index[p][k] >= MaxOps)
  BY DEF TypeOK, Reserve, Exhausted
<1>4. index[p][k] \in Indices /\ index[p][k] + 1 \in 0..MaxOps
  BY <1>3, KeyIndexAssumption DEF Indices
<1>5. uses[k][index[p][k]] = 0
  <2>1. uses[k][index[p][k]] \in Nat
    BY <1>4 DEF TypeOK
  <2>2. ~(index[p][k] < index[p][k])
    BY <1>3
  <2>3. ~(uses[k][index[p][k]] > 0)
    BY <1>2, <1>4, <2>2 DEF CountInv
  <2> QED
    BY <2>1, <2>3
<1>6. index[p][k] \notin ops[p][k]
  <2>1. ~(index[p][k] < index[p][k])
    BY <1>3
  <2> QED
    BY <1>3, <2>1 DEF CountInv
<1>7. index' = [index EXCEPT ![p][k] = index[p][k] + 1]
  BY DEF Reserve
<1>8. /\ index' \in [Procs -> [Keys -> 0..MaxOps]]
      /\ index'[p][k] = index[p][k] + 1
      /\ \A q \in Procs, l \in Keys : ~(q = p /\ l = k) => index'[q][l] = index[q][l]
  BY <1>3, <1>4, <1>7 DEF TypeOK
<1>9. issuers' \in [Keys -> SUBSET Procs] /\ \A l \in Keys : issuers'[l] \subseteq {home[l]}
  BY <1>2, <1>3 DEF Reserve, TypeOK, CountInv
<1>10. StampInv'
  BY <1>1, LookupKeeps DEF StampInv
<1>11. HomeInv'
  BY <1>1, LookupKeeps DEF HomeInv
<1> QED
  BY <1>1, <1>2, <1>3, <1>4, <1>5, <1>6, <1>8, <1>9, <1>10, <1>11, LookupKeeps

LEMMA StartSignatureInv ==
  ASSUME Inv, NEW p \in live, NEW k \in Keys, StartSignature(p, k)
  PROVE  Inv'
<1> USE DEF Inv, procs
<1> DEFINE c == index[p][k]
<1>1. /\ Reserve(p, k)
      /\ ops' = [ops EXCEPT ![p][k] = @ \cup {c}]
      /\ UNCHANGED <<procs, objects, saved, home, uses>>
  BY DEF StartSignature
<1>2. /\ home[k] = p /\ p \in Procs /\ c \in Indices /\ uses[k][c] = 0
      /\ index' \in [Procs -> [Keys -> 0..MaxOps]]
      /\ index'[p][k] = c + 1
      /\ \A q \in Procs, l \in Keys : ~(q = p /\ l = k) => index'[q][l] = index[q][l]
      /\ issuers' \in [Keys -> SUBSET Procs]
      /\ \A l \in Keys : issuers'[l] \subseteq {home[l]}
      /\ regPid' \in [Procs -> Pids \cup {NoRegistry}]
      /\ latched' \in [Procs -> BOOLEAN]
      /\ StampInv' /\ HomeInv'
  BY <1>1, ReserveFresh
<1>3. TypeOK'
  <2>1. ops' \in [Procs -> [Keys -> SUBSET Indices]]
    BY <1>1, <1>2 DEF TypeOK
  <2> QED
    BY <1>1, <1>2, <2>1 DEF TypeOK
<1>4. CountInv'
  <2>1. ASSUME NEW l \in Keys, NEW j \in Indices, uses[l][j] > 0
        PROVE  home[l] \in Procs /\ j < index'[home[l]][l]
    <3>1. home[l] \in Procs /\ j < index[home[l]][l] /\ index[home[l]][l] \in Nat
      BY <2>1 DEF CountInv, TypeOK
    <3> QED
      BY <3>1, <1>2, KeyIndexAssumption DEF Indices
  <2>2. ASSUME NEW l \in Keys, NEW q \in started, NEW j \in ops'[q][l]
        PROVE  q = home[l] /\ uses[l][j] = 0 /\ j < index'[q][l]
    <3>1. q \in Procs /\ index[q][l] \in Nat
      BY DEF TypeOK
    <3>2. CASE q = p /\ l = k /\ j = c
      BY <1>2, <3>1, <3>2
    <3>3. CASE ~(q = p /\ l = k /\ j = c)
      <4>1. j \in ops[q][l]
        BY <1>1, <2>2, <3>1, <3>3 DEF TypeOK
      <4>2. q = home[l] /\ uses[l][j] = 0 /\ j < index[q][l] /\ j \in Indices
        BY <4>1, <3>1 DEF CountInv, TypeOK
      <4> QED
        BY <1>2, <3>1, <4>2, KeyIndexAssumption DEF Indices
    <3> QED
      BY <3>2, <3>3
  <2> QED
    BY <1>1, <1>2, <2>1, <2>2 DEF CountInv
<1> QED
  BY <1>2, <1>3, <1>4

LEMMA FinishSignatureInv ==
  ASSUME Inv, NEW p \in live, NEW k \in Keys, FinishSignature(p, k)
  PROVE  Inv'
<1> USE DEF Inv, procs, reg
<1>1. PICK i \in ops[p][k] : /\ uses' = [uses EXCEPT ![k][i] = @ + 1]
                             /\ ops' = [ops EXCEPT ![p][k] = @ \ {i}]
  BY DEF FinishSignature
<1>2. UNCHANGED <<procs, reg, index, objects, saved, home, issuers>>
  BY DEF FinishSignature
<1>3. /\ p \in Procs /\ p \in started /\ i \in Indices
      /\ p = home[k] /\ uses[k][i] = 0 /\ i < index[p][k]
  BY DEF TypeOK, CountInv
<1>4. TypeOK'
  BY <1>1, <1>2, <1>3 DEF TypeOK
<1>5. StampInv' /\ HomeInv'
  BY <1>2 DEF StampInv, HomeInv, Foreign
<1>6. /\ uses'[k][i] = 1
      /\ \A l \in Keys, j \in Indices : ~(l = k /\ j = i) => uses'[l][j] = uses[l][j]
  BY <1>1, <1>3 DEF TypeOK
<1>7. \A q \in started, l \in Keys :
         /\ ops'[q][l] \subseteq ops[q][l]
         /\ (q = p /\ l = k) => i \notin ops'[q][l]
  BY <1>1, <1>3 DEF TypeOK
<1>8. CountInv'
  <2>1. ASSUME NEW l \in Keys, NEW q \in started, NEW j \in ops'[q][l]
        PROVE  q = home[l] /\ uses'[l][j] = 0 /\ j < index[q][l]
    <3>1. j \in ops[q][l] /\ q = home[l] /\ uses[l][j] = 0 /\ j < index[q][l] /\ j \in Indices
      BY <1>7, <2>1 DEF CountInv, TypeOK
    <3>2. ~(l = k /\ j = i)
      BY <1>3, <1>7, <2>1, <3>1
    <3> QED
      BY <1>6, <3>1, <3>2
  <2> QED
    BY <1>2, <1>3, <1>6, <2>1 DEF CountInv
<1> QED
  BY <1>4, <1>5, <1>8

LEMMA SignInv ==
  ASSUME Inv, NEW p \in live, NEW k \in Keys, Sign(p, k)
  PROVE  Inv'
<1> USE DEF Inv, procs
<1> DEFINE c == index[p][k]
<1>1. /\ Reserve(p, k)
      /\ uses' = [uses EXCEPT ![k][c] = @ + 1]
      /\ UNCHANGED <<procs, objects, saved, ops, home>>
  BY DEF Sign
<1>2. /\ home[k] = p /\ p \in Procs /\ c \in Indices /\ uses[k][c] = 0
      /\ c \notin ops[p][k]
      /\ index' \in [Procs -> [Keys -> 0..MaxOps]]
      /\ index'[p][k] = c + 1
      /\ \A q \in Procs, l \in Keys : ~(q = p /\ l = k) => index'[q][l] = index[q][l]
      /\ issuers' \in [Keys -> SUBSET Procs]
      /\ \A l \in Keys : issuers'[l] \subseteq {home[l]}
      /\ regPid' \in [Procs -> Pids \cup {NoRegistry}]
      /\ latched' \in [Procs -> BOOLEAN]
      /\ StampInv' /\ HomeInv'
  BY <1>1, ReserveFresh
<1>3. TypeOK'
  <2>1. uses' \in [Keys -> [Indices -> Nat]]
    BY <1>1, <1>2 DEF TypeOK
  <2> QED
    BY <1>1, <1>2, <2>1 DEF TypeOK
<1>4. /\ uses'[k][c] = 1
      /\ \A l \in Keys, j \in Indices : ~(l = k /\ j = c) => uses'[l][j] = uses[l][j]
  BY <1>1, <1>2 DEF TypeOK
<1>5. CountInv'
  <2>1. ASSUME NEW l \in Keys, NEW j \in Indices
        PROVE  /\ uses'[l][j] <= 1
               /\ uses'[l][j] > 0 => home[l] \in Procs /\ j < index'[home[l]][l]
    <3>1. CASE l = k /\ j = c
      BY <1>2, <1>4, <3>1, KeyIndexAssumption DEF Indices
    <3>2. CASE ~(l = k /\ j = c)
      <4>1. uses'[l][j] = uses[l][j] /\ uses[l][j] <= 1
        BY <1>4, <3>2 DEF CountInv
      <4>2. ASSUME uses[l][j] > 0 PROVE home[l] \in Procs /\ j < index'[home[l]][l]
        <5>1. home[l] \in Procs /\ j < index[home[l]][l] /\ index[home[l]][l] \in Nat
          BY <4>2 DEF CountInv, TypeOK
        <5> QED
          BY <5>1, <1>2, KeyIndexAssumption DEF Indices
      <4> QED
        BY <4>1, <4>2
    <3> QED
      BY <3>1, <3>2
  <2>2. ASSUME NEW l \in Keys, NEW q \in started, NEW j \in ops[q][l]
        PROVE  q = home[l] /\ uses'[l][j] = 0 /\ j < index'[q][l]
    <3>1. /\ q \in Procs /\ index[q][l] \in Nat /\ j \in Indices
          /\ q = home[l] /\ uses[l][j] = 0 /\ j < index[q][l]
      BY DEF CountInv, TypeOK
    <3>2. ~(l = k /\ j = c)
      BY <1>2, <3>1, <2>2
    <3> QED
      BY <1>2, <1>4, <3>1, <3>2, KeyIndexAssumption DEF Indices
  <2> QED
    BY <1>1, <1>2, <2>1, <2>2 DEF CountInv
<1> QED
  BY <1>2, <1>3, <1>5

\* The child of a fork has an id that no registry and no key carries.
LEMMA ForkInv ==
  ASSUME ~RecyclePids, ~ForkMidSignature,
         Inv, NEW p \in live, NEW q \in Procs, Fork(p, q)
  PROVE  Inv'
<1> USE DEF Inv
<1>1. PICK n \in Pids : n \notin usedPids /\ pid' = [pid EXCEPT ![q] = n]
                        /\ usedPids' = usedPids \cup {n}
  BY DEF Fork
<1>2. p \in Procs /\ p \in started /\ q \notin started
  BY DEF Fork, TypeOK
<1>3. TypeOK'
  BY <1>1, <1>2 DEF Fork, TypeOK
<1>4. /\ started' = started \cup {q} /\ UNCHANGED <<home, issuers, uses>>
      /\ pid'[q] = n /\ regPid'[q] = regPid[p]
      /\ \A k \in Keys : /\ objects'[q][k] = objects[p][k]
                         /\ saved'[q][k] = saved[p][k]
                         /\ ops'[q][k] = {}
  BY <1>1, <1>2 DEF Fork, TypeOK
<1>5. \A x \in started :
        /\ pid'[x] = pid[x] /\ regPid'[x] = regPid[x] /\ index'[x] = index[x]
        /\ objects'[x] = objects[x] /\ saved'[x] = saved[x] /\ ops'[x] = ops[x]
  BY <1>1, <1>2 DEF Fork, TypeOK
<1>6. StampInv'
  BY <1>1, <1>2, <1>4, <1>5 DEF StampInv
<1>7. HomeInv'
  <2>1. \A k \in Keys : home[k] # q /\ home[k] \in started \cup {NoProc}
    BY <1>2, KeyIndexAssumption DEF HomeInv
  <2>2. ASSUME NEW k \in Keys
        PROVE  /\ saved'[q][k] # {} => regPid'[q] # NoRegistry
               /\ \A s \in objects'[q][k] : s # pid'[q]
               /\ saved'[q][k] # {} => Foreign(q)'
    <3>1. objects[p][k] \subseteq usedPids /\ regPid[p] \in usedPids \cup {NoRegistry}
      BY <1>2 DEF StampInv
    <3>2. saved[p][k] # {} => regPid[p] # NoRegistry
      BY <1>2 DEF HomeInv
    <3> QED
      BY <1>1, <1>4, <3>1, <3>2 DEF Foreign
  <2>3. ASSUME NEW x \in started, NEW k \in Keys
        PROVE  /\ saved'[x][k] # {} => regPid'[x] # NoRegistry
               /\ home[k] # x => /\ \A s \in objects'[x][k] : s # pid'[x] \/ Foreign(x)'
                                 /\ saved'[x][k] # {} => Foreign(x)'
    BY <1>5 DEF HomeInv, Foreign
  <2> QED
    BY <1>4, <2>1, <2>2, <2>3 DEF HomeInv
<1>8. CountInv'
  <2>1. ASSUME NEW k \in Keys, home[k] \in Procs PROVE index'[home[k]] = index[home[k]]
    BY <1>5, <2>1, KeyIndexAssumption DEF HomeInv
  <2>2. ASSUME NEW k \in Keys, NEW i \in Indices, uses[k][i] > 0
        PROVE  home[k] \in Procs /\ i < index'[home[k]][k]
    BY <2>1, <2>2 DEF CountInv
  <2>3. ASSUME NEW k \in Keys, NEW x \in started', NEW i \in ops'[x][k]
        PROVE  x = home[k] /\ uses[k][i] = 0 /\ i < index'[x][k]
    <3>1. x \in started
      BY <1>4, <2>3
    <3> QED
      BY <1>5, <2>3, <3>1 DEF CountInv
  <2> QED
    BY <1>4, <2>2, <2>3 DEF CountInv
<1> QED
  BY <1>3, <1>6, <1>7, <1>8

LEMMA ExitInv ==
  ASSUME Inv, NEW p \in live, Exit(p)
  PROVE  Inv'
BY DEF Inv, Exit, reg, TypeOK, StampInv, HomeInv, CountInv, Foreign

\* Homes, stamps and counters are as they should be in every process, throughout.
LEMMA InvHolds ==
  ASSUME ~RecyclePids, ~ForkMidSignature
  PROVE  Spec => []Inv
<1>1. Init => Inv
  BY InitInv
<1>2. Inv /\ [Next]_vars => Inv'
  <2> SUFFICES ASSUME Inv, [Next]_vars PROVE Inv'
    OBVIOUS
  <2>1. CASE UNCHANGED vars
    BY <2>1 DEF vars, procs, reg, Inv, TypeOK, StampInv, HomeInv, CountInv, Foreign
  <2> QED
    BY <2>1, GenerateInv, QueryInv, SaveInv, LoadInv, StartSignatureInv,
       FinishSignatureInv, SignInv, ForkInv, ExitInv DEF Next, KeyStep
<1> QED
  BY <1>1, <1>2, PTL DEF Spec

\* The types hold; in particular no counter ever exceeds max_operations.
THEOREM TypeCorrect ==
  ASSUME ~RecyclePids, ~ForkMidSignature
  PROVE  Spec => []TypeOK
<1>1. Inv => TypeOK
  BY DEF Inv
<1> QED
  BY <1>1, InvHolds, PTL

\* For any number of keys, copies of keys, processes and indices no one-time
\* index is used for two signatures, provided process ids are not recycled and
\* no fork happens between XMSS update() and sign().
THEOREM IndicesAreOneTime ==
  ASSUME ~RecyclePids, ~ForkMidSignature
  PROVE  Spec => []NoIndexReuse
<1>1. Inv => NoIndexReuse
  BY DEF Inv, CountInv, NoIndexReuse
<1> QED
  BY <1>1, InvHolds, PTL

\* Under the same conditions a process that inherited a key never gets an index.
THEOREM ForkFailsClosed ==
  ASSUME ~RecyclePids, ~ForkMidSignature
  PROVE  Spec => []ChildrenAreRefused
<1>1. Inv => ChildrenAreRefused
  BY DEF Inv, CountInv, ChildrenAreRefused
<1> QED
  BY <1>1, InvHolds, PTL
=============================================================================
