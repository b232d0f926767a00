-------------------------- MODULE KeyIndexRegistry --------------------------
(***************************************************************************)
(* Stateful_Key_Index_Registry (src/lib/pubkey/stateful_key_index) and the *)
(* private keys that draw their one-time signature indices from it: XMSS,  *)
(* whose signature operation reserves an index at the first update() and   *)
(* uses it in sign(), and HSS-LMS, which reserves and signs in one call.   *)
(*                                                                         *)
(* The registry's methods hold its mutex throughout, so the threads of a   *)
(* process are interleavings of its actions.  A process has a memory:      *)
(* fork() copies all of it, key objects, serialised keys, half-done        *)
(* signature operations and the registry.  A counter that is not in the    *)
(* registry's map reads as 0, like one that lookup() has just put there.   *)
(* Systems without process ids, where fork_detected() returns early, have  *)
(* no fork() and are not modelled.                                         *)
(***************************************************************************)
EXTENDS Naturals

CONSTANTS Keys,             \* key identities (hash of parameters and seeds)
          Procs,            \* the processes that may ever run
          Pids,             \* process ids
          MaxOps,           \* max_operations of a key
          RecyclePids,      \* may the id of a process that is gone come back?
          ForkMidSignature  \* does the program fork between update() and sign()?

NoRegistry == 0
NoProc == "none"

ASSUME KeyIndexAssumption ==
  /\ Pids \subseteq Nat \ {NoRegistry}
  /\ MaxOps \in Nat \ {0}
  /\ NoProc \notin Procs
  /\ RecyclePids \in BOOLEAN /\ ForkMidSignature \in BOOLEAN

VARIABLES live,     \* the running processes
          started,  \* the processes that have ever run
          pid,      \* their ids
          usedPids, \* ids ever given to a process
          regPid,   \* the registry's m_process_id; NoRegistry before its first use
          latched,  \* m_fork_detected
          index,    \* m_registry: the counter of each key
          objects,  \* the key objects: the m_process_id of each KeyId
          saved,    \* the indices in serialised copies of a key
          ops,      \* indices reserved by XMSS operations that have not signed yet
          home,     \* for the properties: the process that generated a key
          issuers,  \* for the properties: the processes that got an index
          uses      \* for the properties: signatures made with each index

reg == <<regPid, latched>>
procs == <<live, started, pid, usedPids>>
vars == <<procs, reg, index, objects, saved, ops, home, issuers, uses>>

Indices == 0..(MaxOps - 1)

Init ==
  /\ \E p \in Procs, n \in Pids :
       /\ live = {p} /\ started = {p}
       /\ pid = [q \in Procs |-> n]
       /\ usedPids = {n}
  /\ regPid = [p \in Procs |-> NoRegistry]
  /\ latched = [p \in Procs |-> FALSE]
  /\ index = [p \in Procs |-> [k \in Keys |-> 0]]
  /\ objects = [p \in Procs |-> [k \in Keys |-> {}]]
  /\ saved = [p \in Procs |-> [k \in Keys |-> {}]]
  /\ ops = [p \in Procs |-> [k \in Keys |-> {}]]
  /\ home = [k \in Keys |-> NoProc]
  /\ issuers = [k \in Keys |-> {}]
  /\ uses = [k \in Keys |-> [i \in Indices |-> 0]]

-----------------------------------------------------------------------------

\* global(): the registry is constructed when it is first used.
RegistryPid(p) == IF regPid[p] = NoRegistry THEN pid[p] ELSE regPid[p]

\* Mutants of ForkDetected: only one of the two ids is compared.
ForkDetectedByRegistry(p, s) == latched[p] \/ RegistryPid(p) # pid[p]
ForkDetectedByKey(p, s) == latched[p] \/ s # pid[p]

\* fork_detected() for a KeyId stamped with process id s.
ForkDetected(p, s) ==
  latched[p] \/ RegistryPid(p) # pid[p] \/ s # pid[p]

\* What every access leaves behind in the registry, whether it throws or not.
Lookup(p, s) ==
  /\ regPid' = [regPid EXCEPT ![p] = RegistryPid(p)]
  /\ latched' = [latched EXCEPT ![p] = ForkDetected(p, s)]

\* A new key.  Generating it does not touch the registry.
Generate(p, k) ==
  /\ home[k] = NoProc
  /\ home' = [home EXCEPT ![k] = p]
  /\ objects' = [objects EXCEPT ![p][k] = {pid[p]}]
  /\ UNCHANGED <<procs, reg, index, saved, ops, issuers, uses>>

\* current_index(), remaining_operations(), a reservation from an exhausted key
\* and every call that throws because of a fork: nothing but the lookup.
Query(p, k) ==
  /\ \/ \E s \in objects[p][k] : Lookup(p, s)
     \/ saved[p][k] # {} /\ ForkDetected(p, pid[p]) /\ Lookup(p, pid[p])
  /\ UNCHANGED <<procs, index, objects, saved, ops, home, issuers, uses>>

\* serialize(), to_bytes(): a copy of the key with its current index.
Save(p, k) ==
  /\ \E s \in objects[p][k] : ~ForkDetected(p, s) /\ Lookup(p, s)
  /\ saved' = [saved EXCEPT ![p][k] = @ \cup {index[p][k]}]
  /\ UNCHANGED <<procs, index, objects, ops, home, issuers, uses>>

\* Mutant of LowerBound: the index is overwritten.
LowerBoundOverwrites(cur, min) == min

\* set_index_lower_bound()
LowerBound(cur, min) == IF cur > min THEN cur ELSE min

\* A serialised copy is loaded: a new KeyId, stamped with this process's id.
Load(p, k) ==
  /\ \E i \in saved[p][k] :
       index' = [index EXCEPT ![p][k] = LowerBound(@, i)]
  /\ ~ForkDetected(p, pid[p]) /\ Lookup(p, pid[p])
  /\ objects' = [objects EXCEPT ![p][k] = @ \cup {pid[p]}]
  /\ UNCHANGED <<procs, saved, ops, home, issuers, uses>>

\* Mutant of Exhausted: the last check is off by one.
ExhaustedLate(p, k) == index[p][k] > MaxOps

Exhausted(p, k) == index[p][k] >= MaxOps

\* reserve_next_index()
Reserve(p, k) ==
  /\ \E s \in objects[p][k] : ~ForkDetected(p, s) /\ Lookup(p, s)
  /\ ~Exhausted(p, k)
  /\ index' = [index EXCEPT ![p][k] = @ + 1]
  /\ issuers' = [issuers EXCEPT ![k] = @ \cup {p}]

\* XMSS_Signature_Operation::update() on a fresh operation.
StartSignature(p, k) ==
  /\ Reserve(p, k)
  /\ ops' = [ops EXCEPT ![p][k] = @ \cup {index[p][k]}]
  /\ UNCHANGED <<procs, objects, saved, home, uses>>

\* XMSS_Signature_Operation::sign() with an index it holds already: initialize()
\* returns early and the registry is not asked again.
FinishSignature(p, k) ==
  /\ \E i \in ops[p][k] :
       /\ uses' = [uses EXCEPT ![k][i] = @ + 1]
       /\ ops' = [ops EXCEPT ![p][k] = @ \ {i}]
  /\ UNCHANGED <<procs, reg, index, objects, saved, home, issuers>>

\* HSS_LMS sign(), or XMSS sign() without an update().
Sign(p, k) ==
  /\ Reserve(p, k)
  /\ uses' = [uses EXCEPT ![k][index[p][k]] = @ + 1]
  /\ UNCHANGED <<procs, objects, saved, ops, home>>

\* fork(): the child q has a copy of everything and an id of its own.
Fork(p, q) ==
  /\ q \notin started
  /\ ForkMidSignature \/ \A k \in Keys : ops[p][k] = {}
  /\ \E n \in Pids :
       /\ n \notin (IF RecyclePids THEN {pid[x] : x \in live} ELSE usedPids)
       /\ pid' = [pid EXCEPT ![q] = n]
       /\ usedPids' = usedPids \cup {n}
  /\ live' = live \cup {q}
  /\ started' = started \cup {q}
  /\ regPid' = [regPid EXCEPT ![q] = regPid[p]]
  /\ latched' = [latched EXCEPT ![q] = latched[p]]
  /\ index' = [index EXCEPT ![q] = index[p]]
  /\ objects' = [objects EXCEPT ![q] = objects[p]]
  /\ saved' = [saved EXCEPT ![q] = saved[p]]
  /\ ops' = [ops EXCEPT ![q] = ops[p]]
  /\ UNCHANGED <<home, issuers, uses>>

Exit(p) ==
  /\ live' = live \ {p}
  /\ UNCHANGED <<started, pid, usedPids, reg, index, objects, saved, ops, home, issuers, uses>>

KeyStep(p, k) ==
  \/ Generate(p, k) \/ Query(p, k) \/ Save(p, k) \/ Load(p, k)
  \/ StartSignature(p, k) \/ FinishSignature(p, k) \/ Sign(p, k)

Next ==
  \E p \in live :
    \/ \E k \in Keys : KeyStep(p, k)
    \/ \E q \in Procs : Fork(p, q)
    \/ Exit(p)

Spec == Init /\ [][Next]_vars

-----------------------------------------------------------------------------

\* Every variable stays in its range; a counter never exceeds max_operations.
TypeOK ==
  /\ live \subseteq started /\ started \subseteq Procs
  /\ pid \in [Procs -> Pids]
  /\ usedPids \subseteq Pids
  /\ regPid \in [Procs -> Pids \cup {NoRegistry}]
  /\ latched \in [Procs -> BOOLEAN]
  /\ index \in [Procs -> [Keys -> 0..MaxOps]]
  /\ objects \in [Procs -> [Keys -> SUBSET Pids]]
  /\ saved \in [Procs -> [Keys -> SUBSET (0..MaxOps)]]
  /\ ops \in [Procs -> [Keys -> SUBSET Indices]]
  /\ home \in [Keys -> Procs \cup {NoProc}]
  /\ issuers \in [Keys -> SUBSET Procs]
  /\ uses \in [Keys -> [Indices -> Nat]]

\* The registry's purpose (stateful_key_index_registry.h): no two signatures are
\* made with the same one-time index of a key, whatever copies of the key are
\* saved and loaded again and whatever processes are forked.
NoIndexReuse == \A k \in Keys : \A i \in Indices : uses[k][i] <= 1

\* "If this registry or a key identity is inherited across fork(), it fails
\* closed and refuses to issue further indices in the child process."
ChildrenAreRefused == \A k \in Keys : issuers[k] \subseteq {home[k]}
=============================================================================
