# A TLA+ model of Botan's stateful core

Botan is a cryptography library.  Most of its code computes functions of bytes
and is checked by known-answer tests.  This project is about the other part:
the code whose correctness depends on *order* — threads that meet at a lock,
processes that fork, datagrams that come late or twice, counters that must not
come back, sessions shared between connections.  It contains TLA+ modules
translated from that code, TLC runs that explore them on small instances, and
proofs, checked by TLAPS, for every value of the parameters.

Paths below are relative to the repository root.  `PROJECT.json` maps every
definition to the lines it models.

## 1. Inventory

| Component | State it keeps | Operations | What is hard | What makes it correct |
|---|---|---|---|---|
| RWLock (`src/lib/utils/thread_utils/rwlock`) | one 32-bit word: writer bit and reader count; two condition variables | lock, unlock, lock_shared, unlock_shared | wakeups, spurious wakeups, the reader count at its limit | a writer is alone; the word matches the holders; nobody sleeps for no reason; an announced writer gets in |
| Semaphore (`thread_utils/semaphore`) | `m_value`, `m_wakeups` | acquire, release(n) | a wakeup can be taken by a thread that was never asleep | it is a counting semaphore |
| Barrier (`thread_utils/barrier`) | `m_value`, `m_syncs` | wait(n), sync | reuse for the next round while old waiters are still leaving | used through Threaded_Fork |
| Threaded_Fork (`src/lib/filters/threaded_fork.cpp`) | shared input pointer, exception slot, semaphore, barrier | send, destructor, worker loop | shared memory read without a lock; exceptions; shutdown | lock-step: each filter gets each input once; exceptions reach the right call; nothing hangs |
| Thread_Pool (`thread_utils/thread_pool`) | task queue, shutdown flag, workers | queue_thunk, shutdown, worker loop | shutdown against queueing, several shutdowns | every accepted task runs exactly once; shutdown drains and returns |
| Stateful_Key_Index_Registry and its users XMSS, HSS-LMS (`src/lib/pubkey`) | a counter per key, process ids, a fork latch | reserve, advance, query, generate, load, save, sign | fork copies everything; copies of keys; indices reserved before a fork | no one-time index signs twice; an inherited key is refused |
| DTLS 1.2 sequence numbers and replay windows (`src/lib/tls/tls12/tls_seq_numbers.h`), with the cipher states the channel retains | write counters and replay windows per epoch; keys per epoch | write, change cipher spec, read, restart, close | loss, repetition, reordering, retransmission under an old epoch, restart, overflow | no nonce twice; no record accepted twice; nothing new refused without need |
| Session manager, in-memory (`src/lib/tls/tls_session_manager*.cpp`) | map of sessions, eviction queue, a recursive mutex | store, establish, retrieve, find, remove, remove_all | values read before the mutex is released and used after; stale queue entries; expiry | no ticket is in two hands at once; the queue covers the map; live sessions are found and not lost |
| Stateful_RNG (`src/lib/rng/stateful_rng`) | reseed counter, last process id, secret state | randomize, add_entropy, initialize_with, reseed_*, clear, force_reseed | fork; reseeding that fails half-way; interval boundaries | parent and child never give the same output; an unseeded generator refuses |
| DTLS 1.2 handshake I/O (`tls12/tls_handshake_io.cpp`) and the handshakes of client and server on top of it | flights sent, fragments received, message numbers, retransmission timer; expected message types, transcript | send, add_record, get_next_record, timeout_check, finalize; one handler per message | lost, repeated, reordered fragments; a ChangeCipherSpec without a number; a lost last flight; cookies recreated | each message handed over once and in order; loss never fails a handshake; every handshake ends; no endless echo |
| DTLS 1.2 channel (`tls12/tls_channel_impl_12.cpp`) | active and pending handshake, two epochs, keys per epoch, closed flag | from_peer, renegotiate, to_peer, close, timeout_check | two handshakes at once, given up, refused or restarted, with old unprotected records about | active state, epochs and keys are of one handshake; both ends agree; no data in the clear; late unprotected records harmless |
| TLS 1.3 channel and key schedule | traffic keys, sequence numbers, closure | key update, send, receive, close | updates crossing in flight | not modelled, see 6 |
| Asio stream (`src/lib/tls/asio`) | a channel, two buffers, operations under way | async handshake, read, write, shutdown | composed callbacks | not modelled, see 6 |
| Pipe and Output_Buffers | queues by message number | start, end, read | retiring of messages | not modelled, see 6 |
| Memory pool | page bitmaps | allocate, deallocate | boundary arithmetic | not modelled, see 6 |

Interactions: `Threaded_Fork` calls a `Semaphore` and a `Barrier` from the
thread that owns the pipe and from one worker per port.  The TLS 1.2 client and
server call the session manager from as many threads as there are connections.
The DTLS channel calls the sequence numbers for each record and keeps the keys
of old epochs by a rule of its own, which has to agree with theirs.  It keeps a
handshake I/O in its pending handshake, hands each record to it and runs the
client's or the server's handler for every message that comes out; when the
handshake is done the I/O stays with the active state, to answer
retransmissions.  The XMSS
and HSS-LMS keys of a process share one registry, and a fork copies keys,
registry and half-done signatures together.  `reseed_check()` calls another
generator and a list of entropy sources, which call the generator back.

Not modelled, with the reason for each, are the ciphers, hashes, MACs and KDFs,
big integers, public-key algorithms, ASN.1, X.509, providers for hardware,
the C and Python interfaces, the command line tool and the utilities: functions
of their input, or I/O.  The SQL, hybrid and stateless session managers
delegate to a database or to encryption.  `PROJECT.json` lists them all.

## 2. Modules

Each component has a module; an `MC...` module, with one `.cfg` per question,
instantiates it for TLC; a `...Proofs` module extends it with theorems.

* **RWLock** — `writing` and `readers` are the two parts of `m_state`, `gate1`
  and `gate2` the threads asleep at the condition variables.  Everything that
  runs with `m_mutex` held is one action, up to the point where the thread
  returns or goes to sleep.  A notified thread is taken out of the gate and
  re-evaluates its loop in a step of its own; spurious wakeups are actions.
* **CondVar** — `notify_one` and `notify_all` of the standard library, as
  operators on the set of sleepers; RWLock, Semaphore and ThreadPool use it.
  The specifications of the last two carry a prefix (`SemSpec`, `PoolSpec`), so
  that one proof module can extend all three.
* **CountingSemaphore** — the abstract specification: tokens, and threads that
  block or pass.  **Semaphore** is the code; `Abstract` maps
  `max(m_value, 0) + m_wakeups` to the tokens and `waiting` to the blocked
  threads.
* **Barrier** and **ThreadedFork** — the second instantiates the actions of
  Semaphore and Barrier with their state renamed, and adds the caller and the
  workers.  The unlocked reads of `m_input` are steps of their own.
* **ThreadPool** — `queue_thunk`, `worker_thread` and `shutdown`, of a pool with
  workers and of the disabled pool that runs tasks in the caller.
* **KeyIndexRegistry** — processes with a memory each (registry, key objects,
  serialised keys, signatures under way); `Fork` copies all of it, a process id
  is stamped on registry and key objects as in the code.
* **DtlsRecordLayer** — one direction of a DTLS association, a writer and a
  reader with the network between them as the set of all records ever sent, so
  that each may arrive never, once, often and in any order.
* **HandshakeStream** — the abstract specification of a handshake I/O: each side
  is handed what its peer sent, once and in order.  **DatagramHandshakeIO** is
  Datagram_Handshake_IO as a record and the functions its methods are: sending
  and keeping flights, adding fragments, taking the next message, recognising a
  retransmission.  **DtlsHandshake** composes two of them with the handshakes of
  client and server, the part of the channel that feeds them, the timers and a
  network; `HandshakeStream` is its refinement target.
* **Channel12** — the same I/O inside the channel, from an established
  association on.  A full handshake has fewer messages here (one from the server
  where DtlsHandshake has its whole flight), because the question is another:
  `active` and `pending` are `m_active_state` and `m_pending_state`,
  `read`/`write` the epochs, `read_keys`/`write_keys` the cipher states, `before`
  is `m_epochs_before_latest_renegotiation`.  `FromPeer` is from_peer() up to
  `add_record()`, `Process` one turn of the loop of process_handshake_ccs(),
  `Return` its end; `working` keeps the three together.  A handler that throws
  ends in a fatal alert, or is absorbed where the code absorbs.
* **SessionManager** — sessions known by number, `held` for `m_sessions`,
  `fifo` for `m_fifo`, and a program counter for each connection.  `retrieve()`
  and `find()` are several steps because they lock and unlock in between;
  `find()` keeps the mutex when tickets may not be reused.  The TLS 1.2 server
  that establishes a resumed session again and the client that renews a ticket
  are included because they are how keys and tickets come to be stored twice.
* **StatefulRng** — the generator in the memory of each process.  The secret
  state is known by its last seed and what was done since.  The reseeding of
  `reseed_check()` tries the underlying generator and polls the sources; each
  may throw, give too little, or give much without being credited.

Operators whose comment begins "Mutant(s) of" are deliberate faults (a dropped
guard, a missing notification, an off-by-one); no specification uses them.  For
every property of every passing run `PROJECT.json` names one that must break it.

## 3. Runs

| Run | Instance | Result |
|---|---|---|
| `rwlock` | 4 threads, reader count full at 3 (2^31 - 1 in the code), so that a reader is turned away at the limit; fairness | exclusion and the exactness of the word hold; no lost wakeup; announced writers get in |
| `semaphore` | 4 threads, 2 tokens at a time: more waiters than tokens, wakeups get stolen | counters exact, refinement of CountingSemaphore, a token is taken |
| `threaded_fork` | 3 ports, one with a null filter, 2 inputs: one round follows another, so a slow waiter of the first meets the second | lock-step, exceptions, termination of send() and destructor |
| `thread_pool` | 3 workers or a disabled pool, 2 clients, 4 tasks, 2 calls of shutdown(): more tasks than workers, and both refuse after shutdown | each task once, drained, shutdown() returns |
| `key_index_fork` | 1 key with 2 indices, 3 processes: a grandchild exists, a key can be exhausted | no index reused, inherited keys refused, counters within max_operations |
| `key_index_xmss_fork` | a fork between `update()` and `sign()` | **violation** |
| `dtls_records` | epochs 0..3, sequence numbers 0..3 with overflow at the end, window of 2, one restart, 5 records in flight | no nonce reuse, no replay, no false alarm, keys and windows agree |
| `session_shared` | 2 connections, 2 sessions, capacity 2 (a session stored again evicts), clock to 2 with lifetime 1, with and without reuse; one attempt per find (10 in the code): with one attempt a find that looked only at some sessions would come back empty | what is stored is handed out once, and no two clients have one ticket at a time; the queue covers the sessions; a live session is found; expiry takes only what expired |
| `rng_auto` | 2 processes, an underlying generator and a source, interval 2, requests of up to 2 pieces | fork safety, interval |
| `dtls_handshake` | three handshakes: abbreviated with cookie, full with ticket, full with one retransmission at most; a ClientHello of two fragments, so that half of it may be lost for good, and an empty message; one copy of a protected record for each sending, one old record outliving each flight | no exception, refinement of HandshakeStream, no echo, every handshake ends, one case excepted (below) |
| `channel12` | four policies (below), 2 calls of the applications (renegotiate, send, close, reconnect), 3 hellos after the first handshake, one retransmission, one old record outliving each sending, of epoch 0 also repeatedly | one handshake, agreement, no data in the clear, pending handshakes are timed, unprotected records harmless |
| `channel12_epoch0` | renegotiation only, welcome at both ends | **violation** |

The bounds are those at which the hazards occur: a limit is reached, a second
round begins, a window is left behind, an id is inherited twice.  All of them
are constants named `Max...` or sizes of constant sets.  Deadlock is checked
except where a bound, and not the code, ends the behaviours
(`dtls_records`, `key_index_*`, `rng_auto`, `channel12*`).  Symmetry is used only for threads,
and never with liveness.

**Fairness.**  `RWLock`, `Semaphore`, `ThreadedFork` and `ThreadPool` assume weak
fairness of the steps of a thread that can run: the operating system schedules
runnable threads, and an unowned mutex is eventually acquired.  Calling an
operation is never assumed (nobody has to ask for the lock), nor is any choice
of whom `notify_one` wakes, nor that spurious wakeups happen.  Holders of the
read-write lock do release it (`Unlock` and `UnlockShared` are fair), which is
what its users' lock guards do.  `DtlsHandshake` assumes that the application
connects and keeps calling timeout_check(), when next_retransmission_timeout() says, and that
the code finishes what it is called for.  Of the network it asks only this: if
records that a side still lacks are in it again and again, which they are only
because the timer sends them again and again, then one of them is delivered
again and again.  That is strong fairness of an arrival, and without it, that is
if everything may be lost, no handshake can end.  The other modules, Channel12
among them, make no fairness assumption.

**The exception of `HandshakeEnds`.**  With a limit on retransmissions the
property lets one side wait for ever (`Untimed`): a server that has sent no flight.
It holds a part of a ClientHello whose rest the client, which has given up, will
never send, or it has answered with a HelloVerifyRequest, which is kept in no
flight; next_retransmission_timeout() then has nothing to say
(`tls_handshake_io.cpp:275`), and the server's pending state goes only with its
channel.  The run meets the first kind; `channel12` has the second.

**Policies of `channel12`.**  Renegotiation welcome at both ends; association
restart allowed and the client's renegotiation refused with a warning; all
renegotiation refused with a warning, the library's default; all refused with a
fatal alert.  One combination is left out because
`OneHandshake` does not hold for it: a client that refuses the server's
HelloRequest with a NoRenegotiation warning and then renegotiates on its own
account, with a server that accepts that.  When that warning is late, it reaches a server that has meanwhile
begun the client's renegotiation and has read its ChangeCipherSpec, and
process_alert() (`tls_channel_impl_12.cpp:706`) drops the pending handshake
whatever its epochs, which abandon_timed_out_handshake() is careful not to do:
the server is left reading under the keys of a handshake that it has given up,
with the active state of the one before.  The condition it would take is the one
in pending_handshake_epochs_unmoved().

## 4. Where code and documentation disagree

The `violation` runs exhibit these; `PROJECT.json` has the quotations.

1. `key_index_xmss_fork` — an XMSS operation that has reserved its index signs
   with it in parent and child; the registry "fails closed" only when it is
   asked again.
2. `channel12_epoch0` — an unprotected record that reaches a pending
   renegotiation cannot harm the association by itself, its errors are absorbed.
   But it is kept for its turn, and then the *authentic* message before it fails
   with "Have data remaining in buffer", which is not absorbed: a late copy of
   the client's own cookie-bearing ClientHello ends the association at the next
   renegotiation.  `Epoch0Harmless`, about the step that handles the record, holds.

Five more can be read off the models, and no run is kept for them.  A port of
Threaded_Fork without a filter gets nothing, where the manual
(`doc/api_ref/filters.rst:215` and `:256`) promises a copy of the input.  A source
that returns 0 bits so as not to be counted (`entropy_srcs.cpp:80`) nevertheless
resets the reseed counter through reseed_from_rng() ("black_box" in
`StatefulRng`).  initialize_with() leaves the generator unseeded when its input is
too short (`InitializeWith`), which `src/tests/test_rng_behavior.cpp:234` expects,
while its declaration (`stateful_rng.h:66`) has it "mark the RNG as initialized
regardless of the length of the input"; `OutputIsFromOwnSeed` is about what the
code does.  A TLS 1.2 client whose server sent no new ticket stores the one it
used again (`RenewStore` with `same`, `tls_client_impl_12.cpp:737`), and find()
gives it out again although reuse is not allowed, against
Policy::reuse_session_tickets() ("whether stored session tickets should be used
multiple times", `tls_policy.h:384`), to which find() claims to adhere
(`tls_session_manager.h:168`); `HandedOutOnce` therefore counts by what is stored,
and speaks of tickets only while one is in use.  And a TLS 1.2 resumption under way (`Resume` in `SessionManager`)
stores again the session that another connection has removed after a fatal
alert, although "future attempts at resumption should fail for this session"
(`doc/api_ref/tls.rst:569`).

Two limits of the code appear as conditions instead.  The registry recognises a
fork by the process id, so with recycled ids (`RecyclePids`) a grandchild that
has the id of its ended grandparent is not refused.  With reuse of tickets
allowed `find()` is not locked as a whole, and `ExpiryTakesOnlyExpired` is stated
for the other case: what it read as expired it removes by ticket, and the
ticket may by then be that of a session a client has renewed.

## 5. Proofs

All theorems are for arbitrary constants within the modules' `ASSUME`s.

* **ThreadUtilsProofs** — the lock, the semaphore and the pool, for any number of
  threads.

  *RWLock*: `LockTypeCorrect`, `LockIsExclusive`, `WordIsExact`; and
  `LockWakeupsSuffice`, assuming no more threads than the reader count can hold.
  Mutual exclusion is not inductive: it needs that the writer bit is set by
  exactly one thread, which is in the second loop or inside, and that the reader
  count is the number of readers (`WordInv`, over cardinalities); wakeups need
  in addition that a sleeper is in the loop of its gate (`GateInv`).

  *Semaphore*: `SemaphoreTypeCorrect`, `CountersExact`, `SemaphoreWakeupsSuffice`,
  and `SemaphoreRefines`: every step is a step of CountingSemaphore or a stutter.
  The invariant relates the negative part of `m_value`, `m_wakeups` and the number
  of waiters, and says that at least as many waiters are awake as there are
  wakeups to take.

  *ThreadPool*: `TasksRunOnce`, `ShutdownDrainsQueue`, for any number of
  workers, clients, tasks and calls of shutdown().  `EachTaskOnce` counts places,
  which a step does not preserve by itself; the invariant says instead that the
  queue has no entry twice and none that a thread has in its hands (`QueueInv`),
  that no two threads have the same task (`HandsInv`), and that what was accepted
  and has not run is in one of the two (`RunsInv`).  `PhaseInv`: a worker returns
  only from an empty queue after shutdown, and the pool counts as joined only when
  all have.  Workers and clients are assumed to be different threads
  (`ThreadPoolAssumption`).
* **KeyIndexProofs** — `TypeCorrect`, `IndicesAreOneTime`, `ForkFailsClosed`,
  under two conditions, that no process forks in the middle of an XMSS signature
  (finding 1 shows that it is necessary) and that process ids are not recycled.  Each key
  has a home, the process that generated it; elsewhere a stamp differs
  (`HomeInv`), because a new process has an id no stamp can have (`StampInv`);
  at home the counter is above whatever was signed with or reserved
  (`CountInv`).
* **DtlsProofs** — `TypeCorrect`, `NoncesAreUnique`, `ReplaysAreRefused`,
  `PruningAgrees`, `WindowIsExact`, for any window size and any number of epochs
  and records.  `KeyInv`: both pruning rules keep the same epochs.  `WriteInv`:
  a counter is above everything written in its epoch.  `ReadInv`: a window
  remembers exactly the accepted records it still covers.
* **ThreadedForkProofs** — `LockStep`, `ExceptionsArrive`, `InputIsStable`, for any
  number of ports and inputs.  The difficulty is that a worker may still be inside
  sync() of one input when the next is being sent.  `Arrived` and `Busy` are the
  workers of the current input, told from the late ones by their copy of
  `m_syncs`.  While an input is being processed (`RoundInv`) the tokens of the
  semaphore, the releases still to come and the workers that have entered make up
  the number of ports, and the barrier's value is the number of threads that have
  not arrived; so the last one to arrive finds no token left, and whoever has a
  token has this input.  In between (`RestInv`) there is no token and nobody
  busy, which is why m_input may change.  `GotInv` and `ExceptionInv` then follow
  each filter and each captured exception through the round.  No property of the
  semaphore's waiters is needed: each operation changes `Tokens` by what it
  should (`TokenCount`).
* **StatefulRngProofs** — `OwnSeedOnly`, `ForkSafety`, `IntervalIsRespected`, for
  any processes, sources, request sizes and interval.  A child inherits a seeded
  state that is not its own, so the invariant is conditional (`OwnInv`): a generator whose
  counter is not zero and whose last id is that of the process it is in has a
  last seed drawn by that process.  It is kept by fork() because a last id is
  never that of a process that does not exist yet; `CountInv` ties the reseed
  counter to the answers given since it was reset.
* **SessionManagerProofs** — `QueueCovers`, `NoSecondHandOut`, `FindMissesNothing`,
  and the action property `ExpiryIsExact`, for any number of threads, sessions,
  capacity and lifetimes.  `QueueCoversSessions` is inductive because the loop of store()
  ends: as long as the store is full there is a queue entry, and the last entry
  of a session's key is the last to go (lemma `LoopEnds`).  `HandInv`: a one-time
  session that was handed out is nowhere around any more, neither in the store
  nor in the list of a find() under way.  `SteadyInv`: what a find() has
  still to look at includes every live session that was there throughout.
  `TicketInv`: of the sessions around, no two share a ticket, so removal by
  ticket takes the one that was meant; a client that renews one has removed it
  before.  `NoSecondHandOut` says of tickets what `TicketInv` gives: while one is in
  use nobody else has it or can be given it; stored again, it is a new session.
* **DtlsHandshakeProofs** — `NoHandshakeFails`, `HandshakeRefines` and `NoEcho`, for
  every set of policies, all message lengths and any network, the bounds on
  copies and old records included.

  The first two rest on `DialogueInv`.  Neither the absence of exceptions nor the
  order of messages is inductive: both depend on everything that may still
  arrive.  But the policy fixes what two honest sides say to each other, so the
  invariant can name it: `Item(pol, p, k)` is message k of p, with its type, its
  epoch and, for a Finished, the transcript it is over; `Reply(pol, p, i)` is the
  number of messages p has sent when it was handed i, `HashOf(pol, p, i)` its
  transcript then.  `ChanOk` says that a side is at the place of this dialogue
  that its `in` gives; `FlightsOk`, `ReceivedOk` and `NetOk` that flights kept,
  fragments in reassembly and records in the network are parts of items already
  said; `HelloOk` and `Settled` look after the one place where the dialogue turns
  back, the HelloVerifyRequest that is made again.  Then nothing contradicts
  (`NoThrow`: add_record() accepts every such record), what get_next_record()
  returns is what is expected (`TakeFacts`), no data follow a flight before it is
  answered (`NothingMore`, which is what the checks of have_more_data() ask), and a
  Finished is over the receiver's transcript (`FinishedFacts`).  There is one lemma
  for each handler.

  `HandshakeRefines` adds `StreamInv`: how much was sent and handed over follows
  from the places of the two sides, with the ChangeCipherSpec, which has no number,
  right before the Finished.  A step of the handshake is then a step of
  HandshakeStream or a stutter.

  `NoEcho` is an action property and needs less: a side becomes active in
  activate_session() alone, which tells its handshake I/O whether it sent the
  last flight, and nothing changes that flag later (`FlagInv`).
* **Channel12Proofs** — `DataIsProtected`, `PendingTimed`, `SidesAgreed`, and under
  one condition `KeysAreOfOneHandshake`, for any policies, any number of calls,
  handshakes and records that survive, and every function that gives messages
  lengths.  In two layers.  The first goes through the handlers once and shows that
  each step is a `Move` of one side: what it does to the active and the pending
  handshake, the epochs and the keys, and which messages it says; `Said` is all
  that network, flights and reassembly hold of a side's messages.  The second is
  about moves only.  `Stable` (`AlwaysStable`): types, flights that are complete
  between two calls, the stage of each pending handshake, and that who is active
  writes in an epoch above 0.  `Agreed` (`AlwaysAgreed`): hellos are numbered, a
  Finished names the two hellos of its transcript (`Numbered`), and it binds both
  sides (`Agreeing`): a client that has said one is in that handshake or
  past it, a server that has said one has completed that handshake or a later
  one; so that two sides with nothing pending have finished the same.  `AllKeyed`:
  the keys of the epochs in use are of the active handshake, or of the pending one
  when it has changed them.  Its part `Keyring` also shows that
  change_cipher_spec_reader() and change_cipher_spec_writer() never find keys for
  the epoch they begin, which the code asserts.

  The condition, `Firm`, excludes exactly the policies of section 3 ("Policies"),
  where the statement is false: a client that refuses with a mere warning while
  its server accepts the client's renegotiation.  The library's default is
  covered: a server that accepts none is never halfway through one
  (`Unaccepted`), so that a warning takes away nothing that has changed keys, and
  neither is its client (`Unanswered`).  The other three theorems need no condition.

The invariants of ThreadPool, ThreadedFork, SessionManager, DtlsHandshake and
Channel12 were model-checked before they were proved, on the instance of the
component's run and most of them on a larger one.  The type invariants are part
of the inductive invariants and, but for that of KeyIndexRegistry, not checked by
a run of their own.

Only model-checked: the action property `Epoch0Harmless` of Channel12 — a record
of epoch 0 may be the one that lets a buffered message be processed, and that no
authentic Finished is among those needs an account of what reassembly
holds between two calls, which `Move` abstracts from; and all liveness
(`...Returns`, `TasksAreRun`, `TokenIsTaken`, `HandshakeEnds` and their like),
which rests on fairness and is outside the prover's reach.

## 6. What is left out

In the models: contents of messages, keys and certificates.
RWLock, Semaphore, Barrier: destruction while in use; and at the reader limit of
RWLock only one thread is notified, so that with two turned away the second
sleeps on although there is room (it takes 2^31 threads).  ThreadedFork: empty
inputs, and forks without any filter.  ThreadPool: a second shutdown() returns
while the first still joins; that return is given no meaning.  KeyIndexRegistry:
several processes that load one saved key independently, and keys restored from
old backups — the documentation leaves both to the application.
DtlsRecordLayer: record contents, and decryption that fails, which changes
nothing.  DatagramHandshakeIO: the limits on reassembly buffers, which no honest
peer reaches, and the values of the timer; a running timer may expire at any
time.  DtlsHandshake: certificates and negotiation of parameters.  Channel12:
abbreviated renegotiation, renegotiation without the renegotiation_info
extension, exhausted epochs, the age limit of old read keys (a record under them
is then as good as lost) and the session store.  SessionManager: handles that
can be read as id and as ticket; the order of `std::map`, which decides what the
limit cuts off, is left open.  StatefulRng: forks in one thread while another is
inside the generator, and recycled process ids, for which the manual makes no
promise.

Not modelled at all, among the parts that keep state: TLS over streams (the
DTLS modules are about what a stream excludes), the TLS 1.3 channel, the Asio
stream, Pipe with Output_Buffers, and the memory pool.  The rest of the library
(more than nine tenths of its lines: ciphers, hashes, big integers, public-key
algorithms, encodings, X.509, interfaces, tools) computes functions of its input
and has no order of events that a model could explore.

## 7. Plan

1. Proofs: `Epoch0Harmless`, by adding to `Stable` which Finished messages the
   pending handshake may hold while a record of epoch 0 is processed.
2. Further components, by interest: TLS 1.3 key updates and sequence numbers,
   the Asio stream, Pipe with Output_Buffers, the memory pool.
