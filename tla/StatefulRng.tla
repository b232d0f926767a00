---------------------------- MODULE StatefulRng ----------------------------
(***************************************************************************)
(* Stateful_RNG (src/lib/rng/stateful_rng), the base of HMAC_DRBG and      *)
(* ChaCha_RNG: when the generator may answer, when it must reseed first,   *)
(* and what it does in a process that fork() has given a copy of it.       *)
(*                                                                         *)
(* Every method holds the generator's mutex, so a call is one action; a    *)
(* long request is answered piece by piece, each piece an action, and      *)
(* only its own process could fork meanwhile, which leaves the child with  *)
(* a mutex that nobody will unlock and is not modelled.                    *)
(*                                                                         *)
(* The secret state is known by the last seed that went into it and by     *)
(* what was done to it since: the generator is deterministic, so equal     *)
(* states give equal output and distinct seeds give distinct states.       *)
(* Input of less than security_level() bits is taken to be the same in     *)
(* every process.  Process ids do not come back (doc/api_ref/rng.rst       *)
(* gives no promise when they do).                                         *)
(***************************************************************************)
EXTENDS Naturals, Sequences, FiniteSets

CONSTANTS Procs,       \* process ids
          HasRng,      \* m_underlying_rng is set
          NumSources,  \* the number of entropy sources; 0: m_entropy_sources is null
          Interval,    \* m_reseed_interval; 0: never reseed by count
          MaxChunks,   \* bound: pieces of one request
          MaxSeeds,    \* bound: seeds drawn in a behaviour
          MaxSteps     \* bound: steps of the state from one seed

ASSUME StatefulRngAssumption ==
  /\ Procs \subseteq Nat \ {0} /\ Procs # {}
  /\ HasRng \in BOOLEAN
  /\ {NumSources, Interval, MaxSeeds, MaxSteps} \subseteq Nat
  /\ MaxChunks \in Nat \ {0}

\* What a source's poll() adds and what it returns: enough of both; much
\* but credited with 0 bits (the processor's generator); too little; nothing;
\* or an exception.
Answers == {"full", "black_box", "weak", "none", "throws"}

VARIABLES live,   \* the running processes
          rng,    \* the generator in the memory of each process
          todo,   \* the pieces left of the request being answered
          extra,  \* does the next piece take the caller's input?
          owner,  \* for the properties: the process that drew each seed
          spent   \* for the properties: the states a process gave output from

vars == <<live, rng, todo, extra, owner, spent>>

NoSeed == 0
Seeds == 1..MaxSeeds
Cleared == [seed |-> NoSeed, steps |-> <<>>]

\* counter is m_reseed_counter and last_pid is m_last_pid.  since is for the
\* properties: outputs since the counter was reset.
NewRng == [counter |-> 0, last_pid |-> 0, state |-> Cleared, since |-> 0]

\* The process all others descend from; which id it has does not matter.
First == CHOOSE p \in Procs : TRUE

Init ==
  /\ live = {First}
  /\ rng = [p \in Procs |-> NewRng]
  /\ todo = [p \in Procs |-> 0]
  /\ extra = [p \in Procs |-> FALSE]
  /\ owner = <<>>
  /\ spent = [p \in Procs |-> {}]

-----------------------------------------------------------------------------

\* update() with enough unpredictable input, and with little or none.
Mix(r, seed) == [r EXCEPT !.state = [seed |-> seed, steps |-> <<>>]]
Stir(r, what) == [r EXCEPT !.state.steps = Append(@, what)]

\* The seed that would be drawn next, by p if it is drawn.
NextSeed == Len(owner) + 1
Drawn(p, n) == owner' = IF n THEN Append(owner, p) ELSE owner

IsSeeded(r) == r.counter > 0

\* reset_reseed_counter().
ResetCounter(r, p) == [r EXCEPT !.counter = 1, !.last_pid = p, !.since = 0]

\* Mutants of ForkDetected.
ForkDetectedNever(r, p) == FALSE

ForkDetected(r, p) == r.last_pid > 0 /\ r.last_pid # p

\* Mutants of MustReseed: the interval is passed by one.
MustReseedLate(r, p) ==
  \/ ~IsSeeded(r)
  \/ ForkDetected(r, p)
  \/ Interval > 0 /\ r.counter > Interval

MustReseed(r, p) ==
  \/ ~IsSeeded(r)
  \/ ForkDetected(r, p)
  \/ Interval > 0 /\ r.counter >= Interval

\* How many of the sources are polled: the poll ends early when one throws
\* or the bits collected are enough.
Polled(ans) ==
  LET ends == {i \in DOMAIN ans : ans[i] \in {"full", "throws"}}
  IN IF ends = {} THEN Len(ans) ELSE CHOOSE i \in ends : \A j \in ends : i <= j

\* reseed_from_sources(): every source adds its input by add_entropy() or
\* reseed_from_rng(), which reset the counter by the size of the input; the
\* bits returned decide about it once more.
ReseedFromSources(r, p, ans) ==
  LET said == {ans[i] : i \in 1..Polled(ans)}
      mixed == IF said \cap {"full", "black_box"} # {} THEN Mix(r, NextSeed)
               ELSE IF "weak" \in said THEN Stir(r, "input") ELSE r
  IN IF said \cap {"full", "black_box"} # {}
     THEN ResetCounter(mixed, p) ELSE mixed

\* What the reseeding in reseed_check() leaves: the underlying generator
\* answers or throws, then the sources are polled.
Reseeded(r, p, rngThrows, ans) ==
  LET fromRng == IF HasRng THEN ResetCounter(Mix(r, NextSeed), p) ELSE r
  IN IF HasRng /\ rngThrows THEN r ELSE ReseedFromSources(fromRng, p, ans)

ReseedThrows(rngThrows, ans) ==
  (HasRng /\ rngThrows) \/ (\E i \in 1..Polled(ans) : ans[i] = "throws")

\* Mutants of BeginReseed: the counter is left for the reseeding to reset.
BeginReseedSeeded(r, p) == [r EXCEPT !.last_pid = p]

BeginReseed(r, p) == [r EXCEPT !.counter = 0, !.last_pid = p]

\* generate_output() from state s, after the caller's input if there is any.
Generate(p, r, input) ==
  LET s == IF input THEN Stir(r, "input") ELSE r
  IN /\ spent' = [spent EXCEPT ![p] = @ \cup {s.state}]
     /\ rng' = [rng EXCEPT ![p] = [Stir(s, "generate") EXCEPT !.since = @ + 1]]

Idle(p) == p \in live /\ todo[p] = 0

\* Bounds: the state stays within the steps and seeds that are explored.
RoomToStir(p) == Len(rng[p].state.steps) < MaxSteps
RoomToSeed == Len(owner) < MaxSeeds

\* randomize(): a request of n pieces, the first with the caller's input.
BeginRequest(p, n, input) ==
  /\ Idle(p)
  /\ todo' = [todo EXCEPT ![p] = n]
  /\ extra' = [extra EXCEPT ![p] = input]
  /\ UNCHANGED <<live, rng, owner, spent>>

PieceDone(p) ==
  /\ todo' = [todo EXCEPT ![p] = @ - 1]
  /\ extra' = [extra EXCEPT ![p] = FALSE]

Refuse(p) ==
  /\ todo' = [todo EXCEPT ![p] = 0]
  /\ extra' = [extra EXCEPT ![p] = FALSE]

\* A piece for which reseed_check() only counts.
Piece(p) ==
  /\ p \in live /\ todo[p] > 0
  /\ ~MustReseed(rng[p], p)
  /\ RoomToStir(p)
  /\ Generate(p, [rng[p] EXCEPT !.counter = @ + 1], extra[p])
  /\ PieceDone(p)
  /\ UNCHANGED <<live, owner>>

\* A piece for which it reseeds: the request goes on, or ends in an
\* exception, thrown by what it reseeds from or because it is still unseeded.
PieceReseeds(p, rngThrows, ans) ==
  LET r == Reseeded(BeginReseed(rng[p], p), p, rngThrows, ans)
  IN /\ p \in live /\ todo[p] > 0
     /\ MustReseed(rng[p], p)
     /\ RoomToSeed /\ RoomToStir(p)
     /\ Drawn(p, r.state.seed = NextSeed)
     /\ IF ReseedThrows(rngThrows, ans) \/ ~IsSeeded(r)
        THEN /\ rng' = [rng EXCEPT ![p] = r]
             /\ Refuse(p)
             /\ UNCHANGED spent
        ELSE /\ Generate(p, r, extra[p])
             /\ PieceDone(p)
     /\ UNCHANGED live

-----------------------------------------------------------------------------

\* add_entropy() of at least security_level() bits, or of less.
Feed(r, p, enough) ==
  IF enough THEN ResetCounter(Mix(r, NextSeed), p) ELSE Stir(r, "input")

Seeding(p, enough, r) ==
  /\ Idle(p)
  /\ IF enough THEN RoomToSeed ELSE RoomToStir(p)
  /\ rng' = [rng EXCEPT ![p] = Feed(r, p, enough)]
  /\ Drawn(p, enough)
  /\ UNCHANGED <<live, todo, extra, spent>>

\* add_entropy(), and reseed_from_rng() by the caller, which adds what the
\* other generator answers (nothing has changed when that one throws).
AddEntropy(p, enough) == Seeding(p, enough, rng[p])

\* clear() resets the counter, the process id and the state.
ClearedRng(r) == [NewRng EXCEPT !.since = r.since]

\* initialize_with(): clear() and add_entropy(), so that an input that is too short
\* leaves the generator unseeded.
InitializeWith(p, enough) == Seeding(p, enough, ClearedRng(rng[p]))

Clear(p) ==
  /\ Idle(p)
  /\ rng' = [rng EXCEPT ![p] = ClearedRng(@)]
  /\ UNCHANGED <<live, todo, extra, owner, spent>>

ForceReseed(p) ==
  /\ Idle(p)
  /\ rng' = [rng EXCEPT ![p].counter = 0]
  /\ UNCHANGED <<live, todo, extra, owner, spent>>

\* reseed_from_sources() by the caller.
CallReseedFromSources(p, ans) ==
  LET r == ReseedFromSources(rng[p], p, ans)
  IN /\ Idle(p)
     /\ RoomToSeed /\ RoomToStir(p)
     /\ rng' = [rng EXCEPT ![p] = r]
     /\ Drawn(p, r.state.seed = NextSeed)
     /\ UNCHANGED <<live, todo, extra, spent>>

\* fork(): the child has the parent's memory and a process id of its own.
Fork(p, c) ==
  /\ Idle(p)
  /\ c \in Procs \ live
  /\ live' = live \cup {c}
  /\ rng' = [rng EXCEPT ![c] = rng[p]]
  /\ UNCHANGED <<todo, extra, owner, spent>>

Polls == [1..NumSources -> Answers]

Next == \E p \in Procs :
  \/ \E n \in 1..MaxChunks, input \in BOOLEAN : BeginRequest(p, n, input)
  \/ Piece(p)
  \/ \E t \in BOOLEAN, ans \in Polls : PieceReseeds(p, t, ans)
  \/ \E enough \in BOOLEAN : AddEntropy(p, enough)
  \/ \E enough \in BOOLEAN : InitializeWith(p, enough)
  \/ \E ans \in Polls : CallReseedFromSources(p, ans)
  \/ Clear(p)
  \/ ForceReseed(p)
  \/ \E c \in Procs : Fork(p, c)

Spec == Init /\ [][Next]_vars

-----------------------------------------------------------------------------

\* Fork safety (doc/api_ref/rng.rst, "Fork Safety"): two processes never give
\* output from the same state, whatever the parent and the child did before
\* and after fork(), and however often reseeding failed in between.
NoSharedOutput ==
  \A p, q \in Procs : p # q => spent[p] \cap spent[q] = {}

\* Output only ever comes from a state whose last seed this very process
\* drew: an unseeded generator, and a child that could not reseed, refuse and
\* keep refusing (reseed_check() zeroes the counter before it reseeds).  That is
\* also what becomes of a generator given a short input by initialize_with(), as
\* the tests expect; the declaration of initialize_with() says that it counts as
\* initialized "regardless of the length of the input".
OutputIsFromOwnSeed ==
  \A p \in Procs : \A s \in spent[p] : s.seed # NoSeed /\ owner[s.seed] = p

\* "reseed_interval specifies a limit of how many times the RNG will be called
\* before automatic reseeding" (stateful_rng.h): pieces of long requests count.
IntervalRespected ==
  Interval > 0 => \A p \in Procs : IsSeeded(rng[p]) => rng[p].since <= Interval

=============================================================================
