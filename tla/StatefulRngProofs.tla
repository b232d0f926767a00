------------------------- MODULE StatefulRngProofs -------------------------
(***************************************************************************)
(* Fork safety and the reseed interval of Stateful_RNG, for any number of  *)
(* processes, sources and requests, and for every reseed interval.         *)
(***************************************************************************)
EXTENDS StatefulRng, TLAPS

States == [seed : Nat, steps : Seq({"input", "generate"})]
Rngs == [counter : Nat, last_pid : Nat, state : States, since : Nat]

\* A state's seed was drawn by p.
OwnSeed(state, p, o) == state.seed \in 1..Len(o) /\ o[state.seed] = p

\* The generator of p may say that it is seeded.  When m_last_pid is p too it
\* will answer, and then from a seed of its own.
OwnInv(r, p, o) ==
  /\ r.state.seed \in 0..Len(o)
  /\ r.counter > 0 => r.last_pid > 0
  /\ r.counter > 0 /\ r.last_pid = p => OwnSeed(r.state, p, o)

\* The counter is at least the number of outputs since it was reset.
CountInv(r) == Interval > 0 /\ r.counter > 0 => r.since <= r.counter /\ r.counter <= Interval

TypeInv ==
  /\ live \subseteq Procs
  /\ rng \in [Procs -> Rngs]
  /\ owner \in Seq(Procs)
  /\ spent \in [Procs -> SUBSET States]

Inv ==
  /\ TypeInv
  /\ \A p \in Procs : OwnInv(rng[p], p, owner) /\ CountInv(rng[p])
  /\ \A p \in Procs : rng[p].last_pid \in {0} \cup live
  /\ \A p \in Procs : \A s \in spent[p] : OwnSeed(s, p, owner)

-----------------------------------------------------------------------------

\* Who drew a seed is not forgotten when another is drawn.
LEMMA OwnersStay ==
  ASSUME owner \in Seq(Procs), NEW p \in Procs, NEW n \in BOOLEAN, Drawn(p, n)
  PROVE  /\ owner' \in Seq(Procs)
         /\ Len(owner) \in Nat
         /\ Len(owner') = IF n THEN NextSeed ELSE Len(owner)
         /\ \A i \in 1..Len(owner) : i \in 1..Len(owner') /\ owner'[i] = owner[i]
         /\ n => NextSeed \in 1..Len(owner') /\ owner'[NextSeed] = p
<1>1. CASE n
  BY <1>1 DEF Drawn, NextSeed
<1>2. CASE ~n
  BY <1>2 DEF Drawn
<1> QED
  BY <1>1, <1>2

LEMMA OwnSeedStays ==
  ASSUME owner \in Seq(Procs), NEW p \in Procs, NEW n \in BOOLEAN, Drawn(p, n),
         NEW s \in States, NEW q \in Procs, OwnSeed(s, q, owner)
  PROVE  OwnSeed(s, q, owner')
BY OwnersStay DEF OwnSeed

LEMMA OwnInvStays ==
  ASSUME owner \in Seq(Procs), NEW p \in Procs, NEW n \in BOOLEAN, Drawn(p, n),
         NEW r \in Rngs, NEW q \in Procs, OwnInv(r, q, owner)
  PROVE  OwnInv(r, q, owner')
<1>1. r.state \in States
  BY DEF Rngs
<1>2. 0..Len(owner) \subseteq 0..Len(owner')
  BY OwnersStay DEF NextSeed
<1> QED
  BY <1>1, <1>2, OwnSeedStays DEF OwnInv

\* What the operations leave in the fields.
LEMMA StirFields ==
  ASSUME NEW r \in Rngs, NEW what \in {"input", "generate"}
  PROVE  /\ Stir(r, what) \in Rngs
         /\ Stir(r, what).state.seed = r.state.seed
         /\ Stir(r, what).counter = r.counter
         /\ Stir(r, what).last_pid = r.last_pid
         /\ Stir(r, what).since = r.since
<1> DEFINE steps == Append(r.state.steps, what)
<1>1. r.state \in States /\ r.state.steps \in Seq({"input", "generate"}) /\ r.state.seed \in Nat
  BY DEF Rngs, States
<1>2. steps \in Seq({"input", "generate"})
  BY <1>1
<1>3. Stir(r, what) = [r EXCEPT !.state = [r.state EXCEPT !.steps = steps]]
  BY DEF Stir
<1> HIDE DEF steps
<1>4. /\ [r.state EXCEPT !.steps = steps] \in States
      /\ [r.state EXCEPT !.steps = steps].seed = r.state.seed
  BY <1>1, <1>2 DEF States
<1> QED
  BY <1>3, <1>4 DEF Rngs

LEMMA ResetFields ==
  ASSUME NEW r \in Rngs, NEW p \in Nat, NEW n \in Nat
  PROVE  LET x == ResetCounter(Mix(r, n), p)
         IN x \in Rngs /\ x.state.seed = n /\ x.counter = 1 /\ x.last_pid = p /\ x.since = 0
<1>1. [seed |-> n, steps |-> <<>>] \in States
  BY DEF States
<1> QED
  BY <1>1 DEF ResetCounter, Mix, Rngs

LEMMA BeginFields ==
  ASSUME NEW r \in Rngs, NEW p \in Nat
  PROVE  LET x == BeginReseed(r, p)
         IN /\ x \in Rngs /\ x.state.seed = r.state.seed
            /\ x.counter = 0 /\ x.last_pid = p
BY DEF BeginReseed, Rngs

LEMMA ClearedFields ==
  ASSUME NEW r \in Rngs
  PROVE  LET x == ClearedRng(r)
         IN x \in Rngs /\ x.state.seed = 0 /\ x.counter = 0 /\ x.last_pid = 0
<1>1. Cleared \in States /\ Cleared.seed = 0
  BY DEF Cleared, NoSeed, States
<1> QED
  BY <1>1 DEF ClearedRng, NewRng, Rngs

-----------------------------------------------------------------------------

\* Input adds to the state, or it replaces the seed and resets the counter.
Fed(x, r, p) ==
  \/ x \in Rngs /\ x.state.seed = r.state.seed /\ x.counter = r.counter
     /\ x.last_pid = r.last_pid /\ x.since = r.since
  \/ x \in Rngs /\ x.state.seed = NextSeed /\ x.counter = 1 /\ x.last_pid = p /\ x.since = 0

LEMMA ResetFeeds ==
  ASSUME NEW r \in Rngs, NEW p \in Nat, NextSeed \in Nat
  PROVE  /\ Fed(ResetCounter(Mix(r, NextSeed), p), r, p)
         /\ ResetCounter(Mix(r, NextSeed), p).state.seed = NextSeed
<1> DEFINE x == ResetCounter(Mix(r, NextSeed), p)
<1>1. x \in Rngs /\ x.state.seed = NextSeed /\ x.counter = 1 /\ x.last_pid = p /\ x.since = 0
  BY ResetFields
<1> HIDE DEF x
<1> QED
  BY <1>1 DEF Fed, x

LEMMA SourcesFeed ==
  ASSUME NEW r \in Rngs, NEW p \in Nat, NextSeed \in Nat, NEW ans
  PROVE  Fed(ReseedFromSources(r, p, ans), r, p)
<1> DEFINE said == {ans[i] : i \in 1..Polled(ans)}
<1>1. CASE said \cap {"full", "black_box"} # {}
  <2>1. ReseedFromSources(r, p, ans) = ResetCounter(Mix(r, NextSeed), p)
    BY <1>1 DEF ReseedFromSources
  <2> QED
    BY <2>1, ResetFeeds
<1>2. CASE said \cap {"full", "black_box"} = {}
  <2>1. ReseedFromSources(r, p, ans) \in {r, Stir(r, "input")}
    BY <1>2 DEF ReseedFromSources
  <2> QED
    BY <2>1, StirFields DEF Fed
<1> QED
  BY <1>1, <1>2

\* reseed_check() leaves a generator that is unseeded, or seeded by p itself.
LEMMA CheckReseeds ==
  ASSUME NEW r \in Rngs, NEW p \in Nat, NextSeed \in Nat, NEW t \in BOOLEAN, NEW ans
  PROVE  Fed(Reseeded(BeginReseed(r, p), p, t, ans), BeginReseed(r, p), p)
<1> DEFINE b == BeginReseed(r, p)
           x == ResetCounter(Mix(b, NextSeed), p)
<1>1. b \in Rngs /\ x \in Rngs /\ Fed(x, b, p) /\ Fed(b, b, p)
  BY BeginFields, ResetFields DEF Fed
<1>2. Fed(ReseedFromSources(b, p, ans), b, p)
  BY <1>1, SourcesFeed
<1>3. Fed(ReseedFromSources(x, p, ans), x, p)
  BY <1>1, SourcesFeed
<1>4. x.state.seed = NextSeed /\ x.counter = 1 /\ x.last_pid = p /\ x.since = 0
  BY <1>1, ResetFields
<1>5. Fed(ReseedFromSources(x, p, ans), b, p)
  BY <1>3, <1>4 DEF Fed
<1>6. Reseeded(b, p, t, ans) \in {b, ReseedFromSources(b, p, ans), ReseedFromSources(x, p, ans)}
  BY DEF Reseeded
<1> HIDE DEF b, x
<1> QED
  BY <1>1, <1>2, <1>5, <1>6 DEF b

\* A step of p that leaves it with the generator x and, if it gives output,
\* with that state among those it has spent.
LEMMA StepInv ==
  ASSUME Inv, NEW p \in live, NEW n \in BOOLEAN, Drawn(p, n), NEW x \in Rngs,
         rng' = [rng EXCEPT ![p] = x], live' = live,
         OwnInv(x, p, owner'), CountInv(x), x.last_pid \in {0} \cup live,
         NEW S \in SUBSET States, spent' = [spent EXCEPT ![p] = @ \cup S],
         \A s \in S : OwnSeed(s, p, owner')
  PROVE  Inv'
<1>1. p \in Procs /\ TypeInv /\ owner \in Seq(Procs)
  BY DEF Inv, TypeInv
<1>2. TypeInv'
  <2>1. owner' \in Seq(Procs)
    BY <1>1, OwnersStay
  <2> QED
    BY <1>1, <2>1 DEF TypeInv
<1>3. \A q \in Procs : q # p => rng'[q] = rng[q] /\ spent'[q] = spent[q]
  BY <1>1 DEF TypeInv
<1>4. rng'[p] = x /\ spent'[p] = spent[p] \cup S
  BY <1>1 DEF TypeInv
<1>5. \A q \in Procs : OwnInv(rng[q], q, owner')
  BY <1>1, OwnInvStays DEF Inv, TypeInv
<1>6. \A q \in Procs : \A s \in spent[q] : OwnSeed(s, q, owner')
  BY <1>1, OwnSeedStays DEF Inv, TypeInv
<1>7. \A q \in Procs : OwnInv(rng'[q], q, owner') /\ CountInv(rng'[q])
  BY <1>3, <1>4, <1>5 DEF Inv
<1>8. \A q \in Procs : rng'[q].last_pid \in {0} \cup live'
  BY <1>3, <1>4 DEF Inv
<1>9. \A q \in Procs : \A s \in spent'[q] : OwnSeed(s, q, owner')
  BY <1>3, <1>4, <1>6
<1> QED
  BY <1>2, <1>7, <1>8, <1>9 DEF Inv, OwnInv, CountInv, OwnSeed

\* What input leaves is sound, whether it reseeds or not.
LEMMA FedInv ==
  ASSUME Inv, NEW p \in live, NEW r \in Rngs, NEW x, Fed(x, r, p),
         r.state.seed \in 0..Len(owner), Drawn(p, x.state.seed = NextSeed),
         OwnInv(r, p, owner), CountInv(r), r.last_pid \in {0} \cup live
  PROVE  /\ x \in Rngs /\ OwnInv(x, p, owner') /\ CountInv(x)
         /\ x.last_pid \in {0} \cup live
<1>1. /\ p \in Procs /\ owner \in Seq(Procs) /\ x \in Rngs /\ r.state \in States
      /\ p \in Nat /\ p > 0 /\ Len(owner) \in Nat
  BY StatefulRngAssumption DEF Inv, TypeInv, Fed, Rngs
<1>2. CASE x.state.seed = NextSeed
  <2>1. x.state.seed # r.state.seed
    BY <1>1, <1>2 DEF NextSeed
  <2>2. x.counter = 1 /\ x.last_pid = p /\ x.since = 0
    BY <2>1 DEF Fed
  <2>3. Drawn(p, TRUE)
    BY <1>2 DEF Drawn
  <2>4. NextSeed \in 1..Len(owner') /\ owner'[NextSeed] = p
    BY <1>1, <2>3, OwnersStay
  <2>5. OwnInv(x, p, owner')
    BY <1>1, <1>2, <2>2, <2>4 DEF OwnInv, OwnSeed
  <2>6. CountInv(x)
    BY <2>2, StatefulRngAssumption DEF CountInv
  <2> QED
    BY <1>1, <2>2, <2>5, <2>6
<1>3. CASE x.state.seed # NextSeed
  <2>1. /\ x.state.seed = r.state.seed /\ x.counter = r.counter
        /\ x.last_pid = r.last_pid /\ x.since = r.since
    BY <1>3 DEF Fed
  <2>2. owner' = owner
    BY <1>3 DEF Drawn
  <2> QED
    BY <1>1, <2>1, <2>2 DEF OwnInv, OwnSeed, CountInv
<1> QED
  BY <1>2, <1>3

\* generate_output() from a generator that is sound, seeded and p's own.
LEMMA GenerateInv ==
  ASSUME Inv, NEW p \in live, NEW n \in BOOLEAN, Drawn(p, n), NEW r \in Rngs, NEW b \in BOOLEAN,
         OwnSeed(r.state, p, owner'), r.last_pid = p, r.counter > 0,
         Interval > 0 => r.since < r.counter /\ r.counter <= Interval,
         Generate(p, r, b), live' = live
  PROVE  Inv'
<1> DEFINE s == IF b THEN Stir(r, "input") ELSE r
           g == Stir(s, "generate")
           x == [g EXCEPT !.since = @ + 1]
<1>1. /\ s \in Rngs /\ s.state.seed = r.state.seed /\ s.counter = r.counter
      /\ s.last_pid = p /\ s.since = r.since
  BY StirFields
<1> HIDE DEF s
<1>2. /\ g \in Rngs /\ g.state.seed = r.state.seed /\ g.counter = r.counter
      /\ g.last_pid = p /\ g.since = r.since
  BY <1>1, StirFields
<1> HIDE DEF g
<1>3. /\ x \in Rngs /\ x.state.seed = r.state.seed /\ x.counter = r.counter
      /\ x.last_pid = p /\ x.since = r.since + 1
  BY <1>2 DEF Rngs, States
<1>4. rng' = [rng EXCEPT ![p] = x] /\ spent' = [spent EXCEPT ![p] = @ \cup {s.state}]
  BY DEF Generate, s, g
<1> HIDE DEF x
<1>5. s.state \in States /\ p \in Nat /\ p > 0 /\ p \in Procs
  BY <1>1, StatefulRngAssumption DEF Rngs, Inv, TypeInv
<1>6. OwnSeed(s.state, p, owner') /\ OwnSeed(x.state, p, owner')
  BY <1>1, <1>3 DEF OwnSeed
<1>7. owner \in Seq(Procs) /\ owner' \in Seq(Procs) /\ Len(owner') \in Nat
  BY <1>5, OwnersStay DEF Inv, TypeInv
<1>8. OwnInv(x, p, owner')
  BY <1>3, <1>5, <1>6, <1>7 DEF OwnInv, OwnSeed
<1>9. CountInv(x)
  BY <1>3, StatefulRngAssumption DEF CountInv, Rngs
<1> DEFINE S == {s.state}
<1>10. S \in SUBSET States /\ \A z \in S : OwnSeed(z, p, owner')
  BY <1>5, <1>6
<1>11. spent' = [spent EXCEPT ![p] = @ \cup S]
  BY <1>4
<1>12. x.last_pid \in {0} \cup live
  BY <1>3
<1>13. x \in Rngs /\ rng' = [rng EXCEPT ![p] = x]
  BY <1>3, <1>4
<1> HIDE DEF S
<1> QED
  BY <1>8, <1>9, <1>10, <1>11, <1>12, <1>13, StepInv

-----------------------------------------------------------------------------

LEMMA InitInv == Init => Inv
<1> SUFFICES ASSUME Init PROVE Inv
  OBVIOUS
<1>1. NewRng \in Rngs /\ NewRng.state.seed = 0 /\ NewRng.counter = 0 /\ NewRng.last_pid = 0
  BY DEF NewRng, Cleared, NoSeed, Rngs, States
<1>2. First \in Procs
  BY StatefulRngAssumption DEF First
<1>3. owner = <<>> /\ owner \in Seq(Procs) /\ Len(owner) = 0
  BY DEF Init
<1>4. TypeInv
  BY <1>1, <1>2, <1>3 DEF Init, TypeInv
<1>5. \A p \in Procs : rng[p] = NewRng /\ spent[p] = {}
  BY DEF Init
<1> QED
  BY <1>1, <1>3, <1>4, <1>5 DEF Inv, OwnInv, CountInv

LEMMA PieceInv == ASSUME Inv, NEW p \in Procs, Piece(p) PROVE Inv'
<1> DEFINE r == [rng[p] EXCEPT !.counter = @ + 1]
<1>1. /\ p \in live /\ rng[p] \in Rngs /\ p \in Nat /\ p > 0
      /\ OwnInv(rng[p], p, owner) /\ CountInv(rng[p])
  BY StatefulRngAssumption DEF Inv, TypeInv, Piece
<1>2. /\ rng[p].counter > 0 /\ rng[p].last_pid = p
      /\ Interval > 0 => rng[p].counter < Interval
  BY <1>1, StatefulRngAssumption DEF Piece, MustReseed, IsSeeded, ForkDetected, OwnInv, Rngs
<1>3. /\ r \in Rngs /\ r.state = rng[p].state /\ r.last_pid = p
      /\ r.counter = rng[p].counter + 1 /\ r.since = rng[p].since
      /\ rng[p].counter \in Nat /\ rng[p].since \in Nat
  BY <1>1, <1>2 DEF Rngs
<1>4. Generate(p, r, extra[p]) /\ owner' = owner /\ live' = live
  BY DEF Piece
<1> HIDE DEF r
<1>5. OwnSeed(r.state, p, owner')
  BY <1>1, <1>2, <1>3, <1>4 DEF OwnInv
<1>6. r.counter > 0 /\ (Interval > 0 => r.since < r.counter /\ r.counter <= Interval)
  BY <1>1, <1>2, <1>3, StatefulRngAssumption DEF CountInv
<1>7. Drawn(p, FALSE)
  BY <1>4 DEF Drawn
<1>8. CASE extra[p]
  <2>1. Generate(p, r, TRUE)
    BY <1>4, <1>8 DEF Generate
  <2> QED
    BY <1>1, <1>3, <1>4, <1>5, <1>6, <1>7, <2>1, GenerateInv
<1>9. CASE ~extra[p]
  <2>1. Generate(p, r, FALSE)
    BY <1>4, <1>9 DEF Generate
  <2> QED
    BY <1>1, <1>3, <1>4, <1>5, <1>6, <1>7, <2>1, GenerateInv
<1> QED
  BY <1>8, <1>9

\* What a reseeding that ends unseeded, or in an exception, leaves.
LEMMA NoOutputInv ==
  ASSUME Inv, NEW p \in live, NEW n \in BOOLEAN, Drawn(p, n), NEW x \in Rngs,
         rng' = [rng EXCEPT ![p] = x], UNCHANGED <<live, spent>>,
         OwnInv(x, p, owner'), CountInv(x), x.last_pid \in {0} \cup live
  PROVE  Inv'
<1>1. spent' = [spent EXCEPT ![p] = @ \cup {}]
  BY DEF Inv, TypeInv
<1>2. {} \in SUBSET States /\ \A s \in {} : OwnSeed(s, p, owner')
  OBVIOUS
<1> QED
  BY <1>1, <1>2, StepInv

LEMMA PieceReseedsInv ==
  ASSUME Inv, NEW p \in Procs, NEW t \in BOOLEAN, NEW ans, PieceReseeds(p, t, ans)
  PROVE  Inv'
<1> DEFINE b == BeginReseed(rng[p], p)
           r == Reseeded(b, p, t, ans)
           n == r.state.seed = NextSeed
<1>1. /\ p \in live /\ rng[p] \in Rngs /\ p \in Nat /\ p > 0
      /\ owner \in Seq(Procs) /\ Len(owner) \in Nat /\ NextSeed \in Nat
      /\ rng[p].state.seed \in 0..Len(owner)
  BY StatefulRngAssumption DEF Inv, TypeInv, PieceReseeds, NextSeed, OwnInv
<1>2. b \in Rngs /\ b.state.seed = rng[p].state.seed /\ b.counter = 0 /\ b.last_pid = p
  BY <1>1, BeginFields
<1>3. Fed(r, b, p)
  BY <1>1, CheckReseeds
<1>4. Drawn(p, n) /\ n \in BOOLEAN /\ live' = live
  BY DEF PieceReseeds
<1> HIDE DEF b
<1>5. OwnInv(b, p, owner) /\ CountInv(b)
  BY <1>1, <1>2, StatefulRngAssumption DEF OwnInv, CountInv
<1>6. CASE ReseedThrows(t, ans) \/ ~IsSeeded(r)
  <2>1. rng' = [rng EXCEPT ![p] = r] /\ UNCHANGED <<live, spent>>
    BY <1>6 DEF PieceReseeds, b
  <2> HIDE DEF r
  <2>2. /\ r \in Rngs /\ OwnInv(r, p, owner') /\ CountInv(r)
        /\ r.last_pid \in {0} \cup live
    BY <1>1, <1>2, <1>3, <1>4, <1>5, FedInv
  <2> QED
    BY <1>1, <1>4, <2>1, <2>2, NoOutputInv
<1>7. CASE ~ReseedThrows(t, ans) /\ IsSeeded(r)
  <2>1. Generate(p, r, extra[p])
    BY <1>7 DEF PieceReseeds, b
  <2> HIDE DEF r
  <2>2. /\ r \in Rngs /\ r.state.seed = NextSeed /\ r.counter = 1
        /\ r.last_pid = p /\ r.since = 0
    BY <1>2, <1>3, <1>7 DEF Fed, IsSeeded
  <2>3. Drawn(p, TRUE)
    BY <1>4, <2>2 DEF Drawn
  <2>4. OwnSeed(r.state, p, owner')
    BY <1>1, <2>2, <2>3, OwnersStay DEF OwnSeed
  <2>5. r.counter > 0 /\ (Interval > 0 => r.since < r.counter /\ r.counter <= Interval)
    BY <2>2, StatefulRngAssumption
  <2>6. CASE extra[p]
    <3>1. Generate(p, r, TRUE)
      BY <2>1, <2>6 DEF Generate
    <3> QED
      BY <1>1, <1>4, <2>2, <2>3, <2>4, <2>5, <3>1, GenerateInv
  <2>7. CASE ~extra[p]
    <3>1. Generate(p, r, FALSE)
      BY <2>1, <2>7 DEF Generate
    <3> QED
      BY <1>1, <1>4, <2>2, <2>3, <2>4, <2>5, <3>1, GenerateInv
  <2> QED
    BY <2>6, <2>7
<1> QED
  BY <1>6, <1>7

LEMMA SeedingInv ==
  ASSUME Inv, NEW p \in Procs, NEW e \in BOOLEAN, NEW r \in Rngs, Seeding(p, e, r),
         OwnInv(r, p, owner), CountInv(r), r.last_pid \in {0} \cup live
  PROVE  Inv'
<1> DEFINE x == Feed(r, p, e)
<1>1. /\ p \in live /\ p \in Nat /\ Len(owner) \in Nat /\ NextSeed \in Nat
      /\ r.state.seed \in 0..Len(owner) /\ r.state.seed # NextSeed
  BY StatefulRngAssumption DEF Inv, TypeInv, Seeding, Idle, NextSeed, OwnInv
<1>2. Fed(x, r, p) /\ (e <=> x.state.seed = NextSeed)
  <2>1. CASE e
    <3>1. x = ResetCounter(Mix(r, NextSeed), p)
      BY <2>1 DEF Feed
    <3> QED
      BY <1>1, <2>1, <3>1, ResetFeeds
  <2>2. CASE ~e
    <3> DEFINE y == Stir(r, "input")
    <3>1. /\ y \in Rngs /\ y.state.seed = r.state.seed /\ y.counter = r.counter
          /\ y.last_pid = r.last_pid /\ y.since = r.since
      BY StirFields
    <3>2. x = y
      BY <2>2 DEF Feed
    <3> HIDE DEF x, y
    <3> QED
      BY <1>1, <2>2, <3>1, <3>2 DEF Fed
  <2> QED
    BY <2>1, <2>2
<1>3. rng' = [rng EXCEPT ![p] = x] /\ UNCHANGED <<live, spent>> /\ Drawn(p, e)
  BY DEF Seeding
<1> HIDE DEF x
<1>4. Drawn(p, x.state.seed = NextSeed)
  BY <1>2, <1>3 DEF Drawn
<1>5. x \in Rngs /\ OwnInv(x, p, owner') /\ CountInv(x) /\ x.last_pid \in {0} \cup live
  BY <1>1, <1>2, <1>4, FedInv
<1> QED
  BY <1>1, <1>3, <1>5, NoOutputInv

\* clear() leaves a generator that is not seeded.
LEMMA ClearedInv ==
  ASSUME Inv, NEW p \in Procs
  PROVE  LET x == ClearedRng(rng[p])
         IN x \in Rngs /\ OwnInv(x, p, owner) /\ CountInv(x) /\ x.last_pid \in {0} \cup live
<1>1. rng[p] \in Rngs /\ Len(owner) \in Nat
  BY DEF Inv, TypeInv
<1> DEFINE x == ClearedRng(rng[p])
<1>2. x \in Rngs /\ x.state.seed = 0 /\ x.counter = 0 /\ x.last_pid = 0
  BY <1>1, ClearedFields
<1> HIDE DEF x
<1>3. OwnInv(x, p, owner) /\ CountInv(x) /\ x.last_pid \in {0} \cup live
  BY <1>1, <1>2 DEF OwnInv, CountInv
<1> QED
  BY <1>2, <1>3 DEF x

LEMMA ClearInv == ASSUME Inv, NEW p \in Procs, Clear(p) PROVE Inv'
<1>1. /\ p \in live /\ rng' = [rng EXCEPT ![p] = ClearedRng(rng[p])]
      /\ UNCHANGED <<live, spent, owner>>
  BY DEF Clear, Idle
<1>2. Drawn(p, FALSE)
  BY <1>1 DEF Drawn
<1> DEFINE x == ClearedRng(rng[p])
<1>3. x \in Rngs /\ OwnInv(x, p, owner) /\ CountInv(x) /\ x.last_pid \in {0} \cup live
  BY ClearedInv
<1> HIDE DEF x
<1>4. OwnInv(x, p, owner')
  BY <1>1, <1>3
<1> QED
  BY <1>1, <1>2, <1>3, <1>4, NoOutputInv DEF x

LEMMA ForceReseedInv == ASSUME Inv, NEW p \in Procs, ForceReseed(p) PROVE Inv'
<1> DEFINE x == [rng[p] EXCEPT !.counter = 0]
<1>1. /\ p \in live /\ rng' = [rng EXCEPT ![p] = x] /\ UNCHANGED <<live, spent, owner>>
  BY DEF ForceReseed, Idle
<1>2. Drawn(p, FALSE)
  BY <1>1 DEF Drawn
<1>3. /\ rng[p] \in Rngs /\ OwnInv(rng[p], p, owner)
      /\ rng[p].last_pid \in {0} \cup live
  BY DEF Inv, TypeInv
<1>4. /\ x \in Rngs /\ x.counter = 0 /\ x.state = rng[p].state
      /\ x.last_pid = rng[p].last_pid
  BY <1>3 DEF Rngs
<1> HIDE DEF x
<1>5. OwnInv(x, p, owner') /\ CountInv(x)
  BY <1>1, <1>3, <1>4 DEF OwnInv, CountInv
<1> QED
  BY <1>1, <1>2, <1>3, <1>4, <1>5, NoOutputInv

LEMMA CallReseedInv ==
  ASSUME Inv, NEW p \in Procs, NEW ans, CallReseedFromSources(p, ans) PROVE Inv'
<1> DEFINE x == ReseedFromSources(rng[p], p, ans)
<1>1. /\ p \in live /\ p \in Nat /\ NextSeed \in Nat /\ rng[p] \in Rngs
      /\ OwnInv(rng[p], p, owner) /\ CountInv(rng[p])
      /\ rng[p].last_pid \in {0} \cup live
      /\ rng[p].state.seed \in 0..Len(owner)
  BY StatefulRngAssumption DEF Inv, TypeInv, CallReseedFromSources, Idle, NextSeed, OwnInv
<1>2. Fed(x, rng[p], p)
  BY <1>1, SourcesFeed
<1>3. /\ rng' = [rng EXCEPT ![p] = x] /\ UNCHANGED <<live, spent>>
      /\ Drawn(p, x.state.seed = NextSeed)
  BY DEF CallReseedFromSources
<1> HIDE DEF x
<1>4. x \in Rngs /\ OwnInv(x, p, owner') /\ CountInv(x) /\ x.last_pid \in {0} \cup live
  BY <1>1, <1>2, <1>3, FedInv
<1> QED
  BY <1>1, <1>3, <1>4, NoOutputInv

\* A child's m_last_pid is that of a process that ran before it.
LEMMA ForkInv == ASSUME Inv, NEW p \in Procs, NEW c \in Procs, Fork(p, c) PROVE Inv'
<1>1. /\ p \in live /\ c \notin live /\ c > 0 /\ c \in Nat /\ live' = live \cup {c}
      /\ rng' = [rng EXCEPT ![c] = rng[p]] /\ UNCHANGED <<owner, spent>>
  BY StatefulRngAssumption DEF Fork, Idle
<1>2. TypeInv'
  BY <1>1 DEF Inv, TypeInv
<1>3. rng'[c] = rng[p] /\ \A q \in Procs : q # c => rng'[q] = rng[q]
  BY <1>1 DEF Inv, TypeInv
<1>4. rng[p].last_pid # c /\ rng[p].last_pid \in {0} \cup live
  BY <1>1 DEF Inv
<1>5. OwnInv(rng[p], c, owner) /\ CountInv(rng[p])
  BY <1>4 DEF Inv, OwnInv
<1>6. \A q \in Procs : OwnInv(rng'[q], q, owner') /\ CountInv(rng'[q])
  BY <1>1, <1>3, <1>5 DEF Inv
<1>7. \A q \in Procs : rng'[q].last_pid \in {0} \cup live'
  BY <1>1, <1>3, <1>4 DEF Inv
<1>8. \A q \in Procs : \A s \in spent'[q] : OwnSeed(s, q, owner')
  BY <1>1 DEF Inv
<1> QED
  BY <1>2, <1>6, <1>7, <1>8 DEF Inv, OwnInv, CountInv, OwnSeed

LEMMA NextInv == Inv /\ [Next]_vars => Inv'
<1> SUFFICES ASSUME Inv, [Next]_vars PROVE Inv'
  OBVIOUS
<1>1. CASE UNCHANGED <<live, rng, owner, spent>>
  BY <1>1 DEF Inv, TypeInv, OwnInv, CountInv, OwnSeed
<1>2. ASSUME NEW p \in Procs, NEW e \in BOOLEAN, AddEntropy(p, e) PROVE Inv'
  BY <1>2, SeedingInv DEF AddEntropy, Inv, TypeInv
<1>3. ASSUME NEW p \in Procs, NEW e \in BOOLEAN, InitializeWith(p, e) PROVE Inv'
  BY <1>3, SeedingInv, ClearedInv DEF InitializeWith
<1>4. ASSUME NEW p \in Procs, NEW n \in 1..MaxChunks, NEW b \in BOOLEAN, BeginRequest(p, n, b)
      PROVE  UNCHANGED <<live, rng, owner, spent>>
  BY <1>4 DEF BeginRequest
<1>5. CASE UNCHANGED vars
  BY <1>1, <1>5 DEF vars
<1> QED
  BY <1>1, <1>2, <1>3, <1>4, <1>5, PieceInv, PieceReseedsInv, CallReseedInv, ClearInv,
     ForceReseedInv, ForkInv DEF Next

\* Throughout, a generator that is seeded and in the process it thinks it is in
\* has a last seed of that process, and its counter is that of its answers.
THEOREM InvHolds == Spec => []Inv
BY InitInv, NextInv, PTL DEF Spec

-----------------------------------------------------------------------------

\* A process gives output only from a state whose last seed it drew itself:
\* not before it is seeded, and in a child of fork() not before that child
\* has reseeded, however often reseed_check() failed meanwhile.
THEOREM OwnSeedOnly == Spec => []OutputIsFromOwnSeed
<1>1. Inv => OutputIsFromOwnSeed
  BY DEF Inv, OwnSeed, OutputIsFromOwnSeed, NoSeed
<1> QED
  BY <1>1, InvHolds, PTL

\* Fork safety: no two processes ever give output from the same state.
THEOREM ForkSafety == Spec => []NoSharedOutput
<1>1. OutputIsFromOwnSeed => NoSharedOutput
  BY DEF OutputIsFromOwnSeed, NoSharedOutput
<1> QED
  BY <1>1, OwnSeedOnly, PTL

\* A seeded generator has answered at most m_reseed_interval times since its
\* reseed counter was last reset, pieces of long requests included.
THEOREM IntervalIsRespected == Spec => []IntervalRespected
<1>1. Inv => IntervalRespected
  BY StatefulRngAssumption DEF Inv, TypeInv, CountInv, IntervalRespected, IsSeeded, Rngs
<1> QED
  BY <1>1, InvHolds, PTL
=============================================================================
