----------------------------- MODULE JitterRng ------------------------------
(***************************************************************************)
(* Jittered<W>: the SplitMix64 generator behind the four kinds of jitter,  *)
(* the nonce counter that tells instances apart, and the threads that      *)
(* share an instance by reference. Words have WordSize values instead of   *)
(* 2^64; one unit of a Duration is a nanosecond.                           *)
(***************************************************************************)
EXTENDS Strategies, Sequences, FiniteSets

CONSTANTS
  WordSize,           \* number of values of a u64
  Gamma,              \* SplitMix64 increment
  Shifts,             \* its three shifts
  Multipliers,        \* its two multipliers
  ExclusiveOr(_, _),  \* bitwise exclusive or of two words
  DefaultSeed,        \* DEFAULT_JITTER_SEED
  Targets,            \* what the crate is compiled for: whether there are 64-bit
                      \* atomics, and what next_jitter_nonce is there
  Threads, Instances,
  Kinds, MaxJitter,   \* the kinds in use; the width of the additive one
  Seeds, Nonces,      \* arguments of with_seed and with_nonce
  Bases, Previous,    \* inner waits, and previous delays of the state
  MaxDraws,           \* bound: draws from one instance
  MaxNonces           \* bound: nonces handed out

Word == 0 .. WordSize - 1

ASSUME WordAssumption ==
    /\ WordSize \in Nat \ {0}
    /\ Gamma \in Word
    /\ DefaultSeed \in Word
    /\ \A a, b \in Word : ExclusiveOr(a, b) \in Word
    /\ Shifts \in Seq(Nat) /\ Len(Shifts) = 3
    /\ \A z \in Word, k \in 1 .. 3 : z \div 2 ^ Shifts[k] \in Word
    /\ Multipliers \in Seq(Word) /\ Len(Multipliers) = 2

\* WordSize is a power of two and GAMMA is odd.
ASSUME GammaAssumption == \A n \in 1 .. WordSize - 1 : (n * Gamma) % WordSize # 0

ASSUME XorAssumption ==
    \A a, b, c \in Word : ExclusiveOr(a, b) = ExclusiveOr(a, c) => b = c

ASSUME JitterAssumption ==
    /\ Targets \subseteq [atomic64 : BOOLEAN,
                          nonces : {"counter", "counter and time", "constant"}]
    /\ Kinds \subseteq {"additive", "full", "equal", "decorrelated"}
    /\ MaxJitter \in Duration
    /\ MaxNonces \in Word \ {0}
    /\ IsFiniteSet(Threads)
    /\ MaxDraws \in Nat
    /\ Seeds \subseteq Word
    /\ Nonces \subseteq Word
    /\ Bases \subseteq Duration
    /\ Previous \subseteq MaybeDuration

VARIABLES
  target,     \* one of Targets
  counter,    \* JITTER_NONCE_COUNTER
  jittered,   \* the instances: kind, seed and generator state, or Absent
  call,       \* what each thread is doing inside next_wait
  label,      \* history: the seed and nonce an instance was last given
  taken       \* history: the states each instance has drawn since then

vars == <<target, counter, jittered, call, label, taken>>

Absent == [kind |-> "absent"]

Idle == [pc |-> "idle"]

\* The nonce of an instance that was not given one by its owner. Each is
\* told apart from every other.
Fresh(n) == <<"fresh", n>>
Derived  == <<"derived">>
Given(n) == <<"given", n>>

-----------------------------------------------------------------------------
\* SplitMix64.

\* Mutant: the addition does not wrap.
AdvancedUnwrapped(state) == state + Gamma

Advanced(state) == (state + Gamma) % WordSize

Stage(z, shift, multiplier) ==
    (ExclusiveOr(z, z \div 2 ^ shift) * multiplier) % WordSize

Mix(state) ==
    LET a == Stage(state, Shifts[1], Multipliers[1])
        b == Stage(a, Shifts[2], Multipliers[2])
    IN  ExclusiveOr(b, b \div 2 ^ Shifts[3])

\* Mutant: the range is one too wide.
BoundedTooWide(state, max) == Mix(state) % (max + 2)

\* The answer in 0 .. max that the state just drawn gives. The range is a word,
\* and would wrap to nothing for the largest max.
Bounded(state, max) ==
    IF max = WordSize - 1 THEN Mix(state) ELSE Mix(state) % ((max + 1) % WordSize)

SeededRng(seed, nonce) == ExclusiveOr(seed, nonce)

DeriveNonce(seed) == Mix(Advanced(seed))

\* The nonces next_jitter_nonce may return now: the wall clock reads anything.
NextNonces ==
    CASE target.nonces = "counter"          -> { counter }
      [] target.nonces = "counter and time" -> { ExclusiveOr(counter, nanos) : nanos \in Word }
      [] target.nonces = "constant"         -> { 1 }

\* Mutant: a counter that is read and not advanced.
CountNonceLost ==
    /\ counter < MaxNonces
    /\ counter' = counter

CountNonce ==
    /\ counter < MaxNonces
    /\ counter' = IF target.nonces = "constant" THEN counter ELSE counter + 1

-----------------------------------------------------------------------------
\* The draw: where the range starts and ends, and what is added to it.

Lower(c) == IF c.kind = "decorrelated" THEN c.base ELSE 0

Upper(c) ==
    CASE c.kind = "additive"     -> MaxJitter
      [] c.kind = "full"         -> c.base
      [] c.kind = "equal"        -> c.base \div 2
      [] c.kind = "decorrelated" ->
            SatMul(IF c.previous = None THEN c.base ELSE c.previous, 3)

Offset(c) ==
    CASE c.kind = "additive" -> c.base
      [] c.kind = "equal"    -> c.base \div 2
      [] OTHER               -> 0

RangeNanos(c) == SatSub(Upper(c), Lower(c))

EmptyRange(c) == RangeNanos(c) = 0

Answer(c) ==
    LET random == IF EmptyRange(c) THEN 0
                  ELSE Bounded(c.word, Least(RangeNanos(c), WordSize - 1))
    IN  SatAdd(Offset(c), SatAdd(Lower(c), random))

-----------------------------------------------------------------------------
Init ==
    /\ target \in Targets
    /\ counter = 1
    /\ jittered = [i \in Instances |-> Absent]
    /\ call = [t \in Threads |-> Idle]
    /\ label = [i \in Instances |-> <<>>]
    /\ taken = [i \in Instances |-> <<>>]

Exists(i) == jittered[i] # Absent

\* A thread is inside next_wait of the instance.
Users(i) == { t \in Threads : call[t].pc # "idle" /\ call[t].inst = i }

\* Ownership: a builder method consumes the instance, so nothing borrows it.
Owned(i) == Exists(i) /\ Users(i) = {}

Install(i, kind, seed, nonce, mark) ==
    /\ jittered' = [jittered EXCEPT ![i] =
                      [kind |-> kind, seed |-> seed, state |-> SeededRng(seed, nonce)]]
    /\ label' = [label EXCEPT ![i] = <<seed, mark>>]
    /\ taken' = [taken EXCEPT ![i] = <<>>]
    /\ UNCHANGED <<target, call>>

New(i) ==
    /\ ~Exists(i)
    /\ CountNonce
    /\ \E kind \in Kinds, nonce \in NextNonces :
          Install(i, kind, DefaultSeed, nonce, Fresh(counter))

Clone(i, j) ==
    /\ Exists(i) /\ ~Exists(j)
    /\ CountNonce
    /\ \E nonce \in NextNonces :
          Install(j, jittered[i].kind, jittered[i].seed, nonce, Fresh(counter))

\* Mutant: the generator keeps the nonce it had.
WithSeedKeepingNonce(i, seed) ==
    /\ Owned(i)
    /\ Install(i, jittered[i].kind, seed, ExclusiveOr(jittered[i].seed, jittered[i].state), Derived)
    /\ UNCHANGED counter

WithSeed(i, seed) ==
    /\ Owned(i)
    /\ Install(i, jittered[i].kind, seed, DeriveNonce(seed), Derived)
    /\ UNCHANGED counter

WithNonce(i, nonce) ==
    /\ Owned(i)
    /\ Install(i, jittered[i].kind, jittered[i].seed, nonce, Given(nonce))
    /\ UNCHANGED counter

-----------------------------------------------------------------------------
\* next_wait. Without 64-bit atomics the type is not Sync: one thread at a
\* time may hold a reference.

\* Mutant: a Cell shared by threads.
ShareableAlways(i) == TRUE

Shareable(i) == target.atomic64 \/ Users(i) = {}

Ask(t, i, base, previous) ==
    /\ call[t].pc = "idle"
    /\ Exists(i)
    /\ Len(taken[i]) + Cardinality(Users(i)) < MaxDraws
    /\ Shareable(i)
    /\ LET c == [pc |-> "asked", inst |-> i, kind |-> jittered[i].kind,
                 base |-> base, previous |-> previous, word |-> 0]
       IN  call' = [call EXCEPT ![t] = IF EmptyRange(c) THEN [c EXCEPT !.pc = "drawn"] ELSE c]
    /\ UNCHANGED <<target, counter, jittered, label, taken>>

Draw(t, word) ==
    LET i == call[t].inst
    IN  /\ jittered' = [jittered EXCEPT ![i].state = word]
        /\ taken' = [taken EXCEPT ![i] = Append(@, word)]
        /\ call' = [call EXCEPT ![t].pc = "drawn", ![t].word = word]
        /\ UNCHANGED <<target, counter, label>>

\* AtomicU64::fetch_add.
FetchAdd(t) ==
    /\ target.atomic64
    /\ call[t].pc = "asked"
    /\ Draw(t, Advanced(jittered[call[t].inst].state))

\* Cell::get, then Cell::set.
Load(t) ==
    /\ ~target.atomic64
    /\ call[t].pc = "asked"
    /\ call' = [call EXCEPT ![t].pc = "loaded",
                            ![t].word = Advanced(jittered[call[t].inst].state)]
    /\ UNCHANGED <<target, counter, jittered, label, taken>>

Store(t) ==
    /\ call[t].pc = "loaded"
    /\ Draw(t, call[t].word)

Return(t) ==
    /\ call[t].pc = "drawn"
    /\ call' = [call EXCEPT ![t] = Idle]
    /\ UNCHANGED <<target, counter, jittered, label, taken>>

Next ==
    \/ \E i \in Instances : New(i)
    \/ \E i, j \in Instances : Clone(i, j)
    \/ \E i \in Instances, seed \in Seeds : WithSeed(i, seed)
    \/ \E i \in Instances, nonce \in Nonces : WithNonce(i, nonce)
    \/ \E t \in Threads, i \in Instances, base \in Bases, previous \in Previous :
          Ask(t, i, base, previous)
    \/ \E t \in Threads : FetchAdd(t) \/ Load(t) \/ Store(t) \/ Return(t)

Spec == Init /\ [][Next]_vars

-----------------------------------------------------------------------------
(***************************************************************************)
(* Type correctness.                                                       *)
(***************************************************************************)
TypeOK ==
    /\ target \in Targets
    /\ counter \in 1 .. MaxNonces
    /\ \A i \in Instances :
          \/ jittered[i] = Absent /\ label[i] = <<>> /\ taken[i] = <<>>
          \/ /\ jittered[i] \in [kind : Kinds, seed : Word, state : Word]
             /\ label[i][1] = jittered[i].seed
             /\ taken[i] \in Seq(Word)
             /\ Len(taken[i]) <= MaxDraws
    /\ \A t \in Threads :
          \/ call[t] = Idle
          \/ call[t] \in [pc : {"asked", "loaded", "drawn"}, inst : Instances, kind : Kinds,
                          base : Bases, previous : Previous, word : Word]

(***************************************************************************)
(* "Concurrent callers interleave one stream, each drawing a distinct      *)
(* state": no state is drawn twice from an instance before the stream has  *)
(* gone round, however its callers interleave (SplitMix64::advance).       *)
(***************************************************************************)
DistinctDraws ==
    \A i \in Instances : \A k, l \in DOMAIN taken[i] :
        k # l /\ k <= WordSize /\ l <= WordSize => taken[i][k] # taken[i][l]

(***************************************************************************)
(* "The seed alone fully pins the sequence": two instances last given the  *)
(* same seed, or the same seed and nonce, have drawn the same states as    *)
(* far as both have drawn, whatever they were given before, however often  *)
(* they were used or cloned, and whoever drew (with_seed, with_nonce).     *)
(***************************************************************************)
SameOriginSameSequence ==
    \A i, j \in Instances : label[i] = label[j] =>
        \A k \in DOMAIN taken[i] \cap DOMAIN taken[j] : taken[i][k] = taken[j][k]

\* The nonce of the instance is the one it was built or cloned with.
IsFresh(i) == Exists(i) /\ label[i][2][1] = "fresh"

(***************************************************************************)
(* "Each Jittered instance (including clones) receives a unique nonce so   *)
(* independent retry loops produce different jitter sequences": instances  *)
(* of one seed that were given no nonce never draw the same state at the   *)
(* same place of their sequences, wherever there is a counter of nonces     *)
(* (next_jitter_nonce, new, clone).                                        *)
(***************************************************************************)
FreshInstancesDiffer ==
    target.nonces # "constant" => \A i, j \in Instances :
        i # j /\ IsFresh(i) /\ IsFresh(j) /\ jittered[i].seed = jittered[j].seed =>
            \A k \in DOMAIN taken[i] \cap DOMAIN taken[j] : taken[i][k] # taken[j][k]

\* The answers that Strategies allows the call.
Promised(c) ==
    CASE c.kind = "additive"     -> JitterAdditive({c.base}, MaxJitter)
      [] c.kind = "full"         -> JitterFull({c.base})
      [] c.kind = "equal"        -> JitterEqual({c.base})
      [] c.kind = "decorrelated" ->
            JitterDecorrelated({c.base}, [previous_delay |-> c.previous])

(***************************************************************************)
(* Whatever word is drawn, the answer made of it is one that the engines   *)
(* were checked with: in the range of the kind, both ends included, for    *)
(* any base and any previous delay up to Duration::MAX, and also where the *)
(* range is empty or wider than a word (jitter_from, random_duration_in).  *)
(***************************************************************************)
AnswersInRange ==
    \A t \in Threads : call[t].pc = "drawn" =>
        \A kind \in {"additive", "full", "equal", "decorrelated"},
           base \in Duration, previous \in MaybeDuration :
              LET c == [call[t] EXCEPT !.kind = kind, !.base = base, !.previous = previous]
              IN  Answer(c) \in Promised(c)
=============================================================================
