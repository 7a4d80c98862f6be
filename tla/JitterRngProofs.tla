-------------------------- MODULE JitterRngProofs ---------------------------
(***************************************************************************)
(* Proofs about the jitter generators, for every size of a word, any       *)
(* increment that comes round to 0 last, any number of instances and of    *)
(* threads that share them.                                                *)
(***************************************************************************)
EXTENDS JitterRng, FiniteSetTheorems, SequenceTheorems, TLAPS

-----------------------------------------------------------------------------
\* Arithmetic of words.

LEMMA WordNumbers == WordSize \in Nat \ {0} /\ Gamma \in Word
  BY WordAssumption

LEMMA Remainder ==
    ASSUME NEW x \in Nat
    PROVE  x % WordSize \in Word /\ \E q \in Int : x = WordSize * q + (x % WordSize)
  <1>1. x % WordSize \in Word /\ x \div WordSize \in Int
    BY WordNumbers DEF Word
  <1>2. x = WordSize * (x \div WordSize) + (x % WordSize)
    BY WordNumbers
  <1>3. QED
    BY <1>1, <1>2

LEMMA RemainderIsUnique ==
    ASSUME NEW q \in Int, NEW r \in Word
    PROVE  (WordSize * q + r) % WordSize = r
  BY WordNumbers DEF Word

\* An addition that wraps may wrap early.
LEMMA WrapsOnce ==
    ASSUME NEW x \in Nat, NEW y \in Nat
    PROVE  ((x % WordSize) + y) % WordSize = (x + y) % WordSize
  <1>1. PICK r \in Word : x % WordSize = r
    BY Remainder
  <1>2. r + y \in Nat
    BY WordNumbers DEF Word
  <1>3. PICK t \in Word : (r + y) % WordSize = t
    BY <1>2, Remainder
  <1>4. PICK q \in Int : x = WordSize * q + r
    BY <1>1, Remainder
  <1>5. PICK p \in Int : r + y = WordSize * p + t
    BY <1>2, <1>3, Remainder
  <1>6. WordSize * (q + p) = WordSize * q + WordSize * p
    BY WordNumbers
  <1>7. x + y = WordSize * (q + p) + t
    BY <1>4, <1>5, <1>6, WordNumbers DEF Word
  <1>8. (WordSize * (q + p) + t) % WordSize = t
    BY RemainderIsUnique
  <1>9. QED
    BY <1>1, <1>3, <1>7, <1>8

\* Words that differ still differ after the same addition.
LEMMA AdditionIsInjective ==
    ASSUME NEW a \in Word, NEW b \in Word, NEW y \in Nat,
           (a + y) % WordSize = (b + y) % WordSize
    PROVE  a = b
  <1>1. a + y \in Nat /\ b + y \in Nat
    BY WordNumbers DEF Word
  <1>2. PICK t \in Word : (a + y) % WordSize = t
    BY <1>1, Remainder
  <1>3. PICK p \in Int : a + y = WordSize * p + t
    BY <1>1, <1>2, Remainder
  <1>4. PICK q \in Int : b + y = WordSize * q + t
    BY <1>1, <1>2, Remainder
  <1>5. WordSize * p - WordSize * q = WordSize * (p - q)
    BY WordNumbers
  <1>6. a - b = WordSize * (p - q)
    BY <1>3, <1>4, <1>5, WordNumbers DEF Word
  <1>7. p - q = 0
    BY <1>6, WordNumbers DEF Word
  <1>8. QED
    BY <1>6, <1>7, WordNumbers DEF Word

-----------------------------------------------------------------------------
\* The stream of states: the k-th state drawn from a generator started at s.
After(s, k) == (s + k * Gamma) % WordSize

LEMMA AfterIsAWord ==
    ASSUME NEW s \in Word, NEW k \in Nat
    PROVE  After(s, k) \in Word
  <1>1. s + k * Gamma \in Nat
    BY WordNumbers DEF Word
  <1>2. QED
    BY <1>1, Remainder DEF After

LEMMA AfterNone == ASSUME NEW s \in Word PROVE After(s, 0) = s
  BY WordNumbers DEF After, Word

LEMMA AfterAdvances ==
    ASSUME NEW s \in Word, NEW k \in Nat
    PROVE  Advanced(After(s, k)) = After(s, k + 1)
  <1>1. s + k * Gamma \in Nat /\ Gamma \in Nat
    BY WordNumbers DEF Word
  <1>2. (s + k * Gamma) + Gamma = s + (k + 1) * Gamma
    BY WordNumbers DEF Word
  <1>3. QED
    BY <1>1, <1>2, WrapsOnce DEF After, Advanced

\* Streams that start apart never meet at the same place.
LEMMA StreamsStayApart ==
    ASSUME NEW r \in Word, NEW s \in Word, NEW k \in Nat, After(r, k) = After(s, k)
    PROVE  r = s
  <1>1. k * Gamma \in Nat
    BY WordNumbers DEF Word
  <1>2. QED
    BY <1>1, AdditionIsInjective DEF After

\* A stream does not come back before it has gone round.
LEMMA StreamGoesRound ==
    ASSUME NEW s \in Word, NEW k \in 1 .. WordSize, NEW l \in 1 .. WordSize, k < l
    PROVE  After(s, k) # After(s, l)
  <1> SUFFICES ASSUME After(s, k) = After(s, l) PROVE FALSE
    OBVIOUS
  <1> DEFINE n == l - k
             y == s + k * Gamma
             b == (n * Gamma) % WordSize
  <1>1. n \in 1 .. WordSize - 1 /\ y \in Nat /\ n * Gamma \in Nat
    BY WordNumbers DEF Word
  <1>2. b \in Word /\ b # 0 /\ 0 \in Word
    <2>1. b \in Word
      BY <1>1, Remainder
    <2>2. b # 0
      BY <1>1, GammaAssumption
    <2>3. QED
      BY <2>1, <2>2, WordNumbers DEF Word
  <1>3. n * Gamma + y = s + l * Gamma
    <2>1. (n + k) * Gamma = n * Gamma + k * Gamma
      BY WordNumbers DEF Word
    <2>2. n + k = l
      BY WordNumbers
    <2>3. s \in Nat /\ n * Gamma \in Nat /\ k * Gamma \in Nat
      BY <1>1, WordNumbers DEF Word
    <2>4. n * Gamma + (s + k * Gamma) = s + (n * Gamma + k * Gamma)
      BY <2>3
    <2>5. QED
      BY <2>1, <2>2, <2>4
  <1>4. (b + y) % WordSize = After(s, l)
    BY <1>1, <1>3, WrapsOnce DEF After
  <1>5. (0 + y) % WordSize = After(s, k)
    BY <1>1 DEF After
  <1>6. QED
    BY <1>1, <1>2, <1>4, <1>5, AdditionIsInjective

-----------------------------------------------------------------------------
LEMMA MixIsAWord == ASSUME NEW z \in Word PROVE Mix(z) \in Word
  <1> DEFINE X(v, k) == ExclusiveOr(v, v \div 2 ^ Shifts[k])
  <1>1. \A v \in Word, k \in 1 .. 3 : X(v, k) \in Word
    BY WordAssumption
  <1>2. Multipliers[1] \in Word /\ Multipliers[2] \in Word
    <2>1. Multipliers \in Seq(Word) /\ Len(Multipliers) = 2
      BY WordAssumption
    <2>2. QED
      BY <2>1, ElementOfSeq
  <1>3. \A v \in Word, m \in Word, k \in 1 .. 3 : (X(v, k) * m) % WordSize \in Word
    <2> SUFFICES ASSUME NEW v \in Word, NEW m \in Word, NEW k \in 1 .. 3
                 PROVE  (X(v, k) * m) % WordSize \in Word
      OBVIOUS
    <2>1. PICK x \in Word : X(v, k) = x
      BY <1>1
    <2>2. x * m \in Nat
      BY WordNumbers DEF Word
    <2>3. QED
      BY <2>1, <2>2, Remainder
  <1>4. \A v \in Word : Stage(v, Shifts[1], Multipliers[1]) \in Word
                       /\ Stage(v, Shifts[2], Multipliers[2]) \in Word
    BY <1>2, <1>3 DEF Stage
  <1>5. PICK a \in Word : a = Stage(z, Shifts[1], Multipliers[1])
    BY <1>4
  <1>6. PICK b \in Word : b = Stage(a, Shifts[2], Multipliers[2])
    BY <1>4
  <1>7. Mix(z) = X(b, 3)
    BY <1>5, <1>6 DEF Mix
  <1>8. QED
    BY <1>1, <1>7

LEMMA AdvancedIsAWord == ASSUME NEW z \in Word PROVE Advanced(z) \in Word
  <1>1. z + Gamma \in Nat
    BY WordNumbers DEF Word
  <1>2. QED
    BY <1>1, Remainder DEF Advanced

LEMMA SeededIsAWord ==
    ASSUME NEW seed \in Word, NEW nonce \in Word
    PROVE  SeededRng(seed, nonce) \in Word /\ DeriveNonce(seed) \in Word
  BY WordAssumption, AdvancedIsAWord, MixIsAWord DEF SeededRng, DeriveNonce

-----------------------------------------------------------------------------
(***************************************************************************)
(* The invariant. What an instance has drawn is the beginning of the       *)
(* stream that starts where its label says, and its generator is at the    *)
(* end of that; a thread between load and store is alone with its          *)
(* instance, which has not moved since; and the nonces handed out by a     *)
(* counter are below it, each to one instance.                             *)
(***************************************************************************)
Marks == { Fresh(n) : n \in 1 .. MaxNonces } \cup {Derived} \cup { Given(n) : n \in Word }

Labels == { <<seed, mark>> : seed \in Word, mark \in Marks }

Calls == [pc : {"asked", "loaded", "drawn"}, inst : Instances, kind : Kinds,
          base : Bases, previous : Previous, word : Word]

Shapes ==
    /\ target \in Targets
    /\ counter \in 1 .. MaxNonces
    /\ jittered \in [Instances -> {Absent} \cup [kind : Kinds, seed : Word, state : Word]]
    /\ call \in [Threads -> {Idle} \cup Calls]
    /\ label \in [Instances -> {<<>>} \cup Labels]
    /\ taken \in [Instances -> Seq(Word)]
    /\ \A i \in Instances : IF Exists(i) THEN label[i] \in Labels /\ label[i][1] = jittered[i].seed
                                         ELSE label[i] = <<>> /\ taken[i] = <<>>

\* The nonces that a mark may stand for.
Stands(seed, mark, nonce) ==
    /\ mark[1] = "fresh" => /\ target.nonces = "counter" => nonce = mark[2]
                            /\ target.nonces = "constant" => nonce = 1
    /\ mark[1] = "derived" => nonce = DeriveNonce(seed)
    /\ mark[1] = "given" => nonce = mark[2]

StartsAt(i, s) ==
    \E nonce \in Word : /\ Stands(label[i][1], label[i][2], nonce)
                        /\ s = SeededRng(label[i][1], nonce)

Streams(i) ==
    \E s \in Word :
        /\ StartsAt(i, s)
        /\ jittered[i].state = After(s, Len(taken[i]))
        /\ \A k \in 1 .. Len(taken[i]) : taken[i][k] = After(s, k)

StreamInv == \A i \in Instances : Exists(i) => Streams(i)

Busy(t) == call[t].pc # "idle"

UserInv ==
    /\ \A t \in Threads : Busy(t) => Exists(call[t].inst)
    /\ \A t \in Threads : call[t].pc = "loaded" =>
          /\ ~target.atomic64
          /\ call[t].word = Advanced(jittered[call[t].inst].state)
    /\ ~target.atomic64 =>
          \A t, u \in Threads : Busy(t) /\ Busy(u) /\ call[t].inst = call[u].inst => t = u

NonceInv ==
    target.nonces # "constant" =>
        /\ \A i \in Instances : IsFresh(i) => label[i][2][2] \in 1 .. counter - 1
        /\ \A i, j \in Instances :
              i # j /\ IsFresh(i) /\ IsFresh(j) => label[i][2][2] # label[j][2][2]

IInv == Shapes /\ StreamInv /\ UserInv /\ NonceInv

LEMMA KindsAndNonces ==
    /\ "absent" \notin Kinds
    /\ 1 .. MaxNonces \subseteq Word /\ 1 \in Word /\ MaxNonces \in Nat
    /\ DefaultSeed \in Word /\ Seeds \subseteq Word /\ Nonces \subseteq Word
  <1>1. Kinds \subseteq {"additive", "full", "equal", "decorrelated"} /\ MaxNonces \in Word \ {0}
        /\ Seeds \subseteq Word /\ Nonces \subseteq Word
    BY JitterAssumption
  <1>2. DefaultSeed \in Word
    BY WordAssumption
  <1>3. 1 .. MaxNonces \subseteq Word /\ 1 \in Word /\ MaxNonces \in Nat
    BY <1>1, WordNumbers DEF Word
  <1>4. QED
    BY <1>1, <1>2, <1>3

LEMMA InitIInv == Init => IInv
  <1> SUFFICES ASSUME Init PROVE IInv
    OBVIOUS
  <1>1. \A i \in Instances : ~Exists(i)
    BY DEF Init, Exists
  <1>2. Shapes
    <2>1. MaxNonces \in Word \ {0}
      BY JitterAssumption
    <2>2. counter \in 1 .. MaxNonces
      BY <2>1, WordNumbers DEF Init, Word
    <2>3. \A i \in Instances : taken[i] = <<>> /\ label[i] = <<>>
      BY DEF Init
    <2>4. taken \in [Instances -> Seq(Word)]
      BY DEF Init
    <2>5. call \in [Threads -> {Idle} \cup Calls] /\ label \in [Instances -> {<<>>} \cup Labels]
      BY DEF Init
    <2>6. jittered \in [Instances -> {Absent} \cup [kind : Kinds, seed : Word, state : Word]]
      BY DEF Init
    <2>7. QED
      BY <1>1, <2>2, <2>3, <2>4, <2>5, <2>6 DEF Init, Shapes
  <1>3. StreamInv
    BY <1>1 DEF StreamInv
  <1>4. UserInv
    BY DEF Init, UserInv, Busy, Idle
  <1>5. NonceInv
    BY <1>1 DEF NonceInv, IsFresh
  <1>6. QED
    BY <1>2, <1>3, <1>4, <1>5 DEF IInv

\* What next_jitter_nonce hands out is a word, and stands for its mark.
LEMMA NonceStands ==
    ASSUME Shapes, NEW nonce \in NextNonces, NEW seed \in Word
    PROVE  nonce \in Word /\ Fresh(counter) \in Marks /\ Stands(seed, Fresh(counter), nonce)
  <1>1. counter \in 1 .. MaxNonces /\ counter \in Word
    BY KindsAndNonces DEF Shapes
  <1>2. target.nonces \in {"counter", "counter and time", "constant"}
    BY JitterAssumption DEF Shapes
  <1>3. nonce \in Word
    BY <1>1, <1>2, KindsAndNonces, WordAssumption DEF NextNonces
  <1>4. Stands(seed, Fresh(counter), nonce)
    BY <1>2 DEF NextNonces, Stands, Fresh
  <1>5. QED
    BY <1>1, <1>3, <1>4 DEF Marks

LEMMA MarkKinds ==
    ASSUME NEW mark \in Marks
    PROVE  /\ mark[1] \in {"fresh", "derived", "given"}
           /\ mark[1] = "fresh" => \E n \in 1 .. MaxNonces : mark = Fresh(n)
  BY DEF Marks, Fresh, Derived, Given

LEMMA BusyCalls == \A t \in Threads : Shapes /\ Busy(t) => call[t] \in Calls
  BY DEF Shapes, Busy, Idle

\* The stream of an instance depends on nothing but the instance and the target.
LEMMA StreamsAreOnesOwn ==
    ASSUME NEW j \in Instances, Streams(j), target' = target, label'[j] = label[j],
           jittered'[j] = jittered[j], taken'[j] = taken[j]
    PROVE  Streams(j)'
  BY DEF Streams, StartsAt, Stands

\* An instance is built, cloned or given a new generator: nobody is using it, its
\* stream starts afresh where its mark says, and its nonce is nobody else's.
LEMMA InstallKeepsIInv ==
    ASSUME IInv,
           NEW i \in Instances, NEW kind \in Kinds, NEW seed \in Word, NEW nonce \in Word,
           NEW mark \in Marks, Stands(seed, mark, nonce),
           Users(i) = {}, Install(i, kind, seed, nonce, mark),
           counter' \in 1 .. MaxNonces, counter <= counter',
           mark[1] = "fresh" /\ target.nonces # "constant"
              => mark[2] = counter /\ counter' = counter + 1
    PROVE  IInv'
  <1>1. /\ jittered'[i] = [kind |-> kind, seed |-> seed, state |-> SeededRng(seed, nonce)]
        /\ label'[i] = <<seed, mark>> /\ taken'[i] = <<>>
        /\ \A j \in Instances \ {i} :
              jittered'[j] = jittered[j] /\ label'[j] = label[j] /\ taken'[j] = taken[j]
        /\ target' = target /\ call' = call
    BY DEF Install, IInv, Shapes
  <1>2. /\ Exists(i)'
        /\ \A j \in Instances \ {i} : Exists(j)' <=> Exists(j)
    <2>1. jittered'[i].kind # Absent.kind
      BY <1>1, KindsAndNonces DEF Absent
    <2>2. QED
      BY <1>1, <2>1 DEF Exists
  <1>3. \A t \in Threads : Busy(t) => call[t].inst \in Instances \ {i}
    BY BusyCalls DEF Users, Busy, IInv, Calls
  <1>4. Shapes'
    <2>1. /\ jittered' \in [Instances -> {Absent} \cup [kind : Kinds, seed : Word, state : Word]]
          /\ label' \in [Instances -> {<<>>} \cup Labels]
          /\ taken' \in [Instances -> Seq(Word)]
      <3>1. SeededRng(seed, nonce) \in Word /\ <<seed, mark>> \in Labels /\ <<>> \in Seq(Word)
        BY SeededIsAWord DEF Labels
      <3>2. QED
        BY <3>1 DEF Install, IInv, Shapes
    <2>2. label'[i] \in Labels /\ label'[i][1] = jittered'[i].seed
      BY <1>1 DEF Labels
    <2>3. \A j \in Instances \ {i} :
             IF Exists(j)' THEN label'[j] \in Labels /\ label'[j][1] = jittered'[j].seed
                           ELSE label'[j] = <<>> /\ taken'[j] = <<>>
      BY <1>1, <1>2 DEF IInv, Shapes
    <2>4. \A j \in Instances :
             IF Exists(j)' THEN label'[j] \in Labels /\ label'[j][1] = jittered'[j].seed
                           ELSE label'[j] = <<>> /\ taken'[j] = <<>>
      BY <1>2, <2>2, <2>3
    <2>5. target' \in Targets /\ call' \in [Threads -> {Idle} \cup Calls]
      BY <1>1 DEF IInv, Shapes
    <2>6. QED
      BY <2>1, <2>4, <2>5 DEF Shapes
  <1>5. StreamInv'
    <2>1. Streams(i)'
      <3>1. SeededRng(seed, nonce) \in Word /\ After(SeededRng(seed, nonce), 0) = SeededRng(seed, nonce)
        BY SeededIsAWord, AfterNone
      <3>2. StartsAt(i, SeededRng(seed, nonce))'
        BY <1>1 DEF StartsAt, Stands, SeededRng
      <3>3. /\ jittered'[i].state = SeededRng(seed, nonce) /\ Len(taken'[i]) = 0
            /\ 1 .. Len(taken'[i]) = {}
        BY <1>1
      <3>4. QED
        BY <3>1, <3>2, <3>3 DEF Streams, StartsAt, Stands, SeededRng
    <2>2. \A j \in Instances \ {i} : Exists(j)' => Streams(j)'
      BY <1>1, <1>2, StreamsAreOnesOwn DEF IInv, StreamInv
    <2>3. QED
      BY <2>1, <2>2 DEF StreamInv
  <1>6. UserInv'
    <2>1. \A t \in Threads : Busy(t) => jittered'[call[t].inst] # Absent
      BY <1>1, <1>3 DEF IInv, UserInv, Exists
    <2>2. \A t \in Threads : call[t].pc = "loaded" => /\ ~target.atomic64 /\ Busy(t)
                                                      /\ call[t].word = Advanced(jittered[call[t].inst].state)
      BY DEF IInv, UserInv, Busy
    <2>3. \A t \in Threads : call[t].pc = "loaded" =>
             call[t].word = Advanced(jittered'[call[t].inst].state)
      BY <1>1, <1>3, <2>2
    <2>4. QED
      BY <1>1, <2>1, <2>2, <2>3 DEF IInv, UserInv, Busy, Exists
  <1>7. NonceInv'
    <2>1. \A j \in Instances \ {i} : IsFresh(j)' <=> IsFresh(j)
      BY <1>1, <1>2 DEF IsFresh
    <2>2. IsFresh(i)' /\ target.nonces # "constant" => /\ label'[i][2][2] = counter
                                                      /\ counter' = counter + 1
      BY <1>1 DEF IsFresh
    <2>3. counter \in Nat /\ counter' \in Nat /\ counter >= 1
      BY KindsAndNonces DEF IInv, Shapes
    <2>4. target.nonces # "constant" => \A j \in Instances \ {i} : IsFresh(j)' =>
             label'[j][2][2] \in 1 .. counter - 1
      BY <1>1, <2>1 DEF IInv, NonceInv
    <2>5. QED
      BY <1>1, <2>1, <2>2, <2>3, <2>4 DEF IInv, NonceInv
  <1>8. QED
    BY <1>4, <1>5, <1>6, <1>7 DEF IInv

LEMMA BuildersKeepIInv ==
    ASSUME IInv,
           NEW i \in Instances,
           \/ New(i)
           \/ \E j \in Instances : Clone(j, i)
           \/ \E seed \in Seeds : WithSeed(i, seed)
           \/ \E nonce \in Nonces : WithNonce(i, nonce)
    PROVE  IInv'
  <1>0. counter \in 1 .. MaxNonces
    BY DEF IInv, Shapes
  <1>1. ASSUME NEW kind \in Kinds, NEW seed \in Word, NEW nonce \in NextNonces,
               ~Exists(i), CountNonce, Install(i, kind, seed, nonce, Fresh(counter))
        PROVE  IInv'
    <2>1. /\ nonce \in Word /\ Fresh(counter) \in Marks
          /\ Stands(seed, Fresh(counter), nonce)
      BY <1>1, NonceStands DEF IInv
    <2>2. Users(i) = {}
      BY <1>1 DEF Users, IInv, UserInv, Busy
    <2>3. counter' \in 1 .. MaxNonces /\ counter <= counter'
          /\ (target.nonces # "constant" => counter' = counter + 1)
      BY <1>0, <1>1, KindsAndNonces DEF CountNonce
    <2>4. Fresh(counter)[2] = counter
      BY DEF Fresh
    <2>5. QED
      BY <1>1, <2>1, <2>2, <2>3, <2>4, InstallKeepsIInv
  <1>2. CASE New(i)
    BY <1>1, <1>2, KindsAndNonces DEF New
  <1>3. CASE \E j \in Instances : Clone(j, i)
    <2>1. PICK j \in Instances : Clone(j, i)
      BY <1>3
    <2>2. jittered[j].kind \in Kinds /\ jittered[j].seed \in Word
      BY <2>1 DEF Clone, Exists, IInv, Shapes
    <2>3. QED
      BY <1>1, <2>1, <2>2 DEF Clone
  <1>4. CASE \E seed \in Seeds : WithSeed(i, seed)
    <2>1. PICK seed \in Seeds : WithSeed(i, seed)
      BY <1>4
    <2>2. seed \in Word /\ DeriveNonce(seed) \in Word /\ Derived \in Marks
      BY KindsAndNonces, SeededIsAWord DEF Marks
    <2>3. Stands(seed, Derived, DeriveNonce(seed)) /\ Derived[1] = "derived"
      BY DEF Stands, Derived
    <2>4. jittered[i].kind \in Kinds
      BY <2>1 DEF WithSeed, Owned, Exists, IInv, Shapes
    <2>5. QED
      BY <1>0, <2>1, <2>2, <2>3, <2>4, InstallKeepsIInv, KindsAndNonces DEF WithSeed, Owned
  <1>5. CASE \E nonce \in Nonces : WithNonce(i, nonce)
    <2>1. PICK nonce \in Nonces : WithNonce(i, nonce)
      BY <1>5
    <2>2. nonce \in Word /\ Given(nonce) \in Marks
      BY KindsAndNonces DEF Marks
    <2>3. \A seed \in Word : Stands(seed, Given(nonce), nonce) /\ Given(nonce)[1] = "given"
      BY DEF Stands, Given
    <2>4. jittered[i].kind \in Kinds /\ jittered[i].seed \in Word
      BY <2>1 DEF WithNonce, Owned, Exists, IInv, Shapes
    <2>5. QED
      BY <1>0, <2>1, <2>2, <2>3, <2>4, InstallKeepsIInv, KindsAndNonces DEF WithNonce, Owned
  <1>6. QED
    BY <1>2, <1>3, <1>4, <1>5

\* A thread draws the next state of the stream.
LEMMA DrawKeepsIInv ==
    ASSUME IInv, NEW t \in Threads, call[t].pc \in {"asked", "loaded"},
           Draw(t, Advanced(jittered[call[t].inst].state))
    PROVE  IInv'
  <1>0. call[t] \in Calls /\ Exists(call[t].inst)
    BY BusyCalls DEF IInv, UserInv, Busy
  <1>1. PICK i \in Instances : i = call[t].inst /\ Exists(i)
    BY <1>0 DEF Calls
  <1>2. jittered[i] \in [kind : Kinds, seed : Word, state : Word] /\ taken[i] \in Seq(Word)
    BY <1>1 DEF IInv, Shapes, Exists
  <1>3. PICK word \in Word : word = Advanced(jittered[i].state)
    BY <1>2, AdvancedIsAWord
  <1>4. /\ jittered' = [jittered EXCEPT ![i].state = word]
        /\ taken' = [taken EXCEPT ![i] = Append(@, word)]
        /\ call' = [call EXCEPT ![t].pc = "drawn", ![t].word = word]
        /\ UNCHANGED <<target, counter, label>>
    BY <1>1, <1>3 DEF Draw
  <1>5. /\ jittered'[i] = [jittered[i] EXCEPT !.state = word]
        /\ taken'[i] = Append(taken[i], word)
        /\ \A j \in Instances \ {i} : jittered'[j] = jittered[j] /\ taken'[j] = taken[j]
        /\ call'[t] = [call[t] EXCEPT !.pc = "drawn", !.word = word]
        /\ \A u \in Threads \ {t} : call'[u] = call[u]
    BY <1>1, <1>4 DEF IInv, Shapes
  <1>6. /\ jittered'[i] \in [kind : Kinds, seed : Word, state : Word]
        /\ jittered'[i].seed = jittered[i].seed /\ jittered'[i].state = word
        /\ jittered'[i] # Absent
    <2>1. /\ jittered'[i] \in [kind : Kinds, seed : Word, state : Word]
          /\ jittered'[i].seed = jittered[i].seed /\ jittered'[i].state = word
      BY <1>2, <1>5
    <2>2. jittered'[i].kind # Absent.kind
      BY <2>1, KindsAndNonces DEF Absent
    <2>3. QED
      BY <2>1, <2>2
  <1>7. /\ call'[t] \in Calls /\ call'[t].pc = "drawn" /\ call'[t].inst = i
    BY <1>0, <1>1, <1>5 DEF Calls
  <1>8. Shapes'
    <2>1. /\ jittered' \in [Instances -> {Absent} \cup [kind : Kinds, seed : Word, state : Word]]
          /\ taken' \in [Instances -> Seq(Word)]
          /\ call' \in [Threads -> {Idle} \cup Calls]
      <3>1. Append(taken[i], word) \in Seq(Word)
        BY <1>2
      <3>2. QED
        BY <1>4, <1>5, <1>6, <1>7, <3>1 DEF IInv, Shapes
    <2>2. \A j \in Instances :
             IF jittered'[j] # Absent
             THEN label'[j] \in Labels /\ label'[j][1] = jittered'[j].seed
             ELSE label'[j] = <<>> /\ taken'[j] = <<>>
      BY <1>1, <1>4, <1>5, <1>6 DEF IInv, Shapes, Exists
    <2>3. target' \in Targets /\ counter' \in 1 .. MaxNonces
          /\ label' \in [Instances -> {<<>>} \cup Labels]
      BY <1>4 DEF IInv, Shapes
    <2>4. QED
      BY <2>1, <2>2, <2>3 DEF Shapes, Exists
  <1>9. StreamInv'
    <2>1. Streams(i)'
      <3>1. PICK s \in Word :
                /\ StartsAt(i, s)
                /\ jittered[i].state = After(s, Len(taken[i]))
                /\ \A k \in 1 .. Len(taken[i]) : taken[i][k] = After(s, k)
        BY <1>1 DEF IInv, StreamInv, Streams
      <3>2. PICK n \in Nat : n = Len(taken[i])
        BY <1>2
      <3>3. word = After(s, n + 1)
        BY <1>3, <3>1, <3>2, AfterAdvances
      <3>4. /\ Len(taken'[i]) = n + 1
            /\ \A k \in 1 .. n : taken'[i][k] = taken[i][k]
            /\ taken'[i][n + 1] = word
        BY <1>2, <1>5, <3>2
      <3>5. \A k \in 1 .. n + 1 : taken'[i][k] = After(s, k)
        BY <3>1, <3>2, <3>3, <3>4
      <3>6. \E nonce \in Word : /\ Stands(label[i][1], label[i][2], nonce)
                                /\ s = SeededRng(label[i][1], nonce)
        BY <3>1 DEF StartsAt
      <3>7. StartsAt(i, s)'
        BY <1>4, <3>6 DEF StartsAt, Stands
      <3>8. QED
        BY <1>6, <3>3, <3>4, <3>5, <3>7 DEF Streams
    <2>2. \A j \in Instances \ {i} : jittered'[j] # Absent => Streams(j)'
      BY <1>4, <1>5, StreamsAreOnesOwn DEF IInv, StreamInv, Exists
    <2>3. QED
      BY <2>1, <2>2 DEF StreamInv, Exists
  <1>10. UserInv'
    <2>1. \A u \in Threads : Busy(u) /\ call[u].inst = i /\ call[u].pc = "loaded" => u = t
      BY <1>1 DEF IInv, UserInv, Busy
    <2>2. \A u \in Threads : Busy(u) => call[u].inst \in Instances
      BY BusyCalls DEF IInv, Calls
    <2>3. \A u \in Threads : call'[u].pc # "idle" =>
             /\ Busy(u) /\ call'[u].inst = call[u].inst
             /\ jittered'[call[u].inst] # Absent
      <3> SUFFICES ASSUME NEW u \in Threads, call'[u].pc # "idle"
                   PROVE  /\ Busy(u) /\ call'[u].inst = call[u].inst
                          /\ jittered'[call[u].inst] # Absent
        OBVIOUS
      <3>1. Busy(u) /\ call'[u].inst = call[u].inst
        BY <1>1, <1>5, <1>7 DEF Busy
      <3>2. PICK j \in Instances : j = call[u].inst /\ jittered[j] # Absent
        BY <2>2, <3>1 DEF IInv, UserInv, Exists
      <3>3. jittered'[j] # Absent
        BY <1>5, <1>6, <3>2
      <3>4. QED
        BY <3>1, <3>2, <3>3
    <2>4. \A u \in Threads : call'[u].pc = "loaded" =>
             /\ u # t /\ call[u].pc = "loaded" /\ call[u].inst \in Instances \ {i}
             /\ call'[u] = call[u]
      BY <1>5, <1>7, <2>1, <2>2 DEF Busy
    <2>5. \A u \in Threads : call'[u].pc = "loaded" =>
             /\ ~target.atomic64
             /\ call'[u].word = Advanced(jittered'[call'[u].inst].state)
      BY <1>5, <2>4 DEF IInv, UserInv
    <2>6. ~target.atomic64 =>
             \A u, v \in Threads : call'[u].pc # "idle" /\ call'[v].pc # "idle"
                                     /\ call'[u].inst = call'[v].inst => u = v
      BY <2>3 DEF IInv, UserInv
    <2>7. QED
      BY <1>4, <2>3, <2>5, <2>6 DEF UserInv, Busy, Exists
  <1>11. NonceInv'
    <2>1. \A j \in Instances : Exists(j)' <=> Exists(j)
      BY <1>1, <1>5, <1>6 DEF Exists
    <2>2. QED
      BY <1>4, <2>1 DEF IInv, NonceInv, IsFresh
  <1>12. QED
    BY <1>8, <1>9, <1>10, <1>11 DEF IInv

\* What moves nothing but the calls leaves the streams alone.
LEMMA CallsMoveNoStream ==
    ASSUME IInv, UNCHANGED <<target, counter, jittered, label, taken>>,
           call' \in [Threads -> {Idle} \cup Calls]
    PROVE  Shapes' /\ StreamInv' /\ NonceInv'
  <1>1. Shapes'
    BY DEF IInv, Shapes, Exists
  <1>2. StreamInv'
    BY DEF IInv, StreamInv, Streams, StartsAt, Stands, Exists
  <1>3. NonceInv'
    BY DEF IInv, NonceInv, IsFresh, Exists
  <1>4. QED
    BY <1>1, <1>2, <1>3

LEMMA AskKeepsIInv ==
    ASSUME IInv, NEW t \in Threads, NEW i \in Instances, NEW base \in Bases,
           NEW previous \in Previous, Ask(t, i, base, previous)
    PROVE  IInv'
  <1>1. PICK c \in Calls : /\ c.inst = i /\ c.pc \in {"asked", "drawn"}
                          /\ call' = [call EXCEPT ![t] = c]
    <2> DEFINE a == [pc |-> "asked", inst |-> i, kind |-> jittered[i].kind,
                     base |-> base, previous |-> previous, word |-> 0]
    <2>1. 0 \in Word /\ jittered[i].kind \in Kinds
      BY WordNumbers DEF Ask, Exists, IInv, Shapes, Word
    <2>2. a \in Calls /\ [a EXCEPT !.pc = "drawn"] \in Calls
      BY <2>1 DEF Calls
    <2>3. call' = [call EXCEPT ![t] = IF EmptyRange(a) THEN [a EXCEPT !.pc = "drawn"] ELSE a]
      BY DEF Ask
    <2>4. QED
      BY <2>2, <2>3
  <1>2. /\ call'[t] = c /\ \A u \in Threads \ {t} : call'[u] = call[u]
        /\ call' \in [Threads -> {Idle} \cup Calls]
        /\ UNCHANGED <<target, counter, jittered, label, taken>>
    BY <1>1 DEF Ask, IInv, Shapes
  <1>3. Exists(i) /\ (target.atomic64 \/ Users(i) = {})
    BY DEF Ask, Shareable
  <1>4. UserInv'
    <2>1. \A u \in Threads : call'[u].pc # "idle" => jittered'[call'[u].inst] # Absent
      BY <1>1, <1>2, <1>3 DEF IInv, UserInv, Busy, Exists
    <2>2. \A u \in Threads : call'[u].pc = "loaded" =>
             /\ ~target.atomic64
             /\ call'[u].word = Advanced(jittered'[call'[u].inst].state)
      BY <1>1, <1>2 DEF IInv, UserInv
    <2>3. ~target.atomic64 =>
             \A u, v \in Threads : call'[u].pc # "idle" /\ call'[v].pc # "idle"
                                     /\ call'[u].inst = call'[v].inst => u = v
      BY <1>1, <1>2, <1>3 DEF IInv, UserInv, Busy, Users
    <2>4. QED
      BY <1>2, <2>1, <2>2, <2>3 DEF UserInv, Busy, Exists
  <1>5. QED
    BY <1>2, <1>4, CallsMoveNoStream DEF IInv

LEMMA LoadKeepsIInv ==
    ASSUME IInv, NEW t \in Threads, Load(t) \/ Return(t)
    PROVE  IInv'
  <1>1. call[t] \in Calls /\ Busy(t)
    BY BusyCalls DEF IInv, Load, Return, Busy
  <1>2. UNCHANGED <<target, counter, jittered, label, taken>>
    BY DEF Load, Return
  <1>3. CASE Load(t)
    <2>1. PICK word \in Word : word = Advanced(jittered[call[t].inst].state)
      BY <1>1, AdvancedIsAWord DEF IInv, UserInv, Exists, Shapes, Calls
    <2>2. call' = [call EXCEPT ![t].pc = "loaded", ![t].word = word] /\ ~target.atomic64
      BY <1>3, <2>1 DEF Load
    <2>3. /\ call'[t] = [call[t] EXCEPT !.pc = "loaded", !.word = word]
          /\ \A u \in Threads \ {t} : call'[u] = call[u]
      BY <2>2 DEF IInv, Shapes
    <2>4. /\ call'[t] \in Calls /\ call'[t].inst = call[t].inst /\ call'[t].word = word
      BY <1>1, <2>3 DEF Calls
    <2>5. call' \in [Threads -> {Idle} \cup Calls]
      BY <2>2, <2>3, <2>4 DEF IInv, Shapes
    <2>6. UserInv'
      <3>1. \A u \in Threads : call'[u].inst = call[u].inst /\ (call'[u].pc # "idle" => Busy(u))
        BY <1>1, <2>3, <2>4 DEF Busy
      <3>2. \A u \in Threads : call'[u].pc = "loaded" =>
               call'[u].word = Advanced(jittered[call[u].inst].state)
        BY <2>1, <2>3, <2>4 DEF IInv, UserInv
      <3>3. target' = target /\ jittered' = jittered /\ ~target.atomic64
        BY <1>2, <2>2
      <3>4. \A u \in Threads : call'[u].pc # "idle" => jittered'[call'[u].inst] # Absent
        BY <3>1, <3>3 DEF IInv, UserInv, Exists
      <3>5. ~target.atomic64 =>
               \A u, v \in Threads : call'[u].pc # "idle" /\ call'[v].pc # "idle"
                                       /\ call'[u].inst = call'[v].inst => u = v
        BY <3>1 DEF IInv, UserInv
      <3>6. \A u \in Threads : call'[u].pc = "loaded" =>
               /\ ~target.atomic64
               /\ call'[u].word = Advanced(jittered'[call'[u].inst].state)
        <4> SUFFICES ASSUME NEW u \in Threads, call'[u].pc = "loaded"
                     PROVE  /\ ~target.atomic64
                            /\ call'[u].word = Advanced(jittered'[call'[u].inst].state)
          OBVIOUS
        <4>1. jittered'[call'[u].inst] = jittered[call[u].inst]
          BY <3>1, <3>3
        <4>2. QED
          BY <3>2, <3>3, <4>1
      <3>7. QED
        BY <3>3, <3>4, <3>5, <3>6 DEF UserInv, Busy, Exists
    <2>7. QED
      BY <1>2, <2>5, <2>6, CallsMoveNoStream DEF IInv
  <1>4. CASE Return(t)
    <2>1. /\ call' \in [Threads -> {Idle} \cup Calls] /\ call'[t] = Idle
          /\ \A u \in Threads \ {t} : call'[u] = call[u]
      BY <1>4 DEF Return, IInv, Shapes
    <2>2. UserInv'
      BY <1>2, <2>1 DEF IInv, UserInv, Busy, Exists, Idle
    <2>3. QED
      BY <1>2, <2>1, <2>2, CallsMoveNoStream DEF IInv
  <1>5. QED
    BY <1>3, <1>4

LEMMA NextIInv == IInv /\ [Next]_vars => IInv'
  <1> SUFFICES ASSUME IInv, [Next]_vars PROVE IInv'
    OBVIOUS
  <1>1. CASE \E i \in Instances : \/ New(i)
                                  \/ \E j \in Instances : Clone(j, i)
                                  \/ \E seed \in Seeds : WithSeed(i, seed)
                                  \/ \E nonce \in Nonces : WithNonce(i, nonce)
    BY <1>1, BuildersKeepIInv
  <1>2. CASE \E t \in Threads, i \in Instances, base \in Bases, previous \in Previous :
                Ask(t, i, base, previous)
    BY <1>2, AskKeepsIInv
  <1>3. CASE \E t \in Threads : FetchAdd(t)
    BY <1>3, DrawKeepsIInv DEF FetchAdd
  <1>4. CASE \E t \in Threads : Store(t)
    <2>1. PICK t \in Threads : Store(t)
      BY <1>4
    <2>2. call[t].word = Advanced(jittered[call[t].inst].state)
      BY <2>1 DEF Store, IInv, UserInv
    <2>3. QED
      BY <2>1, <2>2, DrawKeepsIInv DEF Store
  <1>5. CASE \E t \in Threads : Load(t) \/ Return(t)
    BY <1>5, LoadKeepsIInv
  <1>6. CASE UNCHANGED vars
    <2>1. call' \in [Threads -> {Idle} \cup Calls]
      BY <1>6 DEF vars, IInv, Shapes
    <2>2. UserInv'
      BY <1>6 DEF vars, IInv, UserInv, Busy, Exists
    <2>3. QED
      BY <1>6, <2>1, <2>2, CallsMoveNoStream DEF vars, IInv
  <1>7. QED
    BY <1>1, <1>2, <1>3, <1>4, <1>5, <1>6 DEF Next

LEMMA Invariance == Spec => []IInv
  BY InitIInv, NextIInv, PTL DEF Spec

-----------------------------------------------------------------------------
\* What an instance has drawn, for the theorems below.
LEMMA TakenIsAStream ==
    ASSUME IInv, NEW i \in Instances, DOMAIN taken[i] # {}
    PROVE  /\ Exists(i) /\ label[i] \in Labels
           /\ DOMAIN taken[i] \subseteq Nat
           /\ \E s \in Word : StartsAt(i, s) /\ \A k \in DOMAIN taken[i] : taken[i][k] = After(s, k)
  <1>1. taken[i] \in Seq(Word)
    BY DEF IInv, Shapes
  <1>2. DOMAIN taken[i] = 1 .. Len(taken[i])
    BY <1>1
  <1>3. Exists(i) /\ label[i] \in Labels
    BY <1>1 DEF IInv, Shapes
  <1>4. QED
    BY <1>2, <1>3 DEF IInv, StreamInv, Streams

LEMMA LabelParts ==
    ASSUME NEW l \in Labels
    PROVE  l[1] \in Word /\ l[2] \in Marks
  BY DEF Labels

\* No state is drawn twice before the stream has gone round, however the threads
\* that share an instance interleave: fetch_add, or a Cell that one thread has.
THEOREM DrawsAreDistinct == Spec => []DistinctDraws
  <1>1. ASSUME IInv, NEW i \in Instances, NEW k \in DOMAIN taken[i], NEW l \in DOMAIN taken[i],
               k < l, l <= WordSize
        PROVE  taken[i][k] # taken[i][l]
    <2>1. PICK s \in Word : \A n \in DOMAIN taken[i] : taken[i][n] = After(s, n)
      BY <1>1, TakenIsAStream
    <2>2. k \in 1 .. WordSize /\ l \in 1 .. WordSize
      <3>1. taken[i] \in Seq(Word)
        BY <1>1 DEF IInv, Shapes
      <3>2. QED
        BY <1>1, <3>1, WordNumbers
    <2>3. QED
      BY <1>1, <2>1, <2>2, StreamGoesRound
  <1>2. IInv => DistinctDraws
    <2> SUFFICES ASSUME IInv, NEW i \in Instances,
                        NEW k \in DOMAIN taken[i], NEW l \in DOMAIN taken[i],
                        k # l, k <= WordSize, l <= WordSize
                 PROVE  taken[i][k] # taken[i][l]
      BY DEF DistinctDraws
    <2>1. k \in Nat /\ l \in Nat
      BY TakenIsAStream
    <2>2. QED
      BY <1>1, <2>1
  <1>3. QED
    BY <1>2, Invariance, PTL

\* Two instances whose labels agree have drawn the same states, whatever they
\* were before: a seed alone pins the sequence, and so does a seed with a nonce.
THEOREM SeedPinsSequence == Spec => []SameOriginSameSequence
  <1>1. IInv => SameOriginSameSequence
    <2> SUFFICES ASSUME IInv, NEW i \in Instances, NEW j \in Instances, i # j,
                        label[i] = label[j],
                        NEW k \in DOMAIN taken[i], k \in DOMAIN taken[j]
                 PROVE  taken[i][k] = taken[j][k]
      BY DEF SameOriginSameSequence
    <2>1. Exists(i) /\ Exists(j) /\ label[i] \in Labels
      BY TakenIsAStream
    <2>2. PICK r \in Word : StartsAt(i, r) /\ taken[i][k] = After(r, k)
      BY TakenIsAStream
    <2>3. PICK s \in Word : StartsAt(j, s) /\ taken[j][k] = After(s, k)
      BY TakenIsAStream
    <2>4. PICK m \in Word : /\ Stands(label[i][1], label[i][2], m)
                           /\ r = SeededRng(label[i][1], m)
      BY <2>2 DEF StartsAt
    <2>5. PICK n \in Word : /\ Stands(label[i][1], label[i][2], n)
                           /\ s = SeededRng(label[i][1], n)
      BY <2>3 DEF StartsAt
    <2>6. label[i][2][1] \in {"fresh", "derived", "given"}
      BY <2>1, LabelParts, MarkKinds
    <2>7. label[i][2][1] = "fresh" => target.nonces = "constant"
      BY <2>1 DEF IInv, NonceInv, IsFresh
    <2>8. m = n
      BY <2>4, <2>5, <2>6, <2>7 DEF Stands
    <2>9. QED
      BY <2>2, <2>3, <2>4, <2>5, <2>8
  <1>2. QED
    BY <1>1, Invariance, PTL

LEMMA XorCancels ==
    ASSUME NEW a \in Word, NEW b \in Word, NEW c \in Word,
           ExclusiveOr(a, b) = ExclusiveOr(a, c)
    PROVE  b = c
  BY XorAssumption

\* Where the nonces come from the counter alone, instances of one seed that were
\* given none have their n-th draws in different states, for each n. (One may well
\* come, after more draws, to a state the other has drawn: there is one cycle of
\* states for all.) With the wall clock mixed into the counter it is not so, and
\* the hypothesis cannot be dropped.
THEOREM FreshInstancesKeepApart ==
    ASSUME \A t \in Targets : t.nonces # "counter and time"
    PROVE  Spec => []FreshInstancesDiffer
  <1>1. IInv => FreshInstancesDiffer
    <2> SUFFICES ASSUME IInv, target.nonces # "constant",
                        NEW i \in Instances, NEW j \in Instances, i # j,
                        IsFresh(i), IsFresh(j), jittered[i].seed = jittered[j].seed,
                        NEW k \in DOMAIN taken[i], k \in DOMAIN taken[j],
                        taken[i][k] = taken[j][k]
                 PROVE  FALSE
      BY DEF FreshInstancesDiffer
    <2>1. target.nonces = "counter"
      BY JitterAssumption DEF IInv, Shapes
    <2>2. PICK r \in Word : StartsAt(i, r) /\ taken[i][k] = After(r, k)
      BY TakenIsAStream
    <2>3. PICK s \in Word : StartsAt(j, s) /\ taken[j][k] = After(s, k)
      BY TakenIsAStream
    <2>4. r = s
      BY <2>2, <2>3, TakenIsAStream, StreamsStayApart
    <2>5. PICK m \in Word : m = label[i][2][2] /\ r = SeededRng(label[i][1], m)
      BY <2>1, <2>2 DEF StartsAt, Stands, IsFresh
    <2>6. PICK n \in Word : n = label[j][2][2] /\ s = SeededRng(label[j][1], n)
      BY <2>1, <2>3 DEF StartsAt, Stands, IsFresh
    <2>7. label[i][1] = label[j][1] /\ label[i][1] \in Word
      BY LabelParts DEF IsFresh, IInv, Shapes
    <2>8. m # n
      BY <2>1, <2>5, <2>6 DEF IInv, NonceInv
    <2>9. PICK seed \in Word : seed = label[i][1] /\ seed = label[j][1]
      BY <2>7
    <2>10. ExclusiveOr(seed, m) = ExclusiveOr(seed, n)
      BY <2>4, <2>5, <2>6, <2>9 DEF SeededRng
    <2>11. QED
      BY <2>8, <2>10, XorCancels
  <1>2. QED
    BY <1>1, Invariance, PTL

-----------------------------------------------------------------------------
\* The answers.

LEMMA BoundedIsBounded ==
    ASSUME NEW word \in Word, NEW max \in Word
    PROVE  Bounded(word, max) \in 0 .. max
  <1>1. PICK z \in Word : z = Mix(word)
    BY MixIsAWord
  <1>2. CASE max = WordSize - 1
    BY <1>1, <1>2 DEF Bounded, Word
  <1>3. CASE max # WordSize - 1
    <2>1. z \in Nat /\ max \in Nat
      BY <1>1, WordNumbers DEF Word
    <2>2. (max + 1) % WordSize = max + 1
      BY <1>3, <2>1, WordNumbers DEF Word
    <2>3. z % (max + 1) \in 0 .. max
      BY <2>1
    <2>4. QED
      BY <1>1, <1>3, <2>2, <2>3 DEF Bounded
  <1>4. QED
    BY <1>2, <1>3

\* A duration that a RandomIn allows, of the parts that an answer is made of.
LEMMA DrawIsInRange ==
    ASSUME NEW c, c.word \in Word, Lower(c) \in Duration, Upper(c) \in Duration
    PROVE  \E random \in Duration :
              /\ Answer(c) = SatAdd(Offset(c), Lower(c) + random)
              /\ Lower(c) + random \in RandomIn(Lower(c), Upper(c))
  <1> DEFINE range == RangeNanos(c)
             random == IF EmptyRange(c) THEN 0
                       ELSE Bounded(c.word, Least(range, WordSize - 1))
  <1>1. PICK lo \in Duration, up \in Duration : lo = Lower(c) /\ up = Upper(c)
    OBVIOUS
  <1>2. PICK r \in Nat : r = range /\ r = SatSub(up, lo) /\ r <= up
    BY <1>1, DurMaxAssumption DEF RangeNanos, SatSub, Duration
  <1>3. PICK x \in Nat : x = random /\ x <= r
    <2>1. CASE r = 0
      BY <1>2, <2>1 DEF EmptyRange
    <2>2. CASE r # 0
      <3>1. PICK max \in Word : max = Least(r, WordSize - 1) /\ max <= r
        BY <1>2, <2>2, WordNumbers DEF Least, Word
      <3>2. Bounded(c.word, max) \in 0 .. max
        BY BoundedIsBounded
      <3>3. random = Bounded(c.word, max)
        BY <1>2, <2>2, <3>1 DEF EmptyRange
      <3>4. QED
        BY <3>1, <3>2, <3>3, WordNumbers DEF Word
    <2>3. QED
      BY <2>1, <2>2
  <1>4. lo + x \in RandomIn(lo, up) /\ lo + x <= DurMax /\ x \in Duration
    BY <1>1, <1>2, <1>3, DurMaxAssumption DEF SatSub, RandomIn, Duration
  <1>5. Answer(c) = SatAdd(Offset(c), SatAdd(lo, x))
    BY <1>1, <1>3 DEF Answer
  <1>6. SatAdd(lo, x) = lo + x
    BY <1>4 DEF SatAdd, Least
  <1>7. QED
    BY <1>1, <1>4, <1>5, <1>6

\* Whatever word was drawn, whatever the kind, the base and the previous delay.
LEMMA AnswerIsPromised ==
    ASSUME NEW c, c.word \in Word, c.kind \in {"additive", "full", "equal", "decorrelated"},
           c.base \in Duration, c.previous \in MaybeDuration
    PROVE  Answer(c) \in Promised(c)
  <1>1. PICK base \in Duration : base = c.base
    OBVIOUS
  <1>2. base \in Nat /\ base \div 2 \in Duration /\ 0 \in Duration /\ DurMax \in Nat
    BY DurMaxAssumption DEF Duration
  <1>3. CASE c.kind = "additive"
    <2>1. Lower(c) = 0 /\ Upper(c) = MaxJitter /\ Offset(c) = base /\ MaxJitter \in Duration
      BY <1>1, <1>3, JitterAssumption DEF Lower, Upper, Offset
    <2>2. PICK x \in Duration : Answer(c) = SatAdd(base, 0 + x) /\ 0 + x \in RandomIn(0, MaxJitter)
      BY <1>2, <2>1, DrawIsInRange
    <2>3. Promised(c) = { SatAdd(base, j) : j \in RandomIn(0, MaxJitter) }
      BY <1>1, <1>3 DEF Promised, JitterAdditive
    <2>4. QED
      BY <2>2, <2>3
  <1>4. CASE c.kind = "full"
    <2>1. Lower(c) = 0 /\ Upper(c) = base /\ Offset(c) = 0
      BY <1>1, <1>4 DEF Lower, Upper, Offset
    <2>2. PICK x \in Duration : Answer(c) = SatAdd(0, 0 + x) /\ 0 + x \in RandomIn(0, base)
      BY <1>2, <2>1, DrawIsInRange
    <2>3. SatAdd(0, 0 + x) = 0 + x
      BY <1>2 DEF SatAdd, Least, Duration
    <2>4. Promised(c) = RandomIn(0, base)
      BY <1>1, <1>4 DEF Promised, JitterFull
    <2>5. QED
      BY <2>2, <2>3, <2>4
  <1>5. CASE c.kind = "equal"
    <2>1. Lower(c) = 0 /\ Upper(c) = base \div 2 /\ Offset(c) = base \div 2
      BY <1>1, <1>5 DEF Lower, Upper, Offset
    <2>2. PICK x \in Duration : /\ Answer(c) = SatAdd(base \div 2, 0 + x)
                               /\ 0 + x \in RandomIn(0, base \div 2)
      BY <1>2, <2>1, DrawIsInRange
    <2>3. Promised(c) = { SatAdd(base \div 2, j) : j \in RandomIn(0, base \div 2) }
      BY <1>1, <1>5 DEF Promised, JitterEqual
    <2>4. QED
      BY <2>2, <2>3
  <1>6. CASE c.kind = "decorrelated"
    <2> DEFINE previous == IF c.previous = None THEN base ELSE c.previous
    <2>1. previous \in Duration /\ SatMul(previous, 3) \in Duration
      <3>1. previous \in Duration
        BY <1>1 DEF MaybeDuration
      <3>2. PICK p \in Duration : p = previous
        BY <3>1
      <3>3. SatMul(p, 3) \in Duration
        BY DurMaxAssumption DEF SatMul, Least, Duration
      <3>4. QED
        BY <3>2, <3>3
    <2>2. Lower(c) = base /\ Upper(c) = SatMul(previous, 3) /\ Offset(c) = 0
      BY <1>1, <1>6 DEF Lower, Upper, Offset
    <2>3. PICK x \in Duration : /\ Answer(c) = SatAdd(0, base + x)
                               /\ base + x \in RandomIn(base, SatMul(previous, 3))
      BY <2>1, <2>2, DrawIsInRange
    <2>4. SatAdd(0, base + x) = base + x
      <3>1. PICK up \in Duration : up = SatMul(previous, 3)
        BY <2>1
      <3>2. base + x \in Nat /\ base + x <= DurMax
        BY <1>2, <2>3, <3>1 DEF RandomIn, Duration
      <3>3. QED
        BY <3>2 DEF SatAdd, Least
    <2>5. Promised(c) = RandomIn(base, SatMul(previous, 3))
      BY <1>1, <1>6 DEF Promised, JitterDecorrelated
    <2>6. QED
      BY <2>3, <2>4, <2>5
  <1>7. QED
    BY <1>3, <1>4, <1>5, <1>6

\* Every answer is one that the engines were checked with, for every word and
\* every duration.
THEOREM AnswersKeepTheRange == Spec => []AnswersInRange
  <1>1. IInv => AnswersInRange
    <2> SUFFICES ASSUME IInv, NEW t \in Threads, call[t].pc = "drawn",
                        NEW kind \in {"additive", "full", "equal", "decorrelated"},
                        NEW base \in Duration, NEW previous \in MaybeDuration
                 PROVE  LET c == [call[t] EXCEPT !.kind = kind, !.base = base,
                                                 !.previous = previous]
                        IN  Answer(c) \in Promised(c)
      BY DEF AnswersInRange
    <2> DEFINE c == [call[t] EXCEPT !.kind = kind, !.base = base, !.previous = previous]
    <2>1. call[t] \in Calls
      BY BusyCalls DEF Busy, IInv
    <2>2. c.word \in Word /\ c.kind = kind /\ c.base = base /\ c.previous = previous
      BY <2>1 DEF Calls
    <2>3. QED
      BY <2>2, AnswerIsPromised
  <1>2. QED
    BY <1>1, Invariance, PTL

-----------------------------------------------------------------------------
(***************************************************************************)
(* Type correctness: what remains is that no instance draws more than the  *)
(* bound, which counts the threads that have still to draw.                *)
(***************************************************************************)
Pending(i) == { t \in Threads : call[t].pc \in {"asked", "loaded"} /\ call[t].inst = i }

DrawsInv == \A i \in Instances : Len(taken[i]) + Cardinality(Pending(i)) <= MaxDraws

LEMMA DrawBound == MaxDraws \in Nat
  BY Zenon, JitterAssumption DEF JitterAssumption

LEMMA ThreadSetsAreFinite ==
    \A S \in SUBSET Threads : IsFiniteSet(S) /\ Cardinality(S) \in Nat
  BY JitterAssumption, FS_Subset, FS_CardinalityType

LEMMA PendingIsFinite ==
    /\ \A i : Pending(i) \in SUBSET Threads
    /\ \A i : Users(i) \in SUBSET Threads
    /\ \A i : IsFiniteSet(Pending(i)) /\ Cardinality(Pending(i)) \in Nat
    /\ \A i : IsFiniteSet(Users(i)) /\ Cardinality(Users(i)) \in Nat
  <1>1. ASSUME NEW i PROVE Pending(i) \in SUBSET Threads /\ Users(i) \in SUBSET Threads
    BY DEF Pending, Users
  <1>2. ASSUME NEW i PROVE IsFiniteSet(Pending(i)) /\ Cardinality(Pending(i)) \in Nat
    BY <1>1, ThreadSetsAreFinite
  <1>3. ASSUME NEW i PROVE IsFiniteSet(Users(i)) /\ Cardinality(Users(i)) \in Nat
    BY <1>1, ThreadSetsAreFinite
  <1>4. QED
    BY <1>1, <1>2, <1>3

LEMMA NextDrawsInv == IInv /\ DrawsInv /\ [Next]_vars => DrawsInv'
  <1> SUFFICES ASSUME IInv, DrawsInv, [Next]_vars, NEW i \in Instances
               PROVE  (Len(taken[i]) + Cardinality(Pending(i)) <= MaxDraws)'
    BY DEF DrawsInv
  <1>1. /\ taken[i] \in Seq(Word) /\ Len(taken[i]) \in Nat /\ MaxDraws \in Nat
        /\ Len(taken[i]) + Cardinality(Pending(i)) <= MaxDraws
    BY DrawBound DEF IInv, Shapes, DrawsInv
  <1>a. PICK p \in Nat : p = Cardinality(Pending(i)')
    <2>1. Pending(i)' \in SUBSET Threads
      BY DEF Pending
    <2>2. QED
      BY <2>1, ThreadSetsAreFinite
  <1>2. CASE /\ taken'[i] = taken[i] \/ taken'[i] = <<>>
             /\ Pending(i)' \subseteq Pending(i)
    <2>2. p <= Cardinality(Pending(i))
      BY <1>2, <1>a, PendingIsFinite, FS_Subset
    <2>3. PICK n \in Nat : n = Len(taken'[i]) /\ n <= Len(taken[i])
      BY <1>1, <1>2
    <2>4. n + p <= MaxDraws
      BY <1>1, <2>2, <2>3, PendingIsFinite
    <2>5. QED
      BY <1>a, <2>3, <2>4
  <1>3. CASE \E j \in Instances : \/ New(j)
                                  \/ \E k \in Instances : Clone(k, j)
                                  \/ \E seed \in Seeds : WithSeed(j, seed)
                                  \/ \E nonce \in Nonces : WithNonce(j, nonce)
    <2>1. (taken'[i] = taken[i] \/ taken'[i] = <<>>) /\ call' = call
      BY <1>3 DEF New, Clone, WithSeed, WithNonce, Install, IInv, Shapes
    <2>2. QED
      BY <1>2, <2>1 DEF Pending
  <1>4. CASE \E t \in Threads, j \in Instances, base \in Bases, previous \in Previous :
                Ask(t, j, base, previous)
    <2>1. PICK t \in Threads, j \in Instances, base \in Bases, previous \in Previous :
              Ask(t, j, base, previous)
      BY <1>4
    <2>2. /\ call[t].pc = "idle" /\ taken' = taken /\ call'[t].inst = j
          /\ \A u \in Threads \ {t} : call'[u] = call[u]
          /\ Len(taken[j]) + Cardinality(Users(j)) < MaxDraws
      BY <2>1 DEF Ask, IInv, Shapes
    <2>3. CASE i # j
      <3>1. Pending(i)' \subseteq Pending(i)
        BY <2>2, <2>3 DEF Pending
      <3>2. QED
        BY <1>2, <2>2, <3>1
    <2>4. CASE i = j
      <3>1. Pending(i)' \subseteq Users(i) \cup {t} /\ t \notin Users(i)
        BY <2>2 DEF Pending, Users
      <3>2. /\ IsFiniteSet(Users(i) \cup {t})
            /\ Cardinality(Users(i) \cup {t}) = Cardinality(Users(i)) + 1
        BY <3>1, PendingIsFinite, FS_AddElement
      <3>4. p <= Cardinality(Users(i)) + 1
        BY <3>1, <3>2, <1>a, FS_Subset
      <3>5. Len(taken[i]) + p <= MaxDraws
        BY <1>1, <2>2, <2>4, <3>4, PendingIsFinite
      <3>6. QED
        BY <1>a, <2>2, <3>5
    <2>5. QED
      BY <2>3, <2>4
  <1>5. CASE \E t \in Threads : FetchAdd(t) \/ Store(t)
    <2>0. PICK t \in Threads : FetchAdd(t) \/ Store(t)
      BY <1>5
    <2> DEFINE Draws(word) ==
              /\ call[t].pc \in {"asked", "loaded"}
              /\ taken' = [taken EXCEPT ![call[t].inst] = Append(@, word)]
              /\ call' = [call EXCEPT ![t].pc = "drawn", ![t].word = word]
    <2>a. FetchAdd(t) => Draws(Advanced(jittered[call[t].inst].state))
      BY DEF FetchAdd, Draw
    <2>b. Store(t) => Draws(call[t].word)
      BY DEF Store, Draw
    <2>c. \E word : Draws(word)
      <3> HIDE DEF Draws
      <3> QED
        BY <2>0, <2>a, <2>b
    <2>1. PICK word : Draws(word)
      BY <2>c
    <2>2. call[t] \in Calls
      BY <2>1, BusyCalls DEF IInv, Busy
    <2>3. /\ call'[t].pc = "drawn"
          /\ \A u \in Threads \ {t} : call'[u] = call[u]
      BY <2>1, <2>2 DEF IInv, Shapes, Calls
    <2>4. CASE call[t].inst # i
      <3>1. Pending(i)' \subseteq Pending(i) /\ taken'[i] = taken[i]
        BY <2>1, <2>3, <2>4 DEF Pending, IInv, Shapes
      <3>2. QED
        BY <1>2, <3>1
    <2>5. CASE call[t].inst = i
      <3>1. t \in Pending(i) /\ Pending(i)' \subseteq Pending(i) \ {t}
        BY <2>1, <2>3, <2>5 DEF Pending
      <3>2. /\ IsFiniteSet(Pending(i) \ {t})
            /\ Cardinality(Pending(i) \ {t}) = Cardinality(Pending(i)) - 1
        BY <3>1, PendingIsFinite, FS_RemoveElement
      <3>4. p <= Cardinality(Pending(i)) - 1
        BY <3>1, <3>2, <1>a, FS_Subset
      <3>5. taken'[i] = Append(taken[i], word)
        BY <2>1, <2>5 DEF IInv, Shapes
      <3>6. Len(taken'[i]) = Len(taken[i]) + 1
        BY <1>1, <3>5
      <3>7. (Len(taken[i]) + 1) + p <= MaxDraws
        BY <1>1, <3>4, PendingIsFinite
      <3>8. QED
        BY <1>a, <3>6, <3>7
    <2>6. QED
      BY <2>4, <2>5
  <1>6. CASE \E t \in Threads : Load(t) \/ Return(t)
    <2>1. PICK t \in Threads : Load(t) \/ Return(t)
      BY <1>6
    <2>2. call[t] \in Calls
      BY <2>1, BusyCalls DEF IInv, Busy, Load, Return
    <2>3. /\ taken' = taken
          /\ \A u \in Threads \ {t} : call'[u] = call[u]
          /\ \/ call'[t] = Idle
             \/ call'[t].inst = call[t].inst /\ call[t].pc = "asked"
      BY <2>1, <2>2 DEF Load, Return, IInv, Shapes, Calls
    <2>4. Pending(i)' \subseteq Pending(i)
      BY <2>3 DEF Pending, Idle
    <2>5. QED
      BY <1>2, <2>3, <2>4
  <1>7. CASE UNCHANGED vars
    BY <1>2, <1>7 DEF vars, Pending
  <1>8. QED
    BY <1>3, <1>4, <1>5, <1>6, <1>7 DEF Next

\* Every variable holds a value of its Rust type, within the bounds.
THEOREM TypeCorrect == Spec => []TypeOK
  <1>1. Init => DrawsInv
    <2> SUFFICES ASSUME Init, NEW i \in Instances
                 PROVE  Len(taken[i]) + Cardinality(Pending(i)) <= MaxDraws
      BY DEF DrawsInv
    <2>1. taken[i] = <<>> /\ Pending(i) = {}
      BY DEF Init, Pending, Idle
    <2>2. QED
      BY <2>1, FS_EmptySet, DrawBound
  <1>2. IInv /\ DrawsInv => TypeOK
    <2> SUFFICES ASSUME IInv, DrawsInv PROVE TypeOK
      OBVIOUS
    <2>1. ASSUME NEW i \in Instances
          PROVE  \/ jittered[i] = Absent /\ label[i] = <<>> /\ taken[i] = <<>>
                 \/ /\ jittered[i] \in [kind : Kinds, seed : Word, state : Word]
                    /\ label[i][1] = jittered[i].seed
                    /\ taken[i] \in Seq(Word)
                    /\ Len(taken[i]) <= MaxDraws
      <3>1. taken[i] \in Seq(Word) /\ Len(taken[i]) \in Nat
        BY DEF IInv, Shapes
      <3>2. Len(taken[i]) <= MaxDraws
        BY <3>1, PendingIsFinite, DrawBound DEF DrawsInv
      <3>3. QED
        BY <3>1, <3>2 DEF IInv, Shapes, Exists
    <2>2. \A t \in Threads : call[t] = Idle \/ call[t] \in Calls
      BY DEF IInv, Shapes
    <2>3. QED
      BY <2>1, <2>2 DEF TypeOK, Calls, IInv, Shapes
  <1>3. QED
    BY <1>1, <1>2, Invariance, NextDrawsInv, PTL DEF Spec
=============================================================================
