-------------------------- MODULE CallbacksProofs ---------------------------
(***************************************************************************)
(* Proofs about the calls of user code, for any hooks, strategies and      *)
(* classifiers, any number of them, and any number of attempts.            *)
(***************************************************************************)
EXTENDS Callbacks, FiniteSetTheorems, SequenceTheorems, TLAPS

-----------------------------------------------------------------------------
\* Sequences. S is the set their elements are from.

LEMMA AppendThenConcat ==
    ASSUME NEW S, NEW s \in Seq(S), NEW e \in S, NEW t \in Seq(S)
    PROVE  Append(s, e) \o t = s \o (<<e>> \o t)
  <1>1. Append(s, e) = s \o <<e>> /\ <<e>> \in Seq(S)
    BY AppendIsConcat
  <1>2. QED
    BY <1>1, ConcatAssociative

LEMMA HeadThenTail ==
    ASSUME NEW S, NEW q \in Seq(S), q # <<>>
    PROVE  /\ Head(q) \in S /\ Tail(q) \in Seq(S)
           /\ <<Head(q)>> \o Tail(q) = q
  <1>1. /\ Head(q) \in S /\ Tail(q) \in Seq(S) /\ Len(Tail(q)) = Len(q) - 1
        /\ \A i \in 1 .. Len(Tail(q)) : Tail(q)[i] = q[i + 1]
        /\ Len(q) \in Nat \ {0} /\ Head(q) = q[1]
    BY HeadTailProperties, EmptySeq
  <1>2. /\ <<Head(q)>> \in Seq(S) /\ Len(<<Head(q)>>) = 1
        /\ <<Head(q)>>[1] = Head(q)
    BY <1>1
  <1>3. /\ <<Head(q)>> \o Tail(q) \in Seq(S)
        /\ Len(<<Head(q)>> \o Tail(q)) = Len(q)
        /\ \A i \in 1 .. Len(q) : (<<Head(q)>> \o Tail(q))[i]
                                     = IF i <= 1 THEN Head(q) ELSE Tail(q)[i - 1]
    BY <1>1, <1>2, ConcatProperties
  <1>4. ASSUME NEW i \in 1 .. Len(q) PROVE (<<Head(q)>> \o Tail(q))[i] = q[i]
    BY <1>1, <1>3
  <1>5. QED
    BY <1>1, <1>3, <1>4, SeqEqual

LEMMA PrefixOfConcat ==
    ASSUME NEW S, NEW s \in Seq(S), NEW t \in Seq(S)
    PROVE  IsPrefix(s, s \o t)
  <1>1. /\ Len(s) \in Nat /\ Len(t) \in Nat /\ s \o t \in Seq(S)
        /\ Len(s \o t) = Len(s) + Len(t)
        /\ \A i \in 1 .. Len(s) : (s \o t)[i] = s[i]
    BY ConcatProperties, LenProperties
  <1>2. /\ SubSeq(s, 1, Len(s)) \in Seq(S)
        /\ SubSeq(s \o t, 1, Len(s)) \in Seq(S)
        /\ Len(SubSeq(s, 1, Len(s))) = Len(SubSeq(s \o t, 1, Len(s)))
        /\ Len(SubSeq(s, 1, Len(s))) = Len(s)
    <2>1. \A i \in 1 .. Len(s) : s[i] \in S /\ (s \o t)[i] \in S
      BY <1>1, ElementOfSeq
    <2>2. QED
      BY <1>1, <2>1, SubSeqProperties
  <1>3. SubSeq(s, 1, Len(s)) = s
    BY SubSeqFull
  <1>4. ASSUME NEW i \in 1 .. Len(s) PROVE s[i] = SubSeq(s \o t, 1, Len(s))[i]
    <2>1. \A j \in 1 .. Len(s) : (s \o t)[j] \in S
      BY <1>1, ElementOfSeq
    <2>2. SubSeq(s \o t, 1, Len(s))[i] = (s \o t)[1 + i - 1]
      BY <1>1, <2>1, SubSeqProperties
    <2>3. QED
      BY <1>1, <2>2
  <1>5. s = SubSeq(s \o t, 1, Len(s))
    BY <1>2, <1>3, <1>4, SeqEqual
  <1>6. QED
    BY <1>1, <1>3, <1>5 DEF IsPrefix

-----------------------------------------------------------------------------
\* The last value asked for.

Classifier == {DefaultClassifier} \cup UNION { u.classifiers : u \in Users }

Value == Stops \cup Waits \cup Classifier \cup Timeouts \cup Clocks \cup Nat

SlotNames == {"stop", "wait", "classifier", "timeout", "clock", "before", "after", "exit"}

Requests == Seq(SlotNames \X Value)

\* A slot that was asked for was asked for a last time.
HasLast(history) ==
    \A slot \in SlotNames : PlacesOf(slot, history) # {} =>
        \E m \in PlacesOf(slot, history) : \A l \in PlacesOf(slot, history) : m >= l

\* The history g is h with one more request, of v for the slot called name.
OneMore(h, g, name, v) ==
    /\ g \in Requests
    /\ g[Len(h) + 1] = <<name, v>>
    /\ \A k \in 1 .. Len(h) : g[k] = h[k]
    /\ \A slot : PlacesOf(slot, h) \subseteq 1 .. Len(h)
    /\ PlacesOf(name, g) = PlacesOf(name, h) \cup {Len(h) + 1}
    /\ \A slot : slot # name => PlacesOf(slot, g) = PlacesOf(slot, h)

LEMMA AppendIsOneMore ==
    ASSUME NEW h \in Requests, NEW name \in SlotNames, NEW v \in Value
    PROVE  OneMore(h, Append(h, <<name, v>>), name, v)
  <1> DEFINE T == SlotNames \X Value
             e == <<name, v>>
             g == Append(h, e)
  <1>0. h \in Seq(T) /\ e \in T
    BY DEF Requests
  <1>1. /\ g \in Seq(T) /\ Len(g) = Len(h) + 1 /\ Len(h) \in Nat
        /\ g[Len(h) + 1] = e
        /\ \A k \in 1 .. Len(h) : g[k] = h[k]
        /\ DOMAIN h = 1 .. Len(h) /\ DOMAIN g = 1 .. Len(h) + 1
    <2> HIDE DEF T, e
    <2>1. /\ Append(h, e) \in Seq(T) /\ Len(Append(h, e)) = Len(h) + 1
          /\ \A k \in 1 .. Len(h) : Append(h, e)[k] = h[k]
          /\ Append(h, e)[Len(h) + 1] = e
      BY <1>0, AppendProperties
    <2>2. Len(h) \in Nat /\ DOMAIN h = 1 .. Len(h)
      BY <1>0, LenProperties
    <2>3. DOMAIN Append(h, e) = 1 .. Len(Append(h, e))
      BY <2>1, LenProperties
    <2>4. QED
      BY <2>1, <2>2, <2>3
  <1> HIDE DEF g
  <1>2. 1 .. Len(h) + 1 = (1 .. Len(h)) \cup {Len(h) + 1}
    BY <1>1
  <1>3. <<name, v>>[1] = name
    OBVIOUS
  <1>4. PlacesOf(name, g) = PlacesOf(name, h) \cup {Len(h) + 1}
    BY <1>1, <1>2, <1>3 DEF PlacesOf
  <1>5. ASSUME NEW slot, slot # name PROVE PlacesOf(slot, g) = PlacesOf(slot, h)
    BY <1>1, <1>2, <1>3, <1>5 DEF PlacesOf
  <1>6. \A slot : PlacesOf(slot, h) \subseteq 1 .. Len(h)
    BY <1>1 DEF PlacesOf
  <1>7. g \in Requests
    BY <1>1 DEF Requests
  <1>8. OneMore(h, g, name, v)
    BY <1>1, <1>4, <1>5, <1>6, <1>7 DEF OneMore
  <1>9. QED
    BY <1>8 DEF g

LEMMA LastPlace ==
    ASSUME NEW n \in Nat, NEW P, NEW Q, P \subseteq 1 .. n, Q = P \cup {n + 1}
    PROVE  n + 1 \in Q /\ (\A l \in Q : n + 1 >= l) /\ Max(Q) = n + 1
  <1>1. n + 1 \in Q /\ \A l \in Q : l \in Nat /\ n + 1 >= l
    OBVIOUS
  <1>2. ASSUME NEW m \in Q, \A l \in Q : m >= l
        PROVE  m = n + 1
    <2>1. m >= n + 1 /\ m \in Nat /\ n + 1 >= m
      BY <1>1, <1>2
    <2>2. QED
      BY <2>1
  <1>3. QED
    BY <1>1, <1>2 DEF Max

LEMMA LastAfterAppend ==
    ASSUME NEW h \in Requests, HasLast(h), NEW name \in SlotNames, NEW v \in Value,
           NEW g, OneMore(h, g, name, v)
    PROVE  /\ HasLast(g)
           /\ \A otherwise : LastAsked(name, g, otherwise) = v
           /\ \A slot \in SlotNames \ {name} : \A otherwise :
                LastAsked(slot, g, otherwise) = LastAsked(slot, h, otherwise)
  <1>1. PICK n \in Nat : n = Len(h)
    BY LenProperties DEF Requests
  <1>2. /\ PlacesOf(name, g) # {}
        /\ \E m \in PlacesOf(name, g) : \A l \in PlacesOf(name, g) : m >= l
        /\ \A otherwise : LastAsked(name, g, otherwise) = v
    <2>1. PICK P, Q : /\ P = PlacesOf(name, h) /\ Q = PlacesOf(name, g)
                      /\ P \subseteq 1 .. n /\ Q = P \cup {n + 1}
      BY <1>1 DEF OneMore
    <2>2. n + 1 \in Q /\ (\A l \in Q : n + 1 >= l) /\ Max(Q) = n + 1
      BY <2>1, LastPlace
    <2>3. g[n + 1][2] = v
      BY <1>1 DEF OneMore
    <2>4. QED
      BY <2>1, <2>2, <2>3 DEF LastAsked
  <1>3. ASSUME NEW slot \in SlotNames, slot # name
        PROVE  /\ PlacesOf(slot, g) # {} =>
                    \E m \in PlacesOf(slot, g) : \A l \in PlacesOf(slot, g) : m >= l
               /\ \A otherwise : LastAsked(slot, g, otherwise) = LastAsked(slot, h, otherwise)
    <2>1. PlacesOf(slot, g) = PlacesOf(slot, h) /\ PlacesOf(slot, h) \subseteq 1 .. Len(h)
      BY <1>3 DEF OneMore
    <2>2. CASE PlacesOf(slot, h) = {}
      BY <2>1, <2>2 DEF LastAsked
    <2>3. CASE PlacesOf(slot, h) # {}
      <3>1. PICK m \in PlacesOf(slot, h) : \A l \in PlacesOf(slot, h) : m >= l
        BY <2>3 DEF HasLast
      <3>2. Max(PlacesOf(slot, h)) \in PlacesOf(slot, h)
        BY <3>1 DEF Max
      <3>3. g[Max(PlacesOf(slot, h))] = h[Max(PlacesOf(slot, h))]
        BY <2>1, <3>2 DEF OneMore
      <3>4. QED
        BY <2>1, <2>3, <3>1, <3>3 DEF LastAsked
    <2>4. QED
      BY <2>2, <2>3
  <1>4. HasLast(g)
    BY <1>2, <1>3 DEF HasLast
  <1>5. QED
    BY <1>2, <1>3, <1>4

-----------------------------------------------------------------------------
(***************************************************************************)
(* The inductive invariant.                                                *)
(***************************************************************************)
Stages == {"policy", "building", "before", "running", "after", "stop", "wait",
           "resting", "exit", "done", "unwound", "cancelled"}

Places == {"before", "op", "after", "classify", "stop", "wait", "clock", "exit"}

Callee == STRING \cup Nat \cup Clocks \cup {SystemClock, "op"} \cup Classifier

\* What an attempt can return, and what an execution can end with.
Outcomes == {NoOutcome} \cup UNION { u.outcomes : u \in Users }

Ends ==
    { ResultOk(Decide(c, o).carries) : c \in Classifier, o \in Outcomes }
    \cup { Aborted(Decide(c, o).carries) : c \in Classifier, o \in Outcomes }
    \cup { Exhausted(o) : o \in Outcomes }
    \cup {NoResult}

Entry == [at : Places, callee : Callee, sees : Outcomes \cup Ends]

StopSlot == Stops \cup {DefaultStop}
WaitSlot == Waits \cup {DefaultWait}

PolicyType ==
    [stop : StopSlot, wait : WaitSlot, classifier : Classifier, timeout : Timeouts \cup {None}]

BuilderType ==
    [stop : StopSlot, wait : WaitSlot, classifier : Classifier, timeout : Timeouts \cup {None},
     clock : Clocks \cup {SystemClock}, before : Seq(Nat), after : Seq(Nat), exit : Seq(Nat)]

PolicySlots == {"stop", "wait", "classifier", "timeout"}
Chains == {"before", "after", "exit"}

\* The slots hold what was last asked for, the chains one hook per request.
PolicyInv ==
    /\ user \in Users
    /\ policy \in PolicyType
    /\ policyRequests \in Requests /\ HasLast(policyRequests)
    /\ PlacesOf("clock", policyRequests) = {}
    /\ \A slot \in PolicySlots : policy[slot] = LastAsked(slot, policyRequests, Defaults[slot])

BuilderInv ==
    /\ builder \in BuilderType
    /\ engine \in {"sync", "async"}
    /\ requests \in Requests /\ HasLast(requests)
    /\ Len(requests) <= user.requests
    /\ stage # "policy" => \A slot \in PolicySlots \cup {"clock"} : builder[slot] = Asked(slot)
    /\ \A slot \in Chains :
          builder[slot] = [k \in 1 .. Cardinality(PlacesOf(slot, requests)) |-> k]

Shapes ==
    /\ stage \in Stages
    /\ queue \in Seq(Callee)
    /\ attempt \in Nat \ {0}
    /\ outcome \in user.outcomes \cup {NoOutcome}
    /\ late \in BOOLEAN
    /\ answers \in Seq(BOOLEAN)
    /\ result \in Ends
    /\ trace \in Seq(Seq(Entry)) /\ Len(trace) = attempt

\* Every part of the stop strategy is asked, and says yes when the bound comes.
StopInv ==
    /\ stage \in {"policy", "building"} => attempt = 1
    /\ attempt <= user.attempts
    /\ stage \in {"wait", "resting"} => attempt < user.attempts
    /\ stage = "stop" =>
          /\ Len(answers) + Len(queue) = Len(builder.stop.parts)
          /\ attempt >= user.attempts => \A k \in DOMAIN answers : answers[k]

\* What the verdict on the last outcome makes the end.
VerdictInv ==
    LET v == Decide(builder.classifier, outcome)
    IN  /\ stage = "stop" => v.verdict = "Retry"
        /\ stage \in {"exit", "done"} =>
              \/ v.verdict = "Return" /\ result = ResultOk(v.carries)
              \/ v.verdict = "Abort" /\ result = Aborted(v.carries)
              \/ v.verdict = "Retry" /\ result = Exhausted(outcome)

\* Exit hooks have seen the result of the execution, after hooks the outcome
\* of their attempt.
SightInv ==
    \A a \in 1 .. attempt : \A k \in DOMAIN trace[a] :
        /\ trace[a][k].at = "exit" =>
              /\ a = attempt /\ stage \in {"exit", "done", "unwound"}
              /\ stage # "unwound" => trace[a][k].sees = result
        /\ trace[a][k].at = "after" /\ a = attempt =>
              /\ stage \notin {"policy", "building", "before", "running"}
              /\ trace[a][k].sees = outcome

\* The script of an attempt, piece by piece, from what the builder holds.
BeforePart == All("before", builder.before)
OpPart == BeforePart \o << <<"op", "op">> >>
AfterPart == OpPart \o All("after", builder.after)
TriedPart == AfterPart \o << <<"classify", builder.classifier>> >>
StopPart == TriedPart \o All("stop", builder.stop.parts)
WaitPart == StopPart \o All("wait", builder.wait)
LastParts == { TriedPart \o All("exit", builder.exit), StopPart \o All("exit", builder.exit) }
RetryParts == { WaitPart, Append(WaitPart, <<"clock", builder.clock>>) }

\* The calls of this attempt, and those in the queue, are the script so far.
MadeInv ==
    LET made == CallsOf(attempt) IN
    /\ stage \in {"policy", "building"} => made = <<>>
    /\ stage = "before" => made \o All("before", queue) = BeforePart
    /\ stage = "running" => made = OpPart
    /\ stage = "after" => made \o All("after", queue) = AfterPart
    /\ stage = "stop" => made \o All("stop", queue) = StopPart
    /\ stage = "wait" => made \o All("wait", queue) = WaitPart
    /\ stage = "resting" => made \in RetryParts
    /\ stage = "exit" => made \o All("exit", queue) \in LastParts
    /\ stage = "done" => made \in LastParts
    /\ stage \in {"unwound", "cancelled"} =>
          \E script \in LastParts \cup RetryParts : IsPrefix(made, script)

PastInv == \A a \in 1 .. attempt - 1 : CallsOf(a) \in RetryParts

RunInv ==
    /\ Shapes /\ StopInv /\ VerdictInv /\ SightInv
    /\ MadeInv /\ PastInv

IInv == PolicyInv /\ BuilderInv /\ RunInv

-----------------------------------------------------------------------------
\* Configuring.

LEMMA PlacesCounted ==
    ASSUME NEW n \in Nat, NEW P, P \subseteq 1 .. n
    PROVE  /\ Cardinality(P) \in 0 .. n
           /\ Cardinality(P \cup {n + 1}) = Cardinality(P) + 1
  <1>1. IsFiniteSet(1 .. n) /\ Cardinality(1 .. n) = n
    BY FS_Interval
  <1>2. IsFiniteSet(P) /\ Cardinality(P) <= Cardinality(1 .. n)
    BY <1>1, FS_Subset
  <1>3. Cardinality(P) \in Nat
    BY <1>2, FS_CardinalityType
  <1>4. n + 1 \notin P
    OBVIOUS
  <1>5. Cardinality(P \cup {n + 1}) = Cardinality(P) + 1
    BY <1>2, <1>4, FS_AddElement
  <1>6. QED
    BY <1>1, <1>2, <1>3, <1>5

LEMMA NoRequests ==
    /\ <<>> \in Requests /\ HasLast(<<>>)
    /\ \A slot : PlacesOf(slot, <<>>) = {}
    /\ \A slot, otherwise : LastAsked(slot, <<>>, otherwise) = otherwise
  <1>1. \A slot : PlacesOf(slot, <<>>) = {}
    BY DEF PlacesOf
  <1>2. QED
    BY <1>1 DEF Requests, HasLast, LastAsked

\* The defaults are values of their slots.
LEMMA DefaultsInSlots ==
    /\ Defaults \in PolicyType
    /\ \A slots \in PolicyType : FromParts(slots) \in BuilderType
  BY DEF Defaults, PolicyType, BuilderType, FromParts, StopSlot, WaitSlot, Classifier

LEMMA InitInv == Init => IInv
  <1> SUFFICES ASSUME Init PROVE IInv
    OBVIOUS
  <1>1. PolicyInv
    BY NoRequests, DefaultsInSlots DEF Init, PolicyInv
  <1>2. builder \in BuilderType
    BY DefaultsInSlots DEF Init
  <1>3. \A slot \in Chains : builder[slot] = [k \in 1 .. Cardinality(PlacesOf(slot, requests)) |-> k]
    <2>1. \A slot \in Chains : builder[slot] = <<>>
      BY DEF Init, FromParts, Chains
    <2>2. \A slot : Cardinality(PlacesOf(slot, requests)) = 0
      BY NoRequests, FS_EmptySet DEF Init
    <2>3. [k \in 1 .. 0 |-> k] = <<>>
      OBVIOUS
    <2>4. QED
      BY <2>1, <2>2, <2>3
  <1>4. BuilderInv
    BY <1>2, <1>3, NoRequests, UsersAssumption DEF Init, BuilderInv
  <1>5. trace \in Seq(Seq(Entry)) /\ Len(trace) = 1 /\ trace[1] = <<>>
    BY DEF Init
  <1>6. Shapes
    <2>1. NoResult \in Ends
      BY DEF Ends
    <2>2. attempt \in Nat \ {0} /\ stage \in Stages
      BY DEF Init, Stages
    <2>3. late \in BOOLEAN
      BY Zenon DEF Init
    <2>4. queue \in Seq(Callee) /\ answers \in Seq(BOOLEAN)
      BY DEF Init
    <2>5. QED
      BY <1>5, <2>1, <2>2, <2>3, <2>4 DEF Init, Shapes
  <1>7. StopInv
    BY UsersAssumption DEF Init, StopInv
  <1>8. VerdictInv
    BY DEF Init, VerdictInv
  <1>9. SightInv
    BY <1>5 DEF Init, SightInv
  <1>10. CallsOf(1) = <<>>
    BY <1>5 DEF CallsOf
  <1>11. MadeInv
    BY <1>10 DEF Init, MadeInv
  <1>12. PastInv
    BY DEF Init, PastInv
  <1>13. QED
    BY <1>1, <1>4, <1>6, <1>7, <1>8, <1>9, <1>11, <1>12 DEF IInv, RunInv

LEMMA ConfiguredBuilder ==
    ASSUME NEW slots \in BuilderType, user \in Users,
           NEW slot \in SlotNames, NEW value \in Arguments(slot, slots)
    PROVE  /\ value \in Value
           /\ Configured(slots, slot, value) \in BuilderType
           /\ \A s \in SlotNames \ {slot} : Configured(slots, slot, value)[s] = slots[s]
           /\ slot \notin Chains => Configured(slots, slot, value)[slot] = value
           /\ slot \in Chains => /\ value = Len(slots[slot]) + 1
                                 /\ Configured(slots, slot, value)[slot] = Append(slots[slot], value)
  <1>1. user.classifiers \subseteq Classifier
    BY DEF Classifier
  <1>2. ASSUME slot \in Chains
         PROVE  /\ value = Len(slots[slot]) + 1 /\ value \in Nat /\ value \in Value
                /\ slots[slot] \in Seq(Nat) /\ Append(slots[slot], value) \in Seq(Nat)
    <2>1. slots[slot] \in Seq(Nat)
      BY <1>2 DEF BuilderType, Chains
    <2>2. value = Len(slots[slot]) + 1
      BY <1>2 DEF Arguments, Chains
    <2>3. QED
      BY <2>1, <2>2, LenProperties, AppendProperties DEF Value
  <1>3. CASE slot = "stop"
    BY <1>3 DEF Arguments, Configured, BuilderType, StopSlot, Value, SlotNames, Chains
  <1>4. CASE slot = "wait"
    BY <1>4 DEF Arguments, Configured, BuilderType, WaitSlot, Value, SlotNames, Chains
  <1>5. CASE slot = "classifier"
    BY <1>1, <1>5 DEF Arguments, Configured, BuilderType, Value, SlotNames, Chains
  <1>6. CASE slot = "timeout"
    BY <1>6 DEF Arguments, Configured, BuilderType, Value, SlotNames, Chains
  <1>7. CASE slot = "clock"
    BY <1>7 DEF Arguments, Configured, BuilderType, Value, SlotNames, Chains
  <1>8. CASE slot = "before"
    BY <1>8, <1>2 DEF Configured, BuilderType, SlotNames, Chains
  <1>9. CASE slot = "after"
    BY <1>9, <1>2 DEF Configured, BuilderType, SlotNames, Chains
  <1>10. CASE slot = "exit"
    BY <1>10, <1>2 DEF Configured, BuilderType, SlotNames, Chains
  <1>11. QED
    BY <1>3, <1>4, <1>5, <1>6, <1>7, <1>8, <1>9, <1>10 DEF SlotNames

LEMMA ConfiguredPolicy ==
    ASSUME NEW slots \in PolicyType, user \in Users,
           NEW slot \in PolicySlots, NEW value \in Arguments(slot, slots)
    PROVE  /\ value \in Value
           /\ Configured(slots, slot, value) \in PolicyType
           /\ \A s \in PolicySlots \ {slot} : Configured(slots, slot, value)[s] = slots[s]
           /\ Configured(slots, slot, value)[slot] = value
  <1>1. user.classifiers \subseteq Classifier
    BY DEF Classifier
  <1>2. CASE slot = "stop"
    BY <1>2 DEF Arguments, Configured, PolicyType, StopSlot, Value, PolicySlots
  <1>3. CASE slot = "wait"
    BY <1>3 DEF Arguments, Configured, PolicyType, WaitSlot, Value, PolicySlots
  <1>4. CASE slot = "classifier"
    BY <1>1, <1>4 DEF Arguments, Configured, PolicyType, Value, PolicySlots
  <1>5. CASE slot = "timeout"
    BY <1>5 DEF Arguments, Configured, PolicyType, Value, PolicySlots
  <1>6. QED
    BY <1>2, <1>3, <1>4, <1>5 DEF PolicySlots

LEMMA OneMoreHook ==
    ASSUME NEW n \in Nat
    PROVE  Append([k \in 1 .. n |-> k], n + 1) = [k \in 1 .. n + 1 |-> k]
  OBVIOUS

\* A step that leaves the configuration alone.
LEMMA SameConfig ==
    ASSUME PolicyInv, BuilderInv, UNCHANGED configVars, stage # "policy", stage' # "policy"
    PROVE  PolicyInv' /\ BuilderInv'
  <1>1. \A slot : Asked(slot)' = Asked(slot)
    BY DEF configVars, Asked
  <1>2. QED
    BY <1>1 DEF configVars, PolicyInv, BuilderInv

LEMMA NextPolicy ==
    ASSUME PolicyInv, BuilderInv, ConfigurePolicy
    PROVE  PolicyInv' /\ BuilderInv'
  <1>1. PICK slot \in user.policyMethods : \E value \in Arguments(slot, policy) :
            /\ policy' = Configured(policy, slot, value)
            /\ policyRequests' = Append(policyRequests, <<slot, value>>)
    BY DEF ConfigurePolicy
  <1>2. PICK value \in Arguments(slot, policy) :
            /\ policy' = Configured(policy, slot, value)
            /\ policyRequests' = Append(policyRequests, <<slot, value>>)
    BY <1>1
  <1>3. slot \in PolicySlots /\ slot \in SlotNames
    BY UsersAssumption DEF PolicyInv, PolicySlots, SlotNames
  <1>4. /\ value \in Value /\ policy' \in PolicyType
        /\ \A s \in PolicySlots \ {slot} : policy'[s] = policy[s]
        /\ policy'[slot] = value
    BY <1>2, <1>3, ConfiguredPolicy DEF PolicyInv
  <1>5. OneMore(policyRequests, policyRequests', slot, value)
    BY <1>2, <1>3, <1>4, AppendIsOneMore DEF PolicyInv
  <1>6. /\ HasLast(policyRequests')
        /\ \A otherwise : LastAsked(slot, policyRequests', otherwise) = value
        /\ \A s \in SlotNames \ {slot} : \A otherwise :
              LastAsked(s, policyRequests', otherwise) = LastAsked(s, policyRequests, otherwise)
    BY <1>3, <1>4, <1>5, LastAfterAppend DEF PolicyInv
  <1>7. policyRequests' \in Requests /\ PlacesOf("clock", policyRequests') = {}
    BY <1>3, <1>5 DEF OneMore, PolicyInv, PolicySlots
  <1>8. \A s \in PolicySlots : policy'[s] = LastAsked(s, policyRequests', Defaults[s])
    BY <1>4, <1>6 DEF PolicyInv, PolicySlots, SlotNames
  <1>9. PolicyInv'
    BY <1>4, <1>6, <1>7, <1>8 DEF PolicyInv, ConfigurePolicy
  <1>10. QED
    BY <1>9 DEF BuilderInv, ConfigurePolicy

LEMMA NextBuilder ==
    ASSUME PolicyInv, BuilderInv, Configure
    PROVE  PolicyInv' /\ BuilderInv'
  <1>1. PICK slot \in user.methods : \E value \in Arguments(slot, builder) :
            /\ builder' = Configured(builder, slot, value)
            /\ requests' = Append(requests, <<slot, value>>)
    BY DEF Configure
  <1>2. PICK value \in Arguments(slot, builder) :
            /\ builder' = Configured(builder, slot, value)
            /\ requests' = Append(requests, <<slot, value>>)
    BY <1>1
  <1>3. slot \in SlotNames
    BY UsersAssumption DEF PolicyInv, SlotNames
  <1>4. /\ value \in Value /\ builder' \in BuilderType
        /\ \A s \in SlotNames \ {slot} : builder'[s] = builder[s]
        /\ slot \notin Chains => builder'[slot] = value
        /\ slot \in Chains => /\ value = Len(builder[slot]) + 1
                              /\ builder'[slot] = Append(builder[slot], value)
    BY <1>2, <1>3, ConfiguredBuilder DEF PolicyInv, BuilderInv
  <1>5. OneMore(requests, requests', slot, value)
    BY <1>2, <1>3, <1>4, AppendIsOneMore DEF BuilderInv
  <1>6. /\ HasLast(requests')
        /\ \A otherwise : LastAsked(slot, requests', otherwise) = value
        /\ \A s \in SlotNames \ {slot} : \A otherwise :
              LastAsked(s, requests', otherwise) = LastAsked(s, requests, otherwise)
    BY <1>3, <1>4, <1>5, LastAfterAppend DEF BuilderInv
  <1>7. PICK n \in Nat : n = Len(requests) /\ Len(requests') = n + 1 /\ n < user.requests
    <2>1. Len(requests) \in Nat
      BY LenProperties DEF BuilderInv, Requests
    <2>2. Len(Append(requests, <<slot, value>>)) = Len(requests) + 1
      BY <1>3, <1>4, AppendProperties DEF BuilderInv, Requests
    <2>3. QED
      BY <1>2, <2>1, <2>2 DEF Configure
  <1>8. \A s \in PolicySlots \cup {"clock"} : builder'[s] = Asked(s)'
    <2>1. CASE slot \in PolicySlots \cup {"clock"}
      BY <1>4, <1>6, <2>1 DEF BuilderInv, Configure, Asked, PolicySlots, SlotNames, Chains
    <2>2. CASE slot \in Chains
      BY <1>4, <1>6, <2>2 DEF BuilderInv, Configure, Asked, PolicySlots, SlotNames, Chains
    <2>3. QED
      BY <1>3, <2>1, <2>2 DEF SlotNames, PolicySlots, Chains
  <1>9. ASSUME NEW s \in Chains
        PROVE  builder'[s] = [k \in 1 .. Cardinality(PlacesOf(s, requests')) |-> k]
    <2>1. CASE s # slot
      BY <1>4, <1>5, <1>9, <2>1 DEF OneMore, BuilderInv, Chains, SlotNames
    <2>2. CASE s = slot
      <3>1. PICK P, Q : /\ P = PlacesOf(s, requests) /\ Q = PlacesOf(s, requests')
                        /\ P \subseteq 1 .. n /\ Q = P \cup {n + 1}
        BY <1>5, <1>7, <2>2 DEF OneMore
      <3>2. PICK c \in Nat : c = Cardinality(P) /\ Cardinality(Q) = c + 1
        BY <3>1, PlacesCounted
      <3>3. builder[s] = [k \in 1 .. c |-> k] /\ Len(builder[s]) = c
        BY <1>9, <3>1, <3>2 DEF BuilderInv
      <3>4. builder'[s] = Append([k \in 1 .. c |-> k], c + 1)
        BY <1>4, <1>9, <2>2, <3>3
      <3>5. QED
        BY <3>1, <3>2, <3>4, OneMoreHook
    <2>3. QED
      BY <2>1, <2>2
  <1>10. requests' \in Requests /\ Len(requests') <= user.requests
    BY <1>5, <1>7, UsersAssumption DEF OneMore, PolicyInv
  <1>11. BuilderInv'
    BY <1>4, <1>6, <1>8, <1>9, <1>10 DEF BuilderInv, Configure
  <1>12. QED
    BY <1>11 DEF PolicyInv, Configure

LEMMA NextLent ==
    ASSUME PolicyInv, BuilderInv, Lend
    PROVE  PolicyInv' /\ BuilderInv'
  <1>1. builder' \in BuilderType
    BY DefaultsInSlots DEF PolicyInv, Lend
  <1>2. \A s \in PolicySlots : builder'[s] = policy[s]
    BY DEF Lend, FromParts, PolicySlots
  <1>3. \A s \in PolicySlots : builder'[s] = Asked(s)'
    BY <1>2, NoRequests DEF Lend, PolicyInv, Asked, PolicySlots
  <1>4. builder'["clock"] = Asked("clock")'
    <2>1. builder'["clock"] = SystemClock
      BY DEF Lend, FromParts
    <2>2. QED
      BY <2>1, NoRequests DEF Lend, PolicyInv, Asked, LastAsked
  <1>5. \A s \in Chains : builder'[s] = [k \in 1 .. Cardinality(PlacesOf(s, requests')) |-> k]
    <2>1. \A s \in Chains : builder'[s] = <<>>
      BY DEF Lend, FromParts, Chains
    <2>2. \A s : Cardinality(PlacesOf(s, requests')) = 0
      BY NoRequests, FS_EmptySet DEF Lend
    <2>3. [k \in 1 .. 0 |-> k] = <<>>
      OBVIOUS
    <2>4. QED
      BY <2>1, <2>2, <2>3
  <1>6. /\ requests' \in Requests /\ HasLast(requests') /\ Len(requests') <= user'.requests
        /\ engine' \in {"sync", "async"}
    BY NoRequests, UsersAssumption DEF Lend, PolicyInv
  <1>7. BuilderInv'
    BY <1>1, <1>3, <1>4, <1>5, <1>6 DEF BuilderInv
  <1>8. QED
    BY <1>7 DEF PolicyInv, Lend

-----------------------------------------------------------------------------
\* Calls and scripts.

Invocation == Places \X Callee

Names(entries) == [k \in DOMAIN entries |-> <<entries[k].at, entries[k].callee>>]

LEMMA MapIsSeq ==
    ASSUME NEW S, NEW n \in Nat, NEW f \in [1 .. n -> S]
    PROVE  f \in Seq(S) /\ Len(f) = n
  OBVIOUS

LEMMA MapAppend ==
    ASSUME NEW S, NEW n \in Nat, NEW f \in [1 .. n -> S], NEW g \in [1 .. n + 1 -> S],
           \A k \in 1 .. n : g[k] = f[k]
    PROVE  g = Append(f, g[n + 1])
  <1>1. f \in Seq(S) /\ Len(f) = n /\ g \in Seq(S) /\ Len(g) = n + 1 /\ g[n + 1] \in S
    BY MapIsSeq
  <1>2. /\ Append(f, g[n + 1]) \in Seq(S)
        /\ Len(Append(f, g[n + 1])) = n + 1
        /\ \A k \in 1 .. n : Append(f, g[n + 1])[k] = f[k]
        /\ Append(f, g[n + 1])[n + 1] = g[n + 1]
    BY <1>1, AppendProperties
  <1>3. \A k \in 1 .. n + 1 : g[k] = Append(f, g[n + 1])[k]
    BY <1>2
  <1>4. QED
    BY <1>1, <1>2, <1>3, SeqEqual

LEMMA MapHead ==
    ASSUME NEW S, NEW n \in Nat, NEW f \in [1 .. n + 1 -> S], NEW g \in [1 .. n -> S],
           \A k \in 1 .. n : g[k] = f[k + 1]
    PROVE  f = <<f[1]>> \o g
  <1>1. f \in Seq(S) /\ Len(f) = n + 1 /\ g \in Seq(S) /\ Len(g) = n /\ f[1] \in S
    BY MapIsSeq
  <1>2. <<f[1]>> \in Seq(S) /\ Len(<<f[1]>>) = 1 /\ <<f[1]>>[1] = f[1]
    BY <1>1
  <1>3. /\ <<f[1]>> \o g \in Seq(S)
        /\ Len(<<f[1]>> \o g) = n + 1
        /\ \A i \in 1 .. n + 1 : (<<f[1]>> \o g)[i] = IF i <= 1 THEN <<f[1]>>[i] ELSE g[i - 1]
    BY <1>1, <1>2, ConcatProperties
  <1>4. ASSUME NEW i \in 1 .. n + 1 PROVE f[i] = (<<f[1]>> \o g)[i]
    <2>1. CASE i = 1
      BY <1>2, <1>3, <2>1
    <2>2. CASE i \in 2 .. n + 1
      <3>1. i - 1 \in 1 .. n /\ i - 1 + 1 = i /\ ~(i <= 1)
        BY <2>2
      <3>2. QED
        BY <1>3, <2>2, <3>1
    <2>3. QED
      BY <2>1, <2>2
  <1>5. QED
    BY <1>1, <1>3, <1>4, SeqEqual

NameOf(entry) == <<entry.at, entry.callee>>

LEMMA NamesAppend ==
    ASSUME NEW t \in Seq(Entry), NEW e \in Entry
    PROVE  /\ Names(t) \in Seq(Invocation) /\ <<e.at, e.callee>> \in Invocation
           /\ Names(Append(t, e)) = Append(Names(t), <<e.at, e.callee>>)
  <1>1. PICK n \in Nat : n = Len(t) /\ DOMAIN t = 1 .. n
    BY LenProperties
  <1>2. \A x \in Entry : NameOf(x) \in Invocation
    BY DEF Entry, Invocation, NameOf
  <1>3. \A k \in 1 .. n : t[k] \in Entry
    BY <1>1, ElementOfSeq
  <1>4. /\ Append(t, e) \in Seq(Entry) /\ DOMAIN Append(t, e) = 1 .. n + 1
        /\ \A k \in 1 .. n : Append(t, e)[k] = t[k]
        /\ Append(t, e)[n + 1] = e
    BY <1>1, AppendProperties, LenProperties
  <1>5. Names(t) = [k \in 1 .. n |-> NameOf(t[k])]
    BY <1>1, Zenon DEF Names, NameOf
  <1>6. Names(Append(t, e)) = [k \in 1 .. n + 1 |-> NameOf(Append(t, e)[k])]
    BY <1>4, Zenon DEF Names, NameOf
  <1>7. Names(t) \in [1 .. n -> Invocation]
    BY <1>2, <1>3, <1>5
  <1>8. \A k \in 1 .. n + 1 : Append(t, e)[k] \in Entry
    BY <1>3, <1>4
  <1>9. Names(Append(t, e)) \in [1 .. n + 1 -> Invocation]
    BY <1>2, <1>6, <1>8
  <1>10. \A k \in 1 .. n : Names(Append(t, e))[k] = Names(t)[k]
    BY <1>4, <1>5, <1>6
  <1>11. Names(Append(t, e))[n + 1] = NameOf(e)
    BY <1>4, <1>6
  <1>12. Names(Append(t, e)) = Append(Names(t), NameOf(e))
    BY <1>7, <1>9, <1>10, <1>11, MapAppend
  <1>13. Names(t) \in Seq(Invocation)
    BY <1>7, MapIsSeq
  <1>14. QED
    BY <1>2, <1>12, <1>13, Zenon DEF NameOf

LEMMA AllParts ==
    ASSUME NEW at \in Places, NEW q \in Seq(Callee)
    PROVE  /\ All(at, q) \in Seq(Invocation) /\ All(at, <<>>) = <<>>
           /\ q # <<>> => All(at, q) = << <<at, Head(q)>> >> \o All(at, Tail(q))
  <1>1. PICK n \in Nat : n = Len(q) /\ DOMAIN q = 1 .. n
    BY LenProperties
  <1>2. \A k \in 1 .. n : <<at, q[k]>> \in Invocation
    <2>1. \A k \in 1 .. n : q[k] \in Callee
      BY <1>1, ElementOfSeq
    <2>2. QED
      BY <2>1 DEF Invocation
  <1>3. All(at, q) = [k \in 1 .. n |-> <<at, q[k]>>]
    BY <1>1 DEF All
  <1>4. All(at, q) \in [1 .. n -> Invocation]
    BY <1>2, <1>3, Zenon
  <1>5. All(at, <<>>) = <<>>
    BY DEF All
  <1>6. ASSUME q # <<>>
        PROVE  All(at, q) = << <<at, Head(q)>> >> \o All(at, Tail(q))
    <2>1. /\ Tail(q) \in Seq(Callee) /\ Len(Tail(q)) = n - 1 /\ n \in Nat \ {0}
          /\ \A i \in 1 .. n - 1 : Tail(q)[i] = q[i + 1]
          /\ Head(q) = q[1]
      BY <1>1, <1>6, HeadTailProperties, EmptySeq
    <2>2. PICK m \in Nat : n = m + 1 /\ m = n - 1
      BY <2>1
    <2>3. All(at, Tail(q)) = [k \in 1 .. m |-> <<at, Tail(q)[k]>>]
      BY <2>1, <2>2, LenProperties DEF All
    <2>4. \A k \in 1 .. m : k + 1 \in 1 .. n /\ All(at, Tail(q))[k] = All(at, q)[k + 1]
      <3>1. \A k \in 1 .. m : k + 1 \in 1 .. n /\ Tail(q)[k] = q[k + 1]
        BY <2>1, <2>2
      <3>2. QED
        BY <1>3, <2>3, <3>1, Zenon
    <2>5. All(at, Tail(q)) \in [1 .. m -> Invocation]
      <3>1. \A k \in 1 .. m : <<at, Tail(q)[k]>> \in Invocation
        BY <1>3, <1>4, <2>3, <2>4
      <3>2. QED
        BY <2>3, <3>1, Zenon
    <2>6. All(at, q)[1] = <<at, Head(q)>>
      <3>1. 1 \in 1 .. n
        BY <2>1
      <3>2. QED
        BY <1>3, <2>1, <3>1, Zenon
    <2>7. All(at, q) = << All(at, q)[1] >> \o All(at, Tail(q))
      <3>1. \A k \in 1 .. m : All(at, Tail(q))[k] = All(at, q)[k + 1]
        BY <2>4
      <3>2. All(at, q) \in [1 .. m + 1 -> Invocation]
        BY <1>4, <2>2
      <3>3. PICK f, g : f = All(at, q) /\ g = All(at, Tail(q))
        OBVIOUS
      <3>4. /\ f \in [1 .. m + 1 -> Invocation] /\ g \in [1 .. m -> Invocation]
            /\ \A k \in 1 .. m : g[k] = f[k + 1]
        BY <2>5, <3>1, <3>2, <3>3, Zenon
      <3>5. f = << f[1] >> \o g
        BY <3>4, MapHead
      <3>6. QED
        BY <3>3, <3>5, Zenon
    <2>8. QED
      BY <2>6, <2>7, Zenon
  <1>7. QED
    BY <1>4, <1>5, <1>6, MapIsSeq

\* The head of the queue moves from the calls to be made to the calls made.
LEMMA OneCall ==
    ASSUME NEW at \in Places, NEW q \in Seq(Callee), q # <<>>, NEW made \in Seq(Invocation)
    PROVE  Append(made, <<at, Head(q)>>) \o All(at, Tail(q)) = made \o All(at, q)
  <1>1. Head(q) \in Callee /\ Tail(q) \in Seq(Callee)
    BY HeadThenTail
  <1>2. <<at, Head(q)>> \in Invocation
    BY <1>1 DEF Invocation
  <1>3. All(at, Tail(q)) \in Seq(Invocation)
    BY <1>1, AllParts
  <1>4. Append(made, <<at, Head(q)>>) \o All(at, Tail(q))
          = made \o (<< <<at, Head(q)>> >> \o All(at, Tail(q)))
    <2>1. PICK e \in Invocation, t \in Seq(Invocation) : e = <<at, Head(q)>> /\ t = All(at, Tail(q))
      BY <1>2, <1>3
    <2>2. Append(made, e) \o t = made \o (<<e>> \o t)
      BY AppendThenConcat
    <2>3. QED
      BY <2>1, <2>2, Zenon
  <1>5. All(at, q) = << <<at, Head(q)>> >> \o All(at, Tail(q))
    BY AllParts
  <1>6. QED
    BY <1>4, <1>5

\* What the builder holds can be called.
LEMMA PartTypes ==
    ASSUME BuilderInv
    PROVE  /\ BeforePart \in Seq(Invocation) /\ OpPart \in Seq(Invocation) /\ AfterPart \in Seq(Invocation)
           /\ TriedPart \in Seq(Invocation) /\ StopPart \in Seq(Invocation) /\ WaitPart \in Seq(Invocation)
           /\ All("exit", builder.exit) \in Seq(Invocation)
           /\ builder.before \in Seq(Callee) /\ builder.after \in Seq(Callee)
           /\ builder.exit \in Seq(Callee)
           /\ builder.stop.parts \in Seq(Callee) /\ builder.wait \in Seq(Callee)
           /\ builder.classifier \in Callee /\ builder.clock \in Callee
           /\ builder.stop.parts # <<>>
           /\ <<"op", "op">> \in Invocation /\ <<"classify", builder.classifier>> \in Invocation
           /\ <<"clock", builder.clock>> \in Invocation
  <1>1. builder.before \in Seq(Callee) /\ builder.after \in Seq(Callee) /\ builder.exit \in Seq(Callee)
    <2>1. builder.before \in Seq(Nat) /\ builder.after \in Seq(Nat) /\ builder.exit \in Seq(Nat)
      BY DEF BuilderInv, BuilderType
    <2>2. Nat \subseteq Callee
      BY DEF Callee
    <2>3. QED
      BY <2>1, <2>2, SeqMonotonic
  <1>2. builder.stop.parts \in Seq(Callee) /\ builder.wait \in Seq(Callee) /\ builder.stop.parts # <<>>
    <2>1. builder.stop \in StopSlot /\ builder.wait \in WaitSlot
      BY DEF BuilderInv, BuilderType
    <2>2. builder.stop.parts \in Seq(STRING) /\ builder.wait \in Seq(STRING) /\ builder.stop.parts # <<>>
      BY <2>1, StrategiesAssumption DEF StopSlot, WaitSlot
    <2>3. STRING \subseteq Callee
      BY DEF Callee
    <2>4. QED
      BY <2>2, <2>3, SeqMonotonic
  <1>3. builder.classifier \in Callee /\ builder.clock \in Callee
    BY DEF BuilderInv, BuilderType, Callee
  <1>4. /\ <<"op", "op">> \in Invocation /\ <<"classify", builder.classifier>> \in Invocation
        /\ <<"clock", builder.clock>> \in Invocation
    <2>1. \A at \in Places, c \in Callee : <<at, c>> \in Invocation
      BY DEF Invocation
    <2>2. "op" \in Places /\ "classify" \in Places /\ "clock" \in Places
      BY DEF Places
    <2>3. "op" \in Callee
      BY DEF Callee
    <2>4. QED
      BY <1>3, <2>1, <2>2, <2>3
  <1>5. /\ << <<"op", "op">> >> \in Seq(Invocation)
        /\ << <<"classify", builder.classifier>> >> \in Seq(Invocation)
    BY <1>4
  <1>6. /\ All("before", builder.before) \in Seq(Invocation) /\ All("after", builder.after) \in Seq(Invocation)
        /\ All("exit", builder.exit) \in Seq(Invocation) /\ All("wait", builder.wait) \in Seq(Invocation)
        /\ All("stop", builder.stop.parts) \in Seq(Invocation)
    <2>1. \A at \in Places, q \in Seq(Callee) : All(at, q) \in Seq(Invocation)
      BY AllParts
    <2>2. /\ "before" \in Places /\ "after" \in Places /\ "exit" \in Places
          /\ "wait" \in Places /\ "stop" \in Places
      BY DEF Places
    <2>3. QED
      BY <1>1, <1>2, <2>1, <2>2, Zenon
  <1>7. BeforePart \in Seq(Invocation) /\ OpPart \in Seq(Invocation)
    BY <1>5, <1>6, ConcatProperties DEF BeforePart, OpPart
  <1>8. AfterPart \in Seq(Invocation) /\ TriedPart \in Seq(Invocation)
    BY <1>5, <1>6, <1>7, ConcatProperties DEF AfterPart, TriedPart
  <1>9. StopPart \in Seq(Invocation) /\ WaitPart \in Seq(Invocation)
    BY <1>6, <1>8, ConcatProperties DEF StopPart, WaitPart
  <1>10. QED
    BY <1>1, <1>2, <1>3, <1>4, <1>6, <1>7, <1>8, <1>9

LEMMA SameParts ==
    ASSUME builder' = builder
    PROVE  /\ BeforePart' = BeforePart /\ OpPart' = OpPart /\ AfterPart' = AfterPart
           /\ TriedPart' = TriedPart /\ StopPart' = StopPart /\ WaitPart' = WaitPart
           /\ LastParts' = LastParts /\ RetryParts' = RetryParts
  BY DEF BeforePart, OpPart, AfterPart, TriedPart, StopPart, WaitPart, LastParts, RetryParts

\* A call is entered at the end of the trace of its attempt.
LEMMA CallMade ==
    ASSUME Shapes, NEW e \in Entry, Calling(e), attempt' = attempt
    PROVE  /\ trace' \in Seq(Seq(Entry)) /\ Len(trace') = attempt
           /\ CallsOf(attempt) \in Seq(Invocation) /\ <<e.at, e.callee>> \in Invocation
           /\ CallsOf(attempt)' = Append(CallsOf(attempt), <<e.at, e.callee>>)
           /\ trace'[attempt] = Append(trace[attempt], e)
           /\ \A a \in 1 .. attempt - 1 : trace'[a] = trace[a]
  <1>1. /\ attempt \in Nat \ {0} /\ trace \in Seq(Seq(Entry)) /\ Len(trace) = attempt
        /\ attempt \in 1 .. Len(trace)
    BY DEF Shapes
  <1>2. trace[attempt] \in Seq(Entry)
    BY <1>1, ElementOfSeq
  <1>3. Append(trace[attempt], e) \in Seq(Entry)
    BY <1>2, AppendProperties
  <1>4. /\ trace' \in Seq(Seq(Entry)) /\ Len(trace') = attempt
        /\ trace'[attempt] = Append(trace[attempt], e)
        /\ \A a \in 1 .. attempt - 1 : trace'[a] = trace[a]
    BY <1>1, <1>3, ExceptSeq DEF Calling
  <1>5. /\ CallsOf(attempt) = Names(trace[attempt])
        /\ CallsOf(attempt)' = Names(Append(trace[attempt], e))
    <2>1. CallsOf(attempt)' = Names(trace'[attempt])
      BY Zenon DEF CallsOf, Names
    <2>2. QED
      BY <1>4, <2>1, Zenon DEF CallsOf, Names
  <1>6. QED
    BY <1>2, <1>4, <1>5, NamesAppend

LEMMA SamePast ==
    ASSUME PastInv, attempt' = attempt, builder' = builder,
           \A a \in 1 .. attempt - 1 : trace'[a] = trace[a]
    PROVE  PastInv'
  <1>1. \A a \in 1 .. attempt - 1 : CallsOf(a)' = CallsOf(a)
    BY DEF CallsOf
  <1>2. QED
    BY <1>1, SameParts DEF PastInv

\* What entries say stays true when the stages advance.
Early == {"policy", "building", "before", "running"}
Late == {"exit", "done", "unwound"}

Advance ==
    /\ stage \in Late => /\ stage' \in Late
                         /\ stage' = "unwound" \/ (stage # "unwound" /\ result' = result)
    /\ stage \notin Early => stage' \notin Early /\ outcome' = outcome

LEMMA SameSight ==
    ASSUME SightInv, Advance, attempt' = attempt, trace' = trace
    PROVE  SightInv'
  BY DEF SightInv, Advance, Early, Late

LEMMA OneSight ==
    ASSUME Shapes, SightInv, Advance, attempt' = attempt, NEW e \in Entry, Calling(e),
           e.at = "exit" => stage' \in Late /\ (stage' # "unwound" => e.sees = result'),
           e.at = "after" => stage' \notin Early /\ e.sees = outcome'
    PROVE  SightInv'
  <1>1. /\ trace'[attempt] = Append(trace[attempt], e)
        /\ \A a \in 1 .. attempt - 1 : trace'[a] = trace[a]
    BY CallMade
  <1>2. attempt \in Nat \ {0} /\ trace[attempt] \in Seq(Entry)
    BY ElementOfSeq DEF Shapes
  <1>3. PICK n \in Nat : n = Len(trace[attempt]) /\ DOMAIN trace[attempt] = 1 .. n
    BY <1>2, LenProperties
  <1>4. /\ DOMAIN trace'[attempt] = 1 .. n + 1 /\ trace'[attempt][n + 1] = e
        /\ \A k \in 1 .. n : trace'[attempt][k] = trace[attempt][k]
    BY <1>1, <1>2, <1>3, AppendProperties, LenProperties
  <1>5. ASSUME NEW a \in 1 .. attempt, NEW k \in DOMAIN trace'[a]
        PROVE  \/ k \in DOMAIN trace[a] /\ trace'[a][k] = trace[a][k]
               \/ a = attempt /\ trace'[a][k] = e
    <2>1. CASE a = attempt
      BY <1>3, <1>4, <1>5, <2>1
    <2>2. CASE a \in 1 .. attempt - 1
      BY <1>1, <1>5, <2>2
    <2>3. QED
      BY <1>2, <2>1, <2>2
  <1>6. QED
    BY <1>5 DEF SightInv, Advance, Early, Late

-----------------------------------------------------------------------------
\* The steps of an execution.

LEMMA KnownSights ==
    ASSUME user \in Users, Shapes
    PROVE  outcome \in Outcomes \cup Ends /\ NoOutcome \in Outcomes \cup Ends
           /\ result \in Outcomes \cup Ends
  BY DEF Shapes, Outcomes

LEMMA HookCalled ==
    ASSUME IInv, CallHook
    PROVE  RunInv'
  <1> DEFINE seen == CASE stage = "before" -> NoOutcome
                       [] stage = "after"  -> outcome
                       [] stage = "exit"   -> result
             e == [at |-> stage, callee |-> Head(queue), sees |-> seen]
  <1>1. /\ stage \in {"before", "after", "exit"} /\ queue # <<>> /\ Calling(e)
        /\ queue' = Tail(queue)
        /\ UNCHANGED <<configVars, stage, attempt, outcome, late, answers, result>>
        /\ builder' = builder /\ user' = user
    BY DEF CallHook, configVars
  <1>2. Head(queue) \in Callee /\ Tail(queue) \in Seq(Callee) /\ queue \in Seq(Callee)
    BY <1>1, HeadThenTail DEF IInv, RunInv, Shapes
  <1>3. e \in Entry /\ e.at = stage /\ e.callee = Head(queue) /\ e.sees = seen
    <2>1. seen \in Outcomes \cup Ends
      BY <1>1, KnownSights DEF IInv, PolicyInv, RunInv
    <2>2. stage \in Places
      BY <1>1 DEF Places
    <2> HIDE DEF seen
    <2>3. QED
      BY <1>2, <2>1, <2>2 DEF Entry
  <1> HIDE DEF e
  <1>4. /\ trace' \in Seq(Seq(Entry)) /\ Len(trace') = attempt
        /\ CallsOf(attempt) \in Seq(Invocation)
        /\ CallsOf(attempt)' = Append(CallsOf(attempt), <<stage, Head(queue)>>)
        /\ \A a \in 1 .. attempt - 1 : trace'[a] = trace[a]
    BY <1>1, <1>3, CallMade DEF IInv, RunInv
  <1>5. Shapes'
    BY <1>1, <1>2, <1>4 DEF IInv, RunInv, Shapes
  <1>6. StopInv'
    BY <1>1 DEF IInv, RunInv, StopInv
  <1>7. VerdictInv'
    BY <1>1 DEF IInv, RunInv, VerdictInv
  <1>8. SightInv'
    <2>1. Advance
      BY <1>1 DEF Advance, Early, Late
    <2>2. stage = "exit" => stage' \in Late /\ (stage' # "unwound" => e.sees = result')
      BY <1>1, <1>3 DEF Late
    <2>3. stage = "after" => stage' \notin Early /\ e.sees = outcome'
      BY <1>1, <1>3 DEF Early
    <2>4. QED
      BY <1>1, <1>3, <2>1, <2>2, <2>3, OneSight DEF IInv, RunInv
  <1>9. CallsOf(attempt)' \o All(stage, queue') = CallsOf(attempt) \o All(stage, queue)
    <2>1. stage \in Places
      BY <1>1 DEF Places
    <2>2. QED
      BY <1>1, <1>2, <1>4, <2>1, OneCall
  <1>10. MadeInv'
    BY <1>1, <1>9, SameParts DEF IInv, RunInv, MadeInv
  <1>11. PastInv'
    BY <1>1, <1>4, SamePast DEF IInv, RunInv
  <1>12. QED
    BY <1>5, <1>6, <1>7, <1>8, <1>10, <1>11 DEF RunInv

LEMMA CallsTyped ==
    ASSUME Shapes
    PROVE  CallsOf(attempt) \in Seq(Invocation)
  <1>1. trace[attempt] \in Seq(Entry) \/ trace[attempt] = <<>>
    BY ElementOfSeq DEF Shapes
  <1>2. ASSUME NEW e \in Entry PROVE Names(trace[attempt]) \in Seq(Invocation)
    BY <1>1, <1>2, NamesAppend, EmptySeq
  <1>3. CallsOf(attempt) = Names(trace[attempt])
    BY Zenon DEF CallsOf, Names
  <1>4. [at |-> "op", callee |-> "op", sees |-> NoOutcome] \in Entry
    BY DEF Entry, Places, Callee, Outcomes
  <1>5. QED
    BY <1>2, <1>3, <1>4

\* Nothing is left to call.
LEMMA NothingLeft ==
    ASSUME NEW made \in Seq(Invocation), NEW at \in Places
    PROVE  made \o All(at, <<>>) = made
  <1>1. All(at, <<>>) = <<>>
    BY DEF All
  <1>2. QED
    BY <1>1, ConcatEmptySeq

LEMMA OpCalled ==
    ASSUME IInv, CallOp
    PROVE  RunInv'
  <1> DEFINE e == [at |-> "op", callee |-> "op", sees |-> NoOutcome]
  <1>1. /\ stage = "before" /\ queue = <<>> /\ Calling(e) /\ stage' = "running"
        /\ UNCHANGED <<configVars, queue, attempt, outcome, late, answers, result>>
        /\ builder' = builder /\ user' = user
    BY DEF CallOp, configVars
  <1>2. e \in Entry /\ e.at = "op" /\ e.callee = "op"
    BY DEF Entry, Places, Callee, Outcomes
  <1> HIDE DEF e
  <1>3. /\ trace' \in Seq(Seq(Entry)) /\ Len(trace') = attempt
        /\ CallsOf(attempt) \in Seq(Invocation) /\ <<"op", "op">> \in Invocation
        /\ CallsOf(attempt)' = Append(CallsOf(attempt), <<"op", "op">>)
        /\ \A a \in 1 .. attempt - 1 : trace'[a] = trace[a]
    BY <1>1, <1>2, CallMade DEF IInv, RunInv
  <1>4. Shapes'
    BY <1>1, <1>3 DEF IInv, RunInv, Shapes, Stages
  <1>5. StopInv'
    BY <1>1 DEF IInv, RunInv, StopInv
  <1>6. VerdictInv'
    BY <1>1 DEF VerdictInv
  <1>7. SightInv'
    <2>1. Advance
      BY <1>1 DEF Advance, Early, Late
    <2>2. QED
      BY <1>1, <1>2, <2>1, OneSight DEF IInv, RunInv
  <1>8. CallsOf(attempt) = BeforePart
    <2>1. CallsOf(attempt) \o All("before", <<>>) = BeforePart
      BY <1>1 DEF IInv, RunInv, MadeInv
    <2>2. "before" \in Places
      BY DEF Places
    <2>3. QED
      BY <1>3, <2>1, <2>2, NothingLeft
  <1>9. CallsOf(attempt)' = OpPart'
    BY <1>1, <1>3, <1>8, SameParts, AppendIsConcat DEF OpPart
  <1>10. MadeInv'
    BY <1>1, <1>9 DEF MadeInv
  <1>11. PastInv'
    BY <1>1, <1>3, SamePast DEF IInv, RunInv
  <1>12. QED
    BY <1>4, <1>5, <1>6, <1>7, <1>10, <1>11 DEF RunInv

LEMMA OpReturned ==
    ASSUME IInv, OpReturns
    PROVE  RunInv'
  <1>1. /\ stage = "running" /\ stage' = "after" /\ queue' = builder.after
        /\ outcome' \in user.outcomes
        /\ UNCHANGED <<configVars, attempt, late, answers, result, trace>>
        /\ builder' = builder /\ user' = user
    BY DEF OpReturns, configVars
  <1>2. CallsOf(attempt)' = CallsOf(attempt)
    BY <1>1 DEF CallsOf
  <1>3. Shapes'
    BY <1>1, PartTypes DEF IInv, RunInv, Shapes, Stages
  <1>4. StopInv'
    BY <1>1 DEF IInv, RunInv, StopInv
  <1>5. VerdictInv'
    BY <1>1 DEF VerdictInv
  <1>6. SightInv'
    <2>1. Advance
      BY <1>1 DEF Advance, Early, Late
    <2>2. QED
      BY <1>1, <2>1, SameSight DEF IInv, RunInv
  <1>7. CallsOf(attempt)' \o All("after", queue') = AfterPart'
    BY <1>1, <1>2, SameParts DEF IInv, RunInv, MadeInv, AfterPart
  <1>8. MadeInv'
    BY <1>1, <1>7 DEF MadeInv
  <1>9. PastInv'
    BY <1>1, SamePast DEF IInv, RunInv
  <1>10. QED
    BY <1>3, <1>4, <1>5, <1>6, <1>8, <1>9 DEF RunInv

LEMMA StopCalled ==
    ASSUME IInv, CallStop
    PROVE  RunInv'
  <1> DEFINE e == [at |-> "stop", callee |-> Head(queue), sees |-> NoOutcome]
  <1>1. /\ stage = "stop" /\ queue # <<>> /\ Calling(e) /\ queue' = Tail(queue)
        /\ UNCHANGED <<configVars, stage, attempt, outcome, late, result>>
        /\ builder' = builder /\ user' = user /\ stage' = "stop"
    BY DEF CallStop, configVars
  <1>2. PICK answer \in BOOLEAN : /\ attempt >= user.attempts => answer
                                  /\ answers' = Append(answers, answer)
    BY DEF CallStop
  <1>3. Head(queue) \in Callee /\ Tail(queue) \in Seq(Callee) /\ queue \in Seq(Callee)
    BY <1>1, HeadThenTail DEF IInv, RunInv, Shapes
  <1>4. e \in Entry /\ e.at = "stop" /\ e.callee = Head(queue)
    BY <1>3 DEF Entry, Places, Outcomes
  <1> HIDE DEF e
  <1>5. /\ trace' \in Seq(Seq(Entry)) /\ Len(trace') = attempt
        /\ CallsOf(attempt) \in Seq(Invocation)
        /\ CallsOf(attempt)' = Append(CallsOf(attempt), <<"stop", Head(queue)>>)
        /\ \A a \in 1 .. attempt - 1 : trace'[a] = trace[a]
    BY <1>1, <1>4, CallMade DEF IInv, RunInv
  <1>6. /\ answers \in Seq(BOOLEAN) /\ answers' \in Seq(BOOLEAN)
        /\ Len(answers') = Len(answers) + 1 /\ Len(answers) \in Nat
        /\ \A k \in 1 .. Len(answers) : answers'[k] = answers[k]
        /\ answers'[Len(answers) + 1] = answer
        /\ DOMAIN answers = 1 .. Len(answers) /\ DOMAIN answers' = 1 .. Len(answers) + 1
    BY <1>2, AppendProperties, LenProperties DEF IInv, RunInv, Shapes
  <1>7. Shapes'
    BY <1>1, <1>3, <1>5, <1>6 DEF IInv, RunInv, Shapes
  <1>8. StopInv'
    <2>1. Len(answers') + Len(queue') = Len(builder.stop.parts)
      <3>1. Len(queue') = Len(queue) - 1 /\ Len(queue) \in Nat
        BY <1>1, <1>3, HeadTailProperties
      <3>2. Len(answers) + Len(queue) = Len(builder.stop.parts)
        BY <1>1 DEF IInv, RunInv, StopInv
      <3>3. Len(answers') = Len(answers) + 1 /\ Len(answers) \in Nat
        BY <1>6, Zenon
      <3>4. QED
        BY <3>1, <3>2, <3>3
    <2>2. ASSUME attempt >= user.attempts, NEW k \in DOMAIN answers' PROVE answers'[k]
      <3>1. k \in 1 .. Len(answers) \/ k = Len(answers) + 1
        BY <1>6
      <3>2. \A l \in 1 .. Len(answers) : answers[l]
        BY <1>1, <1>6, <2>2, Zenon DEF IInv, RunInv, StopInv
      <3>3. answer
        BY <1>2, <2>2, Zenon
      <3>4. QED
        BY <1>6, <3>1, <3>2, <3>3, Zenon
    <2>3. QED
      BY <1>1, <2>1, <2>2 DEF IInv, RunInv, StopInv
  <1>9. VerdictInv'
    BY <1>1 DEF IInv, RunInv, VerdictInv
  <1>10. SightInv'
    <2>1. Advance
      BY <1>1 DEF Advance, Early, Late
    <2>2. QED
      BY <1>1, <1>4, <2>1, OneSight DEF IInv, RunInv
  <1>11. CallsOf(attempt)' \o All("stop", queue') = CallsOf(attempt) \o All("stop", queue)
    <2>1. "stop" \in Places
      BY DEF Places
    <2>2. QED
      BY <1>1, <1>3, <1>5, <2>1, OneCall
  <1>12. MadeInv'
    BY <1>1, <1>11, SameParts DEF IInv, RunInv, MadeInv
  <1>13. PastInv'
    BY <1>1, <1>5, SamePast DEF IInv, RunInv
  <1>14. QED
    BY <1>7, <1>8, <1>9, <1>10, <1>12, <1>13 DEF RunInv

LEMMA WaitCalled ==
    ASSUME IInv, CallWait
    PROVE  RunInv'
  <1> DEFINE e == [at |-> "wait", callee |-> Head(queue), sees |-> NoOutcome]
  <1>1. /\ stage = "wait" /\ queue # <<>> /\ Calling(e) /\ queue' = Tail(queue)
        /\ UNCHANGED <<configVars, stage, attempt, outcome, late, answers, result>>
        /\ builder' = builder /\ user' = user /\ stage' = "wait"
    BY DEF CallWait, configVars
  <1>2. Head(queue) \in Callee /\ Tail(queue) \in Seq(Callee) /\ queue \in Seq(Callee)
    BY <1>1, HeadThenTail DEF IInv, RunInv, Shapes
  <1>3. e \in Entry /\ e.at = "wait" /\ e.callee = Head(queue)
    BY <1>2 DEF Entry, Places, Outcomes
  <1> HIDE DEF e
  <1>4. /\ trace' \in Seq(Seq(Entry)) /\ Len(trace') = attempt
        /\ CallsOf(attempt) \in Seq(Invocation)
        /\ CallsOf(attempt)' = Append(CallsOf(attempt), <<"wait", Head(queue)>>)
        /\ \A a \in 1 .. attempt - 1 : trace'[a] = trace[a]
    BY <1>1, <1>3, CallMade DEF IInv, RunInv
  <1>5. Shapes'
    BY <1>1, <1>2, <1>4 DEF IInv, RunInv, Shapes
  <1>6. StopInv'
    BY <1>1 DEF IInv, RunInv, StopInv
  <1>7. VerdictInv'
    BY <1>1 DEF VerdictInv
  <1>8. SightInv'
    <2>1. Advance
      BY <1>1 DEF Advance, Early, Late
    <2>2. QED
      BY <1>1, <1>3, <2>1, OneSight DEF IInv, RunInv
  <1>9. CallsOf(attempt)' \o All("wait", queue') = CallsOf(attempt) \o All("wait", queue)
    <2>1. "wait" \in Places
      BY DEF Places
    <2>2. QED
      BY <1>1, <1>2, <1>4, <2>1, OneCall
  <1>10. MadeInv'
    BY <1>1, <1>9, SameParts DEF IInv, RunInv, MadeInv
  <1>11. PastInv'
    BY <1>1, <1>4, SamePast DEF IInv, RunInv
  <1>12. QED
    BY <1>5, <1>6, <1>7, <1>8, <1>10, <1>11 DEF RunInv

LEMMA VerdictsEnd ==
    ASSUME NEW c \in Classifier, NEW o \in Outcomes
    PROVE  /\ ResultOk(Decide(c, o).carries) \in Ends
           /\ Aborted(Decide(c, o).carries) \in Ends
           /\ Exhausted(o) \in Ends
  <1> DEFINE Accepted == { ResultOk(Decide(d, p).carries) : d \in Classifier, p \in Outcomes }
             Fatal == { Aborted(Decide(d, p).carries) : d \in Classifier, p \in Outcomes }
             Refused == { Exhausted(p) : p \in Outcomes }
  <1>1. ResultOk(Decide(c, o).carries) \in Accepted /\ Aborted(Decide(c, o).carries) \in Fatal
    OBVIOUS
  <1>2. Exhausted(o) \in Refused
    OBVIOUS
  <1>3. Ends = Accepted \cup Fatal \cup Refused \cup {NoResult}
    BY DEF Ends
  <1> HIDE DEF Accepted, Fatal, Refused
  <1>4. QED
    BY <1>1, <1>2, <1>3

LEMMA ClassifierCalled ==
    ASSUME IInv, CallClassifier
    PROVE  RunInv'
  <1> DEFINE e == [at |-> "classify", callee |-> builder.classifier, sees |-> outcome]
             v == Decide(builder.classifier, outcome)
  <1>1. /\ stage = "after" /\ queue = <<>> /\ Calling(e)
        /\ UNCHANGED <<configVars, attempt, outcome>>
        /\ builder' = builder /\ user' = user
    BY DEF CallClassifier, configVars
  <1>2. \/ v.verdict = "Return" /\ Conclude(ResultOk(v.carries)) /\ UNCHANGED <<late, answers>>
        \/ v.verdict = "Abort" /\ Conclude(Aborted(v.carries)) /\ UNCHANGED <<late, answers>>
        \/ /\ v.verdict = "Retry" /\ stage' = "stop" /\ queue' = builder.stop.parts
           /\ answers' = <<>> /\ late' \in BOOLEAN /\ result' = result
    BY DEF CallClassifier
  <1>3. e \in Entry /\ e.at = "classify" /\ e.callee = builder.classifier
    <2>1. builder.classifier \in Callee /\ outcome \in Outcomes \cup Ends
      BY PartTypes, KnownSights DEF IInv, PolicyInv, RunInv
    <2>2. QED
      BY <2>1 DEF Entry, Places
  <1>4. ResultOk(v.carries) \in Ends /\ Aborted(v.carries) \in Ends
    <2>1. builder.classifier \in Classifier /\ outcome \in Outcomes
      BY DEF IInv, PolicyInv, BuilderInv, BuilderType, RunInv, Shapes, Outcomes
    <2>2. QED
      BY <2>1, VerdictsEnd, Zenon
  <1> HIDE DEF e, v
  <1>5. /\ trace' \in Seq(Seq(Entry)) /\ Len(trace') = attempt
        /\ CallsOf(attempt) \in Seq(Invocation) /\ <<"classify", builder.classifier>> \in Invocation
        /\ CallsOf(attempt)' = Append(CallsOf(attempt), <<"classify", builder.classifier>>)
        /\ \A a \in 1 .. attempt - 1 : trace'[a] = trace[a]
    BY <1>1, <1>3, CallMade DEF IInv, RunInv
  <1>6. /\ stage' \in {"exit", "stop"}
        /\ stage' = "exit" => queue' = builder.exit /\ UNCHANGED <<late, answers>>
        /\ stage' = "stop" => queue' = builder.stop.parts /\ answers' = <<>>
    BY <1>2 DEF Conclude
  <1>7. Shapes'
    <2>1. queue' \in Seq(Callee)
      BY <1>6, PartTypes DEF IInv
    <2>2. answers' \in Seq(BOOLEAN)
      BY <1>6, EmptySeq, Zenon DEF IInv, RunInv, Shapes
    <2>3. late' \in BOOLEAN
      BY <1>2, Zenon DEF IInv, RunInv, Shapes
    <2>4. result' \in Ends
      BY <1>2, <1>4 DEF Conclude, IInv, RunInv, Shapes
    <2>5. stage' \in Stages /\ attempt' \in Nat \ {0} /\ outcome' \in user'.outcomes \cup {NoOutcome}
      BY <1>1, <1>6 DEF IInv, RunInv, Shapes, Stages
    <2>6. QED
      BY <1>1, <1>5, <2>1, <2>2, <2>3, <2>4, <2>5 DEF Shapes
  <1>8. StopInv'
    <2>1. stage' = "stop" => Len(answers') + Len(queue') = Len(builder'.stop.parts)
      BY <1>1, <1>6, PartTypes DEF IInv
    <2>2. stage' = "stop" => \A k \in DOMAIN answers' : answers'[k]
      BY <1>6
    <2>3. QED
      BY <1>1, <1>6, <2>1, <2>2 DEF IInv, RunInv, StopInv
  <1>9. VerdictInv'
    BY <1>1, <1>2 DEF VerdictInv, Conclude, v
  <1>10. SightInv'
    <2>1. Advance
      BY <1>1, <1>6 DEF Advance, Early, Late
    <2>2. QED
      BY <1>1, <1>3, <2>1, OneSight DEF IInv, RunInv
  <1>11. CallsOf(attempt) = AfterPart
    <2>1. CallsOf(attempt) \o All("after", <<>>) = AfterPart
      BY <1>1 DEF IInv, RunInv, MadeInv
    <2>2. "after" \in Places
      BY DEF Places
    <2>3. QED
      BY <1>5, <2>1, <2>2, NothingLeft
  <1>12. CallsOf(attempt)' = TriedPart
    BY <1>5, <1>11, AppendIsConcat DEF TriedPart
  <1>13. MadeInv'
    <2>1. CASE stage' = "exit"
      BY <1>1, <1>6, <1>12, <2>1, SameParts DEF MadeInv, LastParts
    <2>2. CASE stage' = "stop"
      BY <1>1, <1>6, <1>12, <2>2, SameParts DEF MadeInv, StopPart
    <2>3. QED
      BY <1>6, <2>1, <2>2
  <1>14. PastInv'
    BY <1>1, <1>5, SamePast DEF IInv, RunInv
  <1>15. QED
    BY <1>7, <1>8, <1>9, <1>10, <1>13, <1>14 DEF RunInv

\* When the bound has come the answer is to stop.
LEMMA BoundStops ==
    ASSUME user \in Users, BuilderInv, Shapes, StopInv,
           stage = "stop", queue = <<>>, ~ShouldStop
    PROVE  attempt < user.attempts
  <1> SUFFICES ASSUME attempt >= user.attempts PROVE FALSE
    <2>1. user.attempts \in Nat /\ attempt \in Nat
      BY UsersAssumption DEF Shapes
    <2>2. QED
      BY <2>1
  <1>1. Len(answers) = Len(builder.stop.parts)
    <2>1. Len(answers) \in Nat /\ Len(queue) = 0
      BY LenProperties DEF Shapes
    <2>2. QED
      BY <2>1 DEF StopInv
  <1>2. Len(builder.stop.parts) \in Nat \ {0}
    BY PartTypes, EmptySeq, LenProperties
  <1>3. DOMAIN answers = 1 .. Len(answers) /\ 1 \in DOMAIN answers
    BY <1>1, <1>2, LenProperties DEF Shapes
  <1>4. \A k \in DOMAIN answers : answers[k]
    BY Zenon DEF StopInv
  <1>5. builder.stop.how \in {"any", "all"}
    BY StrategiesAssumption DEF BuilderInv, BuilderType, StopSlot
  <1>6. QED
    BY <1>3, <1>4, <1>5, Zenon DEF ShouldStop

LEMMA StopAnswered ==
    ASSUME IInv, StopDecided
    PROVE  RunInv'
  <1>1. /\ stage = "stop" /\ queue = <<>> /\ stage' \in {"exit", "wait"}
        /\ stage' = "exit" => queue' = builder.exit /\ result' = Exhausted(outcome)
        /\ stage' = "wait" => queue' = builder.wait /\ result' = result /\ ~ShouldStop
        /\ UNCHANGED <<configVars, attempt, outcome, late, answers, trace>>
        /\ builder' = builder /\ user' = user
    BY DEF StopDecided, Conclude, configVars
  <1>2. CallsOf(attempt)' = CallsOf(attempt)
    BY <1>1 DEF CallsOf
  <1>3. Shapes'
    <2>1. queue' \in Seq(Callee)
      BY <1>1, PartTypes DEF IInv
    <2>2. result' \in Ends
      <3>1. outcome \in Outcomes /\ builder.classifier \in Classifier
        BY DEF IInv, PolicyInv, BuilderInv, BuilderType, RunInv, Shapes, Outcomes
      <3>2. QED
        BY <1>1, <3>1, VerdictsEnd DEF IInv, RunInv, Shapes
    <2>3. late' \in BOOLEAN
      BY <1>1, Zenon DEF IInv, RunInv, Shapes
    <2>4. QED
      BY <1>1, <2>1, <2>2, <2>3 DEF IInv, RunInv, Shapes, Stages
  <1>4. StopInv'
    <2>1. stage' = "wait" => attempt < user.attempts
      BY <1>1, BoundStops DEF IInv, PolicyInv, RunInv
    <2>2. QED
      BY <1>1, <2>1 DEF IInv, RunInv, StopInv
  <1>5. VerdictInv'
    BY <1>1 DEF IInv, RunInv, VerdictInv
  <1>6. SightInv'
    <2>1. Advance
      BY <1>1 DEF Advance, Early, Late
    <2>2. QED
      BY <1>1, <2>1, SameSight DEF IInv, RunInv
  <1>7. CallsOf(attempt)' = StopPart
    <2>1. CallsOf(attempt) \o All("stop", <<>>) = StopPart
      BY <1>1 DEF IInv, RunInv, MadeInv
    <2>2. "stop" \in Places
      BY DEF Places
    <2>3. QED
      BY <1>2, <2>1, <2>2, CallsTyped, NothingLeft DEF IInv, RunInv
  <1>8. MadeInv'
    <2>1. CASE stage' = "exit"
      BY <1>1, <1>7, <2>1, SameParts DEF MadeInv, LastParts
    <2>2. CASE stage' = "wait"
      BY <1>1, <1>7, <2>2, SameParts DEF MadeInv, WaitPart
    <2>3. QED
      BY <1>1, <2>1, <2>2
  <1>9. PastInv'
    BY <1>1, SamePast DEF IInv, RunInv
  <1>10. QED
    BY <1>3, <1>4, <1>5, <1>6, <1>8, <1>9 DEF RunInv

\* All the parts of the wait strategy have been asked.
LEMMA WaitAnswered ==
    ASSUME IInv, stage = "wait", queue = <<>>
    PROVE  CallsOf(attempt) = WaitPart
  <1>1. CallsOf(attempt) \o All("wait", <<>>) = WaitPart
    BY DEF IInv, RunInv, MadeInv
  <1>2. "wait" \in Places
    BY DEF Places
  <1>3. QED
    BY <1>1, <1>2, CallsTyped, NothingLeft DEF IInv, RunInv

LEMMA ClockCalled ==
    ASSUME IInv, Sleep
    PROVE  RunInv'
  <1> DEFINE e == [at |-> "clock", callee |-> builder.clock, sees |-> NoOutcome]
  <1>1. /\ stage = "wait" /\ queue = <<>> /\ Calling(e) /\ stage' = "resting"
        /\ UNCHANGED <<configVars, queue, attempt, outcome, late, answers, result>>
        /\ builder' = builder /\ user' = user
    BY DEF Sleep, configVars
  <1>2. e \in Entry /\ e.at = "clock" /\ e.callee = builder.clock
    <2>1. builder.clock \in Callee
      BY PartTypes DEF IInv
    <2>2. QED
      BY <2>1 DEF Entry, Places, Outcomes
  <1> HIDE DEF e
  <1>3. /\ trace' \in Seq(Seq(Entry)) /\ Len(trace') = attempt
        /\ CallsOf(attempt) \in Seq(Invocation)
        /\ CallsOf(attempt)' = Append(CallsOf(attempt), <<"clock", builder.clock>>)
        /\ \A a \in 1 .. attempt - 1 : trace'[a] = trace[a]
    BY <1>1, <1>2, CallMade DEF IInv, RunInv
  <1>4. Shapes'
    BY <1>1, <1>3 DEF IInv, RunInv, Shapes, Stages
  <1>5. StopInv'
    BY <1>1 DEF IInv, RunInv, StopInv
  <1>6. VerdictInv'
    BY <1>1 DEF VerdictInv
  <1>7. SightInv'
    <2>1. Advance
      BY <1>1 DEF Advance, Early, Late
    <2>2. QED
      BY <1>1, <1>2, <2>1, OneSight DEF IInv, RunInv
  <1>8. CallsOf(attempt)' \in RetryParts'
    BY <1>1, <1>3, WaitAnswered, SameParts DEF RetryParts
  <1>9. MadeInv'
    BY <1>1, <1>8 DEF MadeInv
  <1>10. PastInv'
    BY <1>1, <1>3, SamePast DEF IInv, RunInv
  <1>11. QED
    BY <1>4, <1>5, <1>6, <1>7, <1>9, <1>10 DEF RunInv

\* Another attempt, after one that was a complete retry.
LEMMA AttemptBegun ==
    ASSUME IInv, stage \in {"wait", "resting"}, CallsOf(attempt) \in RetryParts,
           NextAttempt, UNCHANGED <<configVars, outcome, late, answers, result>>
    PROVE  RunInv'
  <1>1. /\ stage' = "before" /\ queue' = builder.before /\ attempt' = attempt + 1
        /\ trace' = Append(trace, <<>>)
        /\ builder' = builder /\ user' = user /\ attempt \in Nat \ {0} /\ Len(trace) = attempt
    BY DEF NextAttempt, configVars, IInv, RunInv, Shapes
  <1>2. /\ trace' \in Seq(Seq(Entry)) /\ Len(trace') = attempt + 1
        /\ \A a \in 1 .. attempt : trace'[a] = trace[a]
        /\ trace'[attempt + 1] = <<>>
    <2>1. <<>> \in Seq(Entry) /\ trace \in Seq(Seq(Entry))
      BY EmptySeq DEF IInv, RunInv, Shapes
    <2>2. QED
      BY <1>1, <2>1, AppendProperties
  <1>3. Shapes'
    <2>1. queue' \in Seq(Callee)
      BY <1>1, PartTypes DEF IInv
    <2>2. late' \in BOOLEAN
      BY Zenon DEF IInv, RunInv, Shapes
    <2>3. QED
      BY <1>1, <1>2, <2>1, <2>2 DEF IInv, RunInv, Shapes, Stages
  <1>4. StopInv'
    <2>1. user.attempts \in Nat
      BY UsersAssumption DEF IInv, PolicyInv
    <2>2. QED
      BY <1>1, <2>1 DEF IInv, RunInv, StopInv
  <1>5. VerdictInv'
    BY <1>1 DEF VerdictInv
  <1>6. SightInv'
    <2>1. ASSUME NEW a \in 1 .. attempt + 1, NEW k \in DOMAIN trace'[a]
          PROVE  a \in 1 .. attempt /\ k \in DOMAIN trace[a] /\ trace'[a][k] = trace[a][k]
      BY <1>1, <1>2, <2>1
    <2>2. QED
      BY <1>1, <2>1 DEF SightInv, IInv, RunInv
  <1>7. CallsOf(attempt)' = <<>>
    BY <1>1, <1>2 DEF CallsOf
  <1>8. MadeInv'
    <2>1. <<>> \o All("before", builder.before) = BeforePart
      BY PartTypes, ConcatEmptySeq DEF BeforePart, IInv
    <2>2. QED
      BY <1>1, <1>7, <2>1, SameParts DEF MadeInv
  <1>9. PastInv'
    <2>1. \A a \in 1 .. attempt : CallsOf(a)' = CallsOf(a)
      BY <1>2 DEF CallsOf
    <2>2. \A a \in 1 .. attempt : CallsOf(a) \in RetryParts
      BY <1>1 DEF IInv, RunInv, PastInv
    <2>3. QED
      BY <1>1, <2>1, <2>2, SameParts DEF PastInv
  <1>10. QED
    BY <1>3, <1>4, <1>5, <1>6, <1>8, <1>9 DEF RunInv

LEMMA SleepSkipped ==
    ASSUME IInv, SkipSleep
    PROVE  RunInv'
  <1>1. stage = "wait" /\ queue = <<>> /\ UNCHANGED <<configVars, outcome, late, answers, result>>
    BY DEF SkipSleep
  <1>2. CallsOf(attempt) \in RetryParts
    BY <1>1, WaitAnswered DEF RetryParts
  <1>3. CASE NextAttempt
    BY <1>1, <1>2, <1>3, AttemptBegun
  <1>4. CASE stage' = "resting" /\ UNCHANGED <<queue, attempt, trace>>
    <2>1. builder' = builder /\ user' = user
      BY <1>1 DEF configVars
    <2>2. CallsOf(attempt)' = CallsOf(attempt)
      BY <1>4 DEF CallsOf
    <2>3. Shapes'
      <3>1. late' \in BOOLEAN
        BY <1>1, Zenon DEF IInv, RunInv, Shapes
      <3>2. QED
        BY <1>1, <1>4, <2>1, <3>1 DEF IInv, RunInv, Shapes, Stages
    <2>4. StopInv'
      BY <1>1, <1>4, <2>1 DEF IInv, RunInv, StopInv
    <2>5. VerdictInv'
      BY <1>4 DEF VerdictInv
    <2>6. SightInv'
      <3>1. Advance
        BY <1>1, <1>4 DEF Advance, Early, Late
      <3>2. QED
        BY <1>4, <3>1, SameSight DEF IInv, RunInv
    <2>7. MadeInv'
      BY <1>2, <1>4, <2>1, <2>2, SameParts DEF MadeInv
    <2>8. PastInv'
      BY <1>4, <2>1, SamePast DEF IInv, RunInv
    <2>9. QED
      BY <2>3, <2>4, <2>5, <2>6, <2>7, <2>8 DEF RunInv
  <1>5. QED
    BY <1>3, <1>4 DEF SkipSleep

LEMMA RestOver ==
    ASSUME IInv, Rested
    PROVE  RunInv'
  <1>1. stage = "resting" /\ NextAttempt /\ UNCHANGED <<configVars, outcome, late, answers, result>>
    BY DEF Rested
  <1>2. CallsOf(attempt) \in RetryParts
    BY <1>1 DEF IInv, RunInv, MadeInv
  <1>3. QED
    BY <1>1, <1>2, AttemptBegun

LEMMA Called ==
    ASSUME IInv, Call
    PROVE  RunInv'
  <1>1. /\ stage = "building" /\ stage' = "before" /\ queue' = builder.before
        /\ UNCHANGED <<configVars, attempt, outcome, late, answers, result, trace>>
        /\ builder' = builder /\ user' = user
    BY DEF Call, configVars
  <1>2. CallsOf(attempt)' = <<>> /\ attempt = 1
    <2>1. CallsOf(attempt) = <<>> /\ attempt = 1
      BY <1>1 DEF IInv, RunInv, MadeInv, StopInv
    <2>2. QED
      BY <1>1, <2>1 DEF CallsOf
  <1>3. Shapes'
    <2>1. queue' \in Seq(Callee)
      BY <1>1, PartTypes DEF IInv
    <2>2. late' \in BOOLEAN
      BY <1>1, Zenon DEF IInv, RunInv, Shapes
    <2>3. QED
      BY <1>1, <2>1, <2>2 DEF IInv, RunInv, Shapes, Stages
  <1>4. StopInv'
    BY <1>1 DEF IInv, RunInv, StopInv
  <1>5. VerdictInv'
    BY <1>1 DEF VerdictInv
  <1>6. SightInv'
    <2>1. Advance
      BY <1>1 DEF Advance, Early, Late
    <2>2. QED
      BY <1>1, <2>1, SameSight DEF IInv, RunInv
  <1>7. MadeInv'
    <2>1. <<>> \o All("before", builder.before) = BeforePart
      BY PartTypes, ConcatEmptySeq DEF BeforePart, IInv
    <2>2. QED
      BY <1>1, <1>2, <2>1, SameParts DEF MadeInv
  <1>8. PastInv'
    BY <1>1, <1>2 DEF PastInv
  <1>9. QED
    BY <1>3, <1>4, <1>5, <1>6, <1>7, <1>8 DEF RunInv

LEMMA Returned ==
    ASSUME IInv, Return
    PROVE  RunInv'
  <1>1. /\ stage = "exit" /\ queue = <<>> /\ stage' = "done"
        /\ UNCHANGED <<configVars, queue, attempt, outcome, late, answers, result, trace>>
        /\ builder' = builder /\ user' = user
    BY DEF Return, configVars
  <1>2. CallsOf(attempt)' = CallsOf(attempt)
    BY <1>1 DEF CallsOf
  <1>3. Shapes'
    <2>1. late' \in BOOLEAN
      BY <1>1, Zenon DEF IInv, RunInv, Shapes
    <2>2. QED
      BY <1>1, <2>1 DEF IInv, RunInv, Shapes, Stages
  <1>4. StopInv'
    BY <1>1 DEF IInv, RunInv, StopInv
  <1>5. VerdictInv'
    BY <1>1 DEF IInv, RunInv, VerdictInv
  <1>6. SightInv'
    <2>1. Advance
      BY <1>1 DEF Advance, Early, Late
    <2>2. QED
      BY <1>1, <2>1, SameSight DEF IInv, RunInv
  <1>7. CallsOf(attempt) \in LastParts
    <2>1. CallsOf(attempt) \o All("exit", <<>>) \in LastParts
      BY <1>1 DEF IInv, RunInv, MadeInv
    <2>2. "exit" \in Places
      BY DEF Places
    <2>3. QED
      BY <2>1, <2>2, CallsTyped, NothingLeft DEF IInv, RunInv
  <1>8. MadeInv'
    BY <1>1, <1>2, <1>7, SameParts DEF MadeInv
  <1>9. PastInv'
    BY <1>1, SamePast DEF IInv, RunInv
  <1>10. QED
    BY <1>3, <1>4, <1>5, <1>6, <1>8, <1>9 DEF RunInv

-----------------------------------------------------------------------------
\* Whatever the moment, the calls made are the beginning of a script.

Begins(made, script) == \E rest \in Seq(Invocation) : script = made \o rest

LEMMA BeginsFurther ==
    ASSUME NEW made \in Seq(Invocation), NEW more \in Seq(Invocation),
           NEW rest \in Seq(Invocation), Begins(made, more)
    PROVE  Begins(made, more \o rest)
  <1>1. PICK r \in Seq(Invocation) : more = made \o r
    BY DEF Begins
  <1>2. more \o rest = made \o (r \o rest) /\ r \o rest \in Seq(Invocation)
    BY <1>1, ConcatAssociative, ConcatProperties
  <1>3. QED
    BY <1>2 DEF Begins

LEMMA BeginsItself ==
    ASSUME NEW made \in Seq(Invocation), NEW rest \in Seq(Invocation)
    PROVE  Begins(made, made \o rest) /\ Begins(made, made)
  <1>1. <<>> \in Seq(Invocation) /\ made = made \o <<>>
    BY EmptySeq, ConcatEmptySeq
  <1>2. QED
    BY <1>1 DEF Begins

LEMMA BeginsIsPrefix ==
    ASSUME NEW made \in Seq(Invocation), NEW script, Begins(made, script)
    PROVE  IsPrefix(made, script)
  BY PrefixOfConcat DEF Begins

LEMMA InScript ==
    ASSUME IInv, stage \notin {"policy", "building"}
    PROVE  \E script \in LastParts \cup RetryParts : IsPrefix(CallsOf(attempt), script)
  <1> DEFINE made == CallsOf(attempt)
             exits == All("exit", builder.exit)
  <1>1. made \in Seq(Invocation)
    BY CallsTyped DEF IInv, RunInv
  <1>2. /\ BeforePart \in Seq(Invocation) /\ OpPart \in Seq(Invocation)
        /\ AfterPart \in Seq(Invocation) /\ TriedPart \in Seq(Invocation)
        /\ StopPart \in Seq(Invocation) /\ WaitPart \in Seq(Invocation)
        /\ exits \in Seq(Invocation)
    BY PartTypes DEF IInv
  <1>3. \A at \in Places : All(at, queue) \in Seq(Invocation)
    BY AllParts DEF IInv, RunInv, Shapes
  <1>4. << <<"op", "op">> >> \in Seq(Invocation)
        /\ All("after", builder.after) \in Seq(Invocation)
        /\ << <<"classify", builder.classifier>> >> \in Seq(Invocation)
    <2>1. <<"op", "op">> \in Invocation /\ <<"classify", builder.classifier>> \in Invocation
          /\ builder.after \in Seq(Callee) /\ "after" \in Places
      BY PartTypes DEF IInv, Places
    <2>2. All("after", builder.after) \in Seq(Invocation)
      BY <2>1, AllParts
    <2>3. << <<"op", "op">> >> \in Seq(Invocation)
          /\ << <<"classify", builder.classifier>> >> \in Seq(Invocation)
      BY <2>1
    <2>4. QED
      BY <2>2, <2>3
  <1>5. \A script \in Seq(Invocation) : Begins(made, script) => IsPrefix(made, script)
    BY <1>1, BeginsIsPrefix
  <1>6. \A more, rest \in Seq(Invocation) : Begins(made, more) => Begins(made, more \o rest)
    BY <1>1, BeginsFurther
  <1>7. \A rest \in Seq(Invocation) : Begins(made, made \o rest) /\ Begins(made, made)
    BY <1>1, BeginsItself
  <1>8. TriedPart \o exits \in LastParts /\ StopPart \o exits \in LastParts
        /\ TriedPart \o exits \in Seq(Invocation) /\ StopPart \o exits \in Seq(Invocation)
    BY <1>2, ConcatProperties DEF LastParts, exits
  <1> HIDE DEF made, exits
  <1>9. Begins(made, BeforePart) => Begins(made, OpPart)
    BY <1>2, <1>4, <1>6 DEF OpPart
  <1>10. Begins(made, OpPart) => Begins(made, AfterPart)
    BY <1>2, <1>4, <1>6 DEF AfterPart
  <1>11. Begins(made, AfterPart) => Begins(made, TriedPart)
    BY <1>2, <1>4, <1>6 DEF TriedPart
  <1>12. Begins(made, TriedPart) => Begins(made, TriedPart \o exits)
    BY <1>2, <1>6
  <1>13. Begins(made, StopPart) => Begins(made, StopPart \o exits)
    BY <1>2, <1>6
  <1>14. Begins(made, TriedPart) \/ Begins(made, StopPart)
         => \E script \in LastParts \cup RetryParts : IsPrefix(made, script)
    BY <1>5, <1>8, <1>12, <1>13
  <1>15. made = CallsOf(attempt)
    BY DEF made
  <1>16. CASE stage = "before"
    <2>1. BeforePart = made \o All("before", queue) /\ "before" \in Places
      BY <1>15, <1>16 DEF IInv, RunInv, MadeInv, Places
    <2>2. Begins(made, BeforePart)
      BY <1>3, <1>7, <2>1
    <2>3. QED
      BY <1>9, <1>10, <1>11, <1>14, <1>15, <2>2
  <1>17. CASE stage = "running"
    <2>1. made = OpPart
      BY <1>15, <1>17 DEF IInv, RunInv, MadeInv
    <2>2. Begins(made, OpPart)
      BY <1>2, <1>7, <2>1
    <2>3. QED
      BY <1>10, <1>11, <1>14, <1>15, <2>2
  <1>18. CASE stage = "after"
    <2>1. AfterPart = made \o All("after", queue) /\ "after" \in Places
      BY <1>15, <1>18 DEF IInv, RunInv, MadeInv, Places
    <2>2. Begins(made, AfterPart)
      BY <1>3, <1>7, <2>1
    <2>3. QED
      BY <1>11, <1>14, <1>15, <2>2
  <1>19. CASE stage = "stop"
    <2>1. StopPart = made \o All("stop", queue) /\ "stop" \in Places
      BY <1>15, <1>19 DEF IInv, RunInv, MadeInv, Places
    <2>2. Begins(made, StopPart)
      BY <1>3, <1>7, <2>1
    <2>3. QED
      BY <1>14, <1>15, <2>2
  <1>20. CASE stage = "wait"
    <2>1. WaitPart = made \o All("wait", queue) /\ "wait" \in Places
      BY <1>15, <1>20 DEF IInv, RunInv, MadeInv, Places
    <2>2. IsPrefix(made, WaitPart)
      BY <1>2, <1>3, <1>5, <1>7, <2>1
    <2>3. QED
      BY <1>15, <2>2 DEF RetryParts
  <1>21. CASE stage = "exit"
    <2>1. made \o All("exit", queue) \in LastParts /\ "exit" \in Places
      BY <1>15, <1>21 DEF IInv, RunInv, MadeInv, Places
    <2>2. IsPrefix(made, made \o All("exit", queue))
      BY <1>1, <1>3, <2>1, PrefixOfConcat
    <2>3. QED
      BY <1>15, <2>1, <2>2
  <1>22. CASE stage \in {"resting", "done"}
    <2>1. made \in LastParts \cup RetryParts
      BY <1>15, <1>22 DEF IInv, RunInv, MadeInv
    <2>2. IsPrefix(made, made)
      <3>1. made \o <<>> = made /\ <<>> \in Seq(Invocation)
        BY <1>1, ConcatEmptySeq, EmptySeq
      <3>2. QED
        BY <1>1, <3>1, PrefixOfConcat
    <2>3. QED
      BY <1>15, <2>1, <2>2
  <1>23. CASE stage \in {"unwound", "cancelled"}
    BY <1>23 DEF IInv, RunInv, MadeInv
  <1>24. stage \in Stages
    BY DEF IInv, RunInv, Shapes
  <1>25. QED
    BY <1>16, <1>17, <1>18, <1>19, <1>20, <1>21, <1>22, <1>23, <1>24 DEF Stages

\* What has been called stays the beginning of a script.
LEMMA CutShort ==
    ASSUME IInv, stage \notin {"policy", "building"},
           stage' \in {"unwound", "cancelled"}, trace' = trace, attempt' = attempt, builder' = builder
    PROVE  MadeInv' /\ PastInv'
  <1>1. CallsOf(attempt)' = CallsOf(attempt)
    BY DEF CallsOf
  <1>2. MadeInv'
    BY <1>1, InScript, SameParts DEF MadeInv
  <1>3. QED
    BY <1>2, SamePast DEF IInv, RunInv

LEMMA Panicked ==
    ASSUME IInv, Panic
    PROVE  RunInv'
  <1>1. /\ stage \in {"before", "running", "after", "wait", "stop", "exit", "resting"}
        /\ stage' = "unwound" /\ queue' = <<>> /\ result' = NoResult
        /\ UNCHANGED <<configVars, attempt, outcome, late, answers, trace>>
        /\ builder' = builder /\ user' = user
    BY DEF Panic, configVars
  <1>2. Shapes'
    <2>1. late' \in BOOLEAN
      BY <1>1, Zenon DEF IInv, RunInv, Shapes
    <2>2. queue' \in Seq(Callee) /\ result' \in Ends
      BY <1>1, EmptySeq DEF Ends
    <2>3. QED
      BY <1>1, <2>1, <2>2 DEF IInv, RunInv, Shapes, Stages
  <1>3. StopInv'
    BY <1>1 DEF IInv, RunInv, StopInv
  <1>4. VerdictInv'
    BY <1>1 DEF VerdictInv
  <1>5. SightInv'
    <2>1. Advance
      BY <1>1 DEF Advance, Early, Late
    <2>2. QED
      BY <1>1, <2>1, SameSight DEF IInv, RunInv
  <1>6. MadeInv' /\ PastInv'
    BY <1>1, CutShort
  <1>7. QED
    BY <1>2, <1>3, <1>4, <1>5, <1>6 DEF RunInv

LEMMA Cancelled ==
    ASSUME IInv, Cancel
    PROVE  RunInv'
  <1>1. /\ stage \in {"running", "resting"} /\ stage' = "cancelled"
        /\ UNCHANGED <<configVars, queue, attempt, outcome, late, answers, result, trace>>
        /\ builder' = builder /\ user' = user
    BY DEF Cancel, configVars
  <1>2. Shapes'
    <2>1. late' \in BOOLEAN
      BY <1>1, Zenon DEF IInv, RunInv, Shapes
    <2>2. QED
      BY <1>1, <2>1 DEF IInv, RunInv, Shapes, Stages
  <1>3. StopInv'
    BY <1>1 DEF IInv, RunInv, StopInv
  <1>4. VerdictInv'
    BY <1>1 DEF VerdictInv
  <1>5. SightInv'
    <2>1. Advance
      BY <1>1 DEF Advance, Early, Late
    <2>2. QED
      BY <1>1, <2>1, SameSight DEF IInv, RunInv
  <1>6. MadeInv' /\ PastInv'
    BY <1>1, CutShort
  <1>7. QED
    BY <1>2, <1>3, <1>4, <1>5, <1>6 DEF RunInv

\* Before the execution.
LEMMA NotYet ==
    ASSUME IInv, stage \in {"policy", "building"}, stage' = stage, user' = user,
           UNCHANGED <<queue, attempt, outcome, late, answers, result, trace>>
    PROVE  RunInv'
  <1>1. CallsOf(attempt)' = CallsOf(attempt) /\ attempt = 1
    BY DEF CallsOf, IInv, RunInv, StopInv
  <1>2. Shapes'
    <2>1. late' \in BOOLEAN
      BY Zenon DEF IInv, RunInv, Shapes
    <2>2. QED
      BY <2>1 DEF IInv, RunInv, Shapes
  <1>3. StopInv'
    BY DEF IInv, RunInv, StopInv
  <1>4. VerdictInv'
    BY DEF VerdictInv
  <1>5. SightInv'
    <2>1. Advance
      BY DEF Advance, Early, Late
    <2>2. QED
      BY <2>1, SameSight DEF IInv, RunInv
  <1>6. MadeInv'
    BY <1>1 DEF MadeInv, IInv, RunInv
  <1>7. PastInv'
    BY <1>1 DEF PastInv
  <1>8. QED
    BY <1>2, <1>3, <1>4, <1>5, <1>6, <1>7 DEF RunInv

LEMMA LentAgain ==
    ASSUME IInv, Lend
    PROVE  RunInv'
  <1>1. /\ stage' = "building" /\ trace' = << <<>> >> /\ attempt' = 1
        /\ outcome' = NoOutcome /\ result' = NoResult
        /\ UNCHANGED <<user, queue, late, answers>>
    BY DEF Lend
  <1>2. trace' \in Seq(Seq(Entry)) /\ Len(trace') = 1 /\ trace'[1] = <<>>
    BY <1>1, EmptySeq
  <1>3. Shapes'
    <2>1. late' \in BOOLEAN
      BY <1>1, Zenon DEF IInv, RunInv, Shapes
    <2>2. NoResult \in Ends
      BY DEF Ends
    <2>3. QED
      BY <1>1, <1>2, <2>1, <2>2 DEF IInv, RunInv, Shapes, Stages
  <1>4. StopInv'
    <2>1. user.attempts \in Nat \ {0}
      BY UsersAssumption DEF IInv, PolicyInv
    <2>2. QED
      BY <1>1, <2>1 DEF StopInv
  <1>5. VerdictInv'
    BY <1>1 DEF VerdictInv
  <1>6. SightInv'
    BY <1>1, <1>2 DEF SightInv
  <1>7. CallsOf(attempt)' = <<>>
    BY <1>1, <1>2 DEF CallsOf
  <1>8. MadeInv'
    BY <1>1, <1>7 DEF MadeInv
  <1>9. PastInv'
    BY <1>1 DEF PastInv
  <1>10. QED
    BY <1>3, <1>4, <1>5, <1>6, <1>8, <1>9 DEF RunInv

LEMMA NextInv == IInv /\ [Next]_vars => IInv'
  <1> SUFFICES ASSUME IInv, [Next]_vars PROVE IInv'
    OBVIOUS
  <1>1. CASE ConfigurePolicy
    <2>1. RunInv'
      BY <1>1, NotYet DEF ConfigurePolicy
    <2>2. QED
      BY <1>1, <2>1, NextPolicy DEF IInv
  <1>2. CASE Configure
    <2>1. RunInv'
      BY <1>2, NotYet DEF Configure
    <2>2. QED
      BY <1>2, <2>1, NextBuilder DEF IInv
  <1>3. CASE Lend
    BY <1>3, LentAgain, NextLent DEF IInv
  <1>4. ASSUME RunInv', UNCHANGED configVars, stage # "policy", stage' # "policy"
        PROVE  IInv'
    BY <1>4, SameConfig DEF IInv
  <1>5. CASE Call
    BY <1>4, <1>5, Called DEF Call
  <1>6. CASE CallHook
    BY <1>4, <1>6, HookCalled DEF CallHook
  <1>7. CASE CallOp
    BY <1>4, <1>7, OpCalled DEF CallOp
  <1>8. CASE OpReturns
    BY <1>4, <1>8, OpReturned DEF OpReturns
  <1>9. CASE CallClassifier
    <2>1. UNCHANGED configVars /\ stage # "policy" /\ stage' # "policy"
      BY <1>9 DEF CallClassifier, Conclude
    <2>2. QED
      BY <1>4, <1>9, <2>1, ClassifierCalled
  <1>10. CASE CallStop
    BY <1>4, <1>10, StopCalled DEF CallStop
  <1>11. CASE StopDecided
    BY <1>4, <1>11, StopAnswered DEF StopDecided, Conclude
  <1>12. CASE CallWait
    BY <1>4, <1>12, WaitCalled DEF CallWait
  <1>13. CASE Sleep
    BY <1>4, <1>13, ClockCalled DEF Sleep
  <1>14. CASE SkipSleep
    BY <1>4, <1>14, SleepSkipped DEF SkipSleep, NextAttempt
  <1>15. CASE Rested
    BY <1>4, <1>15, RestOver DEF Rested, NextAttempt
  <1>16. CASE Return
    BY <1>4, <1>16, Returned DEF Return
  <1>17. CASE Panic
    BY <1>4, <1>17, Panicked DEF Panic
  <1>18. CASE Cancel
    BY <1>4, <1>18, Cancelled DEF Cancel
  <1>19. CASE UNCHANGED vars
    <2>1. UNCHANGED <<configVars, stage, queue, attempt, outcome, late, answers, result, trace>>
      BY <1>19 DEF vars
    <2>2. UNCHANGED <<user, policy, builder, engine, policyRequests, requests>>
      BY <2>1 DEF configVars
    <2>3. PolicyInv' /\ BuilderInv'
      <3>1. \A slot : Asked(slot)' = Asked(slot)
        BY <2>2 DEF Asked
      <3>2. QED
        BY <2>1, <2>2, <3>1 DEF IInv, PolicyInv, BuilderInv
    <2>4. \A a : CallsOf(a)' = CallsOf(a)
      BY <2>1 DEF CallsOf
    <2>5. Shapes'
      <3>1. late' \in BOOLEAN
        BY <2>1, Zenon DEF IInv, RunInv, Shapes
      <3>2. QED
        BY <2>1, <2>2, <3>1 DEF IInv, RunInv, Shapes
    <2>6. StopInv' /\ VerdictInv' /\ SightInv'
      BY <2>1, <2>2 DEF IInv, RunInv, StopInv, VerdictInv, SightInv
    <2>7. MadeInv' /\ PastInv'
      BY <2>1, <2>2, <2>4, SameParts DEF IInv, RunInv, MadeInv, PastInv
    <2>8. QED
      BY <2>3, <2>5, <2>6, <2>7 DEF IInv, RunInv
  <1>20. QED
    BY <1>1, <1>2, <1>3, <1>5, <1>6, <1>7, <1>8, <1>9, <1>10, <1>11, <1>12, <1>13, <1>14,
       <1>15, <1>16, <1>17, <1>18, <1>19 DEF Next

LEMMA Inductive == Spec => []IInv
  BY InitInv, NextInv, PTL DEF Spec

-----------------------------------------------------------------------------
\* The theorems.

LEMMA HooksCounted ==
    ASSUME IInv, NEW slot \in Chains
    PROVE  builder[slot] \in Seq(Hooks)
  <1>1. PICK n \in Nat : n = Len(requests) /\ n <= user.requests /\ user.requests \in Nat
    BY LenProperties, UsersAssumption DEF IInv, PolicyInv, BuilderInv, Requests
  <1>2. DOMAIN requests = 1 .. n
    BY <1>1, LenProperties DEF IInv, BuilderInv, Requests
  <1>3. PICK P : P = PlacesOf(slot, requests) /\ P \subseteq 1 .. n
    BY <1>2 DEF PlacesOf
  <1>4. PICK c \in Nat : c = Cardinality(P) /\ c <= n
    <2>1. Cardinality(P) \in 0 .. n
      BY <1>3, PlacesCounted, Zenon
    <2>2. QED
      BY <2>1
  <1>5. builder[slot] = [k \in 1 .. c |-> k]
    BY <1>3, <1>4 DEF IInv, BuilderInv
  <1>6. [k \in 1 .. c |-> k] \in [1 .. c -> Hooks]
    BY <1>1, <1>4 DEF Hooks
  <1>7. QED
    BY <1>5, <1>6, MapIsSeq

(***************************************************************************)
(* Type correctness of the slots, the chains and the execution.            *)
(***************************************************************************)
THEOREM TypeCorrect == Spec => []TypeOK
  <1>1. ASSUME IInv PROVE TypeOK
    <2>1. \A slot \in {"before", "after", "exit"} : builder[slot] \in Seq(Hooks)
      BY <1>1, HooksCounted DEF Chains
    <2>2. attempt \in 1 .. user.attempts
      <3>1. user.attempts \in Nat
        BY <1>1, UsersAssumption DEF IInv, PolicyInv
      <3>2. QED
        BY <1>1, <3>1 DEF IInv, RunInv, Shapes, StopInv
    <2>3. /\ user \in Users
          /\ policy.stop \in Stops \cup {DefaultStop}
          /\ policy.wait \in Waits \cup {DefaultWait}
          /\ policy.timeout \in Timeouts \cup {None}
          /\ builder.clock \in Clocks \cup {SystemClock}
          /\ engine \in {"sync", "async"}
      BY <1>1 DEF IInv, PolicyInv, PolicyType, BuilderInv, BuilderType, StopSlot, WaitSlot
    <2>4. late \in BOOLEAN
      BY <1>1, Zenon DEF IInv, RunInv, Shapes
    <2>5. outcome \in user.outcomes \cup {NoOutcome} /\ answers \in Seq(BOOLEAN) /\ stage \in Stages
      BY <1>1, Zenon DEF IInv, RunInv, Shapes
    <2>6. QED
      BY <2>1, <2>2, <2>3, <2>4, <2>5 DEF TypeOK, Stages
  <1>2. QED
    BY <1>1, Inductive, PTL

\* The builder holds what was asked for, so the scripts are those of the user.
LEMMA AsAsked ==
    ASSUME IInv, stage # "policy"
    PROVE  LastScripts = LastParts /\ RetryScripts = RetryParts
  <1>1. \A slot \in Chains : Chain(slot) = All(slot, builder[slot])
    <2>1. ASSUME NEW slot \in Chains, NEW n PROVE All(slot, [k \in 1 .. n |-> k]) = [k \in 1 .. n |-> <<slot, k>>]
      BY DEF All
    <2>2. \A slot \in Chains :
            builder[slot] = [k \in 1 .. Cardinality(PlacesOf(slot, requests)) |-> k]
      BY DEF IInv, BuilderInv
    <2>3. QED
      BY <2>1, <2>2, Zenon DEF Chain
  <1>2. /\ Chain("before") = All("before", builder.before)
        /\ Chain("after") = All("after", builder.after)
        /\ Chain("exit") = All("exit", builder.exit)
    BY <1>1 DEF Chains
  <1>3. /\ Asked("stop") = builder.stop /\ Asked("wait") = builder.wait
        /\ Asked("classifier") = builder.classifier /\ Asked("clock") = builder.clock
    BY DEF IInv, BuilderInv, PolicySlots
  <1>4. Tried = TriedPart
    BY <1>2, <1>3, Zenon DEF Tried, TriedPart, AfterPart, OpPart, BeforePart
  <1>5. StopAsked = StopPart /\ WaitAsked = WaitPart
    BY <1>3, <1>4, Zenon DEF StopAsked, WaitAsked, StopPart, WaitPart
  <1>6. QED
    BY <1>2, <1>3, <1>4, <1>5, Zenon DEF LastScripts, RetryScripts, LastParts, RetryParts

(***************************************************************************)
(* Every execution makes its calls in the one order, of what was asked for *)
(* last, however many hooks and strategies there are and however often the *)
(* policy is used; a panic or a drop only cuts it short.                   *)
(***************************************************************************)
THEOREM CallsKeepTheOrder == Spec => []CallsInOrder
  <1>1. ASSUME IInv PROVE CallsInOrder
    <2> SUFFICES ASSUME Executing
                 PROVE  /\ \A a \in 1 .. attempt - 1 : CallsOf(a) \in RetryScripts
                        /\ \E script \in LastScripts \cup RetryScripts : IsPrefix(CallsOf(attempt), script)
                        /\ stage = "done" => CallsOf(attempt) \in LastScripts
      BY DEF CallsInOrder
    <2>1. stage \notin {"policy", "building"}
      BY DEF Executing
    <2>2. LastScripts = LastParts /\ RetryScripts = RetryParts
      BY <1>1, <2>1, AsAsked
    <2>3. \A a \in 1 .. attempt - 1 : CallsOf(a) \in RetryScripts
      BY <1>1, <2>2 DEF IInv, RunInv, PastInv
    <2>4. \E script \in LastScripts \cup RetryScripts : IsPrefix(CallsOf(attempt), script)
      BY <1>1, <2>1, <2>2, InScript
    <2>5. stage = "done" => CallsOf(attempt) \in LastScripts
      BY <1>1, <2>2 DEF IInv, RunInv, MadeInv
    <2>6. QED
      BY <2>3, <2>4, <2>5
  <1>2. QED
    BY <1>1, Inductive, PTL

\* A completed execution ends as the verdict on its last outcome says.
LEMMA EndOfVerdict ==
    ASSUME IInv, stage = "done", NEW v, v = Decide(Asked("classifier"), outcome)
    PROVE  \/ v.verdict = "Return" /\ result = ResultOk(v.carries)
           \/ v.verdict = "Abort" /\ result = Aborted(v.carries)
           \/ v.verdict = "Retry" /\ result = Exhausted(outcome)
  <1>1. Asked("classifier") = builder.classifier
    BY DEF IInv, BuilderInv, PolicySlots
  <1>2. QED
    BY <1>1 DEF IInv, RunInv, VerdictInv

(***************************************************************************)
(* The caller and the exit hooks learn the end that the verdict of the     *)
(* configured classifier on the last outcome makes.                        *)
(***************************************************************************)
THEOREM EndIsTheVerdict == Spec => []EndIsTheLastVerdict
  <1>1. ASSUME IInv, stage = "done", NEW v, v = Decide(Asked("classifier"), outcome)
        PROVE  /\ v.verdict = "Return" <=> result.result = "Ok"
               /\ v.verdict = "Abort" <=> result.result = "Aborted"
               /\ result.result = "Ok" => result.value = v.carries
               /\ result.result = "Aborted" => LastError(result) = {v.carries}
               /\ result.result = "Exhausted" => LastOutcome(result) = {outcome}
    BY <1>1, EndOfVerdict DEF ResultOk, Aborted, Exhausted, LastError, LastOutcome
  <1>2. ASSUME IInv, stage = "done", NEW a \in 1 .. attempt, NEW k \in DOMAIN trace[a]
        PROVE  /\ trace[a][k].at = "exit" => trace[a][k].sees = result /\ a = attempt
               /\ trace[a][k].at = "after" /\ a = attempt => trace[a][k].sees = outcome
    BY <1>2 DEF IInv, RunInv, SightInv
  <1>3. ASSUME IInv PROVE EndIsTheLastVerdict
    BY <1>1, <1>2, <1>3, Zenon DEF EndIsTheLastVerdict
  <1>4. QED
    BY <1>3, Inductive, PTL

(***************************************************************************)
(* The default, until(ok(..)) and when(ok(..)) end an execution the way    *)
(* the crate documents them, for any matcher and any outcomes.             *)
(***************************************************************************)
THEOREM PredicatesSteerTheEnd == Spec => []PredicatesSteer
  <1>1. ASSUME IInv, stage = "done", NEW c, c = Asked("classifier")
        PROVE  /\ c.by = "default" => result.result # "Aborted"
               /\ c.by = "until" /\ c.predicate.on = "ok" =>
                     /\ result.result # "Aborted"
                     /\ result.result = "Ok" => result.value \in c.predicate.matcher
               /\ c.by = "when" /\ c.predicate.on = "ok" =>
                     /\ outcome.arm = "Err" => result.result = "Aborted"
                     /\ result.result = "Ok" => result.value \notin c.predicate.matcher
    <2>1. PICK v : /\ v = Decide(c, outcome)
                   /\ \/ v.verdict = "Return" /\ result = ResultOk(v.carries)
                      \/ v.verdict = "Abort" /\ result = Aborted(v.carries)
                      \/ v.verdict = "Retry" /\ result = Exhausted(outcome)
      BY <1>1, EndOfVerdict
    <2>2. CASE c.by = "default"
      <3>1. v = Classify(outcome)
        BY <2>1, <2>2 DEF Decide
      <3>2. v.verdict # "Abort"
        BY <3>1 DEF Classify, VerdictReturn, VerdictRetry
      <3>3. QED
        BY <2>1, <2>2, <3>2 DEF ResultOk, Exhausted
    <2>3. CASE c.by = "until" /\ c.predicate.on = "ok"
      <3>1. v = Until(c.predicate, outcome)
        BY <2>1, <2>3 DEF Decide
      <3>2. ShouldRetry(c.predicate, outcome)
              <=> outcome.arm = "Ok" /\ outcome.value \in c.predicate.matcher
        BY <2>3 DEF ShouldRetry
      <3>3. v.verdict # "Abort" /\ (v.verdict = "Return" => v.carries \in c.predicate.matcher)
        BY <3>1, <3>2 DEF Until, Accept, VerdictReturn, VerdictRetry
      <3>4. QED
        BY <2>1, <2>3, <3>3 DEF ResultOk, Exhausted
    <2>4. CASE c.by = "when" /\ c.predicate.on = "ok"
      <3>1. v = When(c.predicate, outcome)
        BY <2>1, <2>4 DEF Decide
      <3>2. ShouldRetry(c.predicate, outcome)
              <=> outcome.arm = "Ok" /\ outcome.value \in c.predicate.matcher
        BY <2>4 DEF ShouldRetry
      <3>3. /\ outcome.arm = "Err" => v.verdict = "Abort"
            /\ v.verdict = "Return" => v.carries \notin c.predicate.matcher
        BY <3>1, <3>2 DEF When, Accept, VerdictReturn, VerdictRetry, VerdictAbort
      <3>4. QED
        BY <2>1, <2>4, <3>3 DEF ResultOk, Aborted, Exhausted
    <2>5. QED
      BY <2>2, <2>3, <2>4
  <1>2. ASSUME IInv PROVE PredicatesSteer
    BY <1>1, <1>2, Zenon DEF PredicatesSteer
  <1>3. QED
    BY <1>2, Inductive, PTL
=============================================================================
