-------------------------- MODULE WorkerPool_proofs --------------------------
(* What holds of the worker pool for every number of tasks, workers, queries *)
(* and changes of the settings.                                              *)
EXTENDS WorkerPool, SequenceTheorems, TLAPS

-----------------------------------------------------------------------------
(* Sequences without duplicates                                              *)

LEMMA TailOfInjective ==
    ASSUME NEW S, NEW s \in Seq(S), s # <<>>, IsInjective(s)
    PROVE  /\ IsInjective(Tail(s))
           /\ Head(s) \in Range(s)
           /\ Range(Tail(s)) = Range(s) \ {Head(s)}
<1>1. Len(s) \in Nat \ {0} /\ DOMAIN s = 1 .. Len(s) /\ Head(s) = s[1]
  BY EmptySeq, LenProperties
<1>2. /\ Tail(s) \in Seq(S) /\ Len(Tail(s)) = Len(s) - 1
      /\ \A i \in 1 .. Len(Tail(s)) : Tail(s)[i] = s[i + 1]
  BY HeadTailProperties
<1>3. DOMAIN Tail(s) = 1 .. Len(s) - 1
  BY <1>2, LenProperties
<1>4. IsInjective(Tail(s))
  BY <1>1, <1>2, <1>3 DEF IsInjective
<1>5. Head(s) \in Range(s)
  BY <1>1 DEF Range
<1>6. ASSUME NEW x \in Range(Tail(s)) PROVE x \in Range(s) \ {Head(s)}
  <2>1. PICK i \in 1 .. Len(s) - 1 : x = Tail(s)[i]
    BY <1>3, <1>6 DEF Range
  <2>2. x = s[i + 1] /\ i + 1 \in DOMAIN s /\ i + 1 # 1
    BY <2>1, <1>1, <1>2
  <2> QED
    BY <2>2, <1>1 DEF Range, IsInjective
<1>7. ASSUME NEW x \in Range(s) \ {Head(s)} PROVE x \in Range(Tail(s))
  <2>1. PICK i \in 1 .. Len(s) : x = s[i]
    BY <1>1, <1>7 DEF Range
  <2>2. i # 1
    BY <2>1, <1>1, <1>7
  <2>3. i - 1 \in 1 .. Len(s) - 1 /\ Tail(s)[i - 1] = s[i]
    BY <2>1, <2>2, <1>1, <1>2
  <2> QED
    BY <2>1, <2>3, <1>3 DEF Range
<1> QED
  BY <1>4, <1>5, <1>6, <1>7

LEMMA ConcatOfInjective ==
    ASSUME NEW S, NEW s \in Seq(S), NEW t \in Seq(S), IsInjective(s), IsInjective(t),
           Range(s) \cap Range(t) = {}
    PROVE  IsInjective(s \o t) /\ Range(s \o t) = Range(s) \cup Range(t)
<1>1. /\ s \o t \in Seq(S) /\ Len(s \o t) = Len(s) + Len(t)
      /\ \A i \in 1 .. Len(s) + Len(t) :
            (s \o t)[i] = IF i <= Len(s) THEN s[i] ELSE t[i - Len(s)]
  BY ConcatProperties
<1>2. /\ Len(s) \in Nat /\ DOMAIN s = 1 .. Len(s)
      /\ Len(t) \in Nat /\ DOMAIN t = 1 .. Len(t)
      /\ DOMAIN (s \o t) = 1 .. Len(s) + Len(t)
  BY <1>1, LenProperties
<1>3. ASSUME NEW i \in DOMAIN (s \o t), NEW j \in DOMAIN (s \o t),
             (s \o t)[i] = (s \o t)[j]
      PROVE  i = j
  <2>1. CASE i <= Len(s) /\ j <= Len(s)
    BY <2>1, <1>1, <1>2, <1>3 DEF IsInjective
  <2>2. CASE i > Len(s) /\ j > Len(s)
    <3>1. i - Len(s) \in DOMAIN t /\ j - Len(s) \in DOMAIN t
      BY <2>2, <1>2
    <3>2. t[i - Len(s)] = t[j - Len(s)]
      BY <2>2, <1>1, <1>2, <1>3
    <3> QED
      BY <3>1, <3>2, <1>2 DEF IsInjective
  <2>3. CASE i <= Len(s) /\ j > Len(s)
    <3>1. (s \o t)[i] \in Range(s) /\ (s \o t)[j] \in Range(t)
      BY <2>3, <1>1, <1>2 DEF Range
    <3> QED
      BY <3>1, <1>3
  <2>4. CASE i > Len(s) /\ j <= Len(s)
    <3>1. (s \o t)[j] \in Range(s) /\ (s \o t)[i] \in Range(t)
      BY <2>4, <1>1, <1>2 DEF Range
    <3> QED
      BY <3>1, <1>3
  <2> QED
    BY <2>1, <2>2, <2>3, <2>4, <1>2
<1>4. IsInjective(s \o t)
  BY <1>3 DEF IsInjective
<1> QED
  BY <1>4, RangeConcatenation

LEMMA AppendToInjective ==
    ASSUME NEW S, NEW s \in Seq(S), NEW e \in S, e \notin Range(s), IsInjective(s)
    PROVE  IsInjective(Append(s, e)) /\ Range(Append(s, e)) = Range(s) \cup {e}
<1> DEFINE single == <<e>>
<1>1. single \in Seq(S) /\ Len(single) = 1 /\ single[1] = e
  OBVIOUS
<1>2. Append(s, e) = s \o single
  BY AppendIsConcat
<1>3. DOMAIN single = {1}
  BY <1>1, LenProperties
<1> HIDE DEF single
<1>4. IsInjective(single)
  BY <1>3 DEF IsInjective
<1>5. Range(single) = {e}
  BY <1>1, <1>3 DEF Range
<1>6. Range(s) \cap Range(single) = {}
  BY <1>5
<1>7. IsInjective(s \o single) /\ Range(s \o single) = Range(s) \cup Range(single)
  BY <1>1, <1>4, <1>6, ConcatOfInjective
<1> QED
  BY <1>2, <1>5, <1>7

(* A replaced element leaves a sequence a sequence; an index it does not   *)
(* have changes nothing.                                                   *)
LEMMA ExceptTyped ==
    ASSUME NEW S, NEW s \in Seq(S), NEW i, NEW e \in S
    PROVE  [s EXCEPT ![i] = e] \in Seq(S)
<1>1. PICK n \in Nat : s \in [1..n -> S]
  BY SeqDef
<1>2. [s EXCEPT ![i] = e] \in [1..n -> S]
  BY <1>1
<1> QED
  BY <1>2, SeqDef

LEMMA HeadTailTyped ==
    ASSUME NEW S, NEW s \in Seq(S), s # <<>>
    PROVE  Head(s) \in S /\ Tail(s) \in Seq(S)
  BY HeadTailProperties

-----------------------------------------------------------------------------
(* The inductive invariant                                                 *)

(* Only workers that were created are alive.                               *)
LiveMade == live \subseteq 1..created

(* A task waits once, and what runs was started.                           *)
PendingOnce == IsInjective(pending)
ActiveStarted == Active \subseteq started

IInv == TypeOK /\ OneOwner /\ LiveMade /\ PendingOnce /\ ActiveStarted

LEMMA NormalTyped ==
    ASSUME NEW c \in Configs
    PROVE  /\ Normal(c) \in Configs
           /\ 1 <= Normal(c).min /\ Normal(c).min <= Normal(c).max
           /\ Normal(c).min <= c.min \/ Normal(c).min = 1
<1> DEFINE max == IF c.max < 1 THEN 1 ELSE c.max
           min == IF c.min > max THEN max ELSE c.min
           least == IF min < 1 THEN 1 ELSE min
<1>1. /\ c = [min |-> c.min, max |-> c.max, waiting |-> c.waiting]
      /\ c.min \in Nat /\ c.max \in Nat /\ c.waiting \in Nat
  BY DEF Configs
<1>2. Normal(c) = [c EXCEPT !.max = max, !.min = least]
  BY DEF Normal
<1>3. /\ max \in Nat /\ least \in Nat /\ 1 <= least /\ least <= max
      /\ least <= c.min \/ least = 1
  BY <1>1
<1> HIDE DEF max, min, least
<1>4. Normal(c) = [min |-> least, max |-> max, waiting |-> c.waiting]
  BY <1>1, <1>2
<1>5. Normal(c) \in Configs /\ Normal(c).min = least /\ Normal(c).max = max
  BY <1>1, <1>3, <1>4 DEF Configs
<1> QED
  BY <1>3, <1>5

LEMMA NewOnesFresh ==
    ASSUME NEW c \in Configs, NEW n \in Nat, NEW made \in Nat
    PROVE  LET more == NewOnes(c, n, made) IN
           /\ more \in Seq(Nat) /\ IsInjective(more)
           /\ Len(more) = IF n < c.min THEN c.min - n ELSE 0
           /\ Range(more) = made + 1 .. made + Len(more)
<1> DEFINE more == NewOnes(c, n, made)
<1> c.min \in Nat
  BY DEF Configs
<1>1. CASE n < c.min
  <2>1. more = [i \in 1..(c.min - n) |-> made + i] /\ c.min - n \in Nat
    BY <1>1 DEF NewOnes
  <2>2. more \in [1..(c.min - n) -> Nat]
    BY <2>1
  <2>3. more \in Seq(Nat)
    BY <2>1, <2>2, SeqDef
  <2>4. DOMAIN more = 1..(c.min - n) /\ \A i \in 1..(c.min - n) : more[i] = made + i
    BY <2>1
  <2>5. Len(more) = c.min - n
    BY <2>1, <2>3, <2>4, LenProperties
  <2> HIDE DEF more
  <2>6. IsInjective(more)
    BY <2>4 DEF IsInjective
  <2>7. ASSUME NEW k \in made + 1 .. made + (c.min - n) PROVE k \in Range(more)
    <3>1. k - made \in 1..(c.min - n) /\ more[k - made] = k
      BY <2>1, <2>4, <2>7
    <3> QED
      BY <3>1, <2>4 DEF Range
  <2>8. ASSUME NEW k \in Range(more) PROVE k \in made + 1 .. made + (c.min - n)
    <3>1. PICK i \in 1..(c.min - n) : k = more[i]
      BY <2>4, <2>8 DEF Range
    <3> QED
      BY <3>1, <2>1, <2>4
  <2> QED
    BY <1>1, <2>3, <2>5, <2>6, <2>7, <2>8 DEF more
<1>2. CASE ~(n < c.min)
  <2>1. more = <<>>
    BY <1>2 DEF NewOnes
  <2>2. more \in Seq(Nat) /\ Len(more) = 0
    BY <2>1
  <2>3. DOMAIN more = {}
    BY <2>2, LenProperties
  <2> HIDE DEF more
  <2> QED
    BY <1>2, <2>2, <2>3 DEF IsInjective, Range, more
<1> QED
  BY <1>1, <1>2

-----------------------------------------------------------------------------
(* Messages                                                                *)

ToWorker == Messages({"code", "rows", "cleanup"})
ToPage == Messages({"sql"} \cup Finals)

LEMMA MessageTyped ==
    ASSUME NEW t \in Tasks, NEW kinds, NEW kind \in kinds, NEW q \in Nat
    PROVE  Message(t, kind, q) \in Messages(kinds)
  BY DEF Message, Messages

LEMMA SentTyped ==
    ASSUME NEW M, NEW box \in [Workers -> Seq(M)], NEW w \in Workers,
           NEW s \in Seq(M), NEW m \in M
    PROVE  /\ [box EXCEPT ![w] = Append(@, m)] \in [Workers -> Seq(M)]
           /\ [box EXCEPT ![w] = @ \o s] \in [Workers -> Seq(M)]
<1>1. Append(box[w], m) \in Seq(M) /\ box[w] \o s \in Seq(M)
  BY AppendProperties, ConcatProperties
<1> QED
  BY <1>1

LEMMA ReceivedTyped ==
    ASSUME NEW M, NEW box \in [Workers -> Seq(M)], NEW w \in Workers, box[w] # <<>>
    PROVE  Head(box[w]) \in M /\ [box EXCEPT ![w] = Tail(@)] \in [Workers -> Seq(M)]
<1>1. Head(box[w]) \in M /\ Tail(box[w]) \in Seq(M)
  BY HeadTailTyped
<1> QED
  BY <1>1

-----------------------------------------------------------------------------
(* The initial states                                                      *)

LEMMA InitIInv == Init => IInv
<1> SUFFICES ASSUME Init PROVE IInv
  OBVIOUS
<1> DEFINE first == NewOnes(config, 0, 0)
<1>1. config \in Configs /\ 1 <= config.min /\ config.min <= config.max
      /\ config.min <= MaxWorkers /\ config.min \in Nat
  <2>1. config = Normal(Defaults) /\ Defaults \in Configs /\ Defaults.min \in Nat
    BY PoolAssumption DEF Init, Configs
  <2>2. config \in Configs /\ config.min \in Nat
    BY <2>1, NormalTyped DEF Configs
  <2> QED
    BY <2>1, <2>2, NormalTyped, PoolAssumption
<1>2. /\ first \in Seq(Nat) /\ IsInjective(first)
      /\ Len(first) = IF 0 < config.min THEN config.min - 0 ELSE 0
      /\ Range(first) = 0 + 1 .. 0 + Len(first)
  BY <1>1, NewOnesFresh
<1>3. Len(first) \in 0..MaxWorkers /\ Range(first) = 1..Len(first)
  BY <1>1, <1>2, PoolAssumption
<1>4. /\ idle = first /\ created = Len(first) /\ live = Range(first)
      /\ worker = [t \in Tasks |-> None] /\ pending = <<>>
  BY DEF Init
<1> HIDE DEF first
<1>5. Range(first) \subseteq Workers
  BY <1>1, <1>3, PoolAssumption DEF Workers
<1>6. first \in Seq(Workers)
  <2>1. DOMAIN first = 1..Len(first) /\ Len(first) \in Nat
    BY <1>2, LenProperties
  <2>2. \A i \in 1..Len(first) : first[i] \in Workers
    BY <1>5, <2>1 DEF Range
  <2>3. first \in [1..Len(first) -> Workers]
    BY <1>2, <2>1, <2>2, SeqDef
  <2> QED
    BY <2>1, <2>3, SeqDef
<1>7. Active = {}
  BY <1>4 DEF Active, Running
<1>8. IsInjective(pending) /\ Range(pending) = {}
  <2>1. DOMAIN pending = {}
    BY <1>4
  <2> QED
    BY <2>1 DEF IsInjective, Range
<1>9. TypeOK
  <2>1. MaxWorkers \in Nat /\ MaxChanges \in Nat
    BY PoolAssumption
  <2> QED
    BY <1>1, <1>3, <1>4, <1>5, <1>6, <2>1 DEF Init, TypeOK, None
<1>10. OneOwner
  BY <1>2, <1>4, <1>7, <1>8 DEF OneOwner
<1>11. LiveMade /\ PendingOnce /\ ActiveStarted
  BY <1>3, <1>4, <1>7, <1>8 DEF LiveMade, PendingOnce, ActiveStarted
<1> QED
  BY <1>9, <1>10, <1>11 DEF IInv

-----------------------------------------------------------------------------
(* Giving workers away                                                     *)

(* What Release changes keeps its type.                                    *)
LEMMA ReleaseTyped ==
    ASSUME IInv, NEW t \in Tasks, Release(t)
    PROVE  /\ idle' \in Seq(Workers)
           /\ worker' \in [Tasks -> {None} \cup Workers]
           /\ refs' \in [Tasks -> Nat]
           /\ pending' \in Seq(Tasks)
           /\ started' \subseteq Tasks
           /\ toWorker' \in [Workers -> Seq(ToWorker)]
<1> USE DEF IInv, TypeOK, ToWorker
<1>1. CASE ~Running(t)
  BY <1>1 DEF Release
<1>2. CASE Running(t) /\ refs[t] > 1
  <2>1. /\ refs' = [refs EXCEPT ![t] = @ - 1]
        /\ UNCHANGED <<worker, pending, started, idle, toWorker>>
    BY <1>2 DEF Release
  <2>2. refs[t] - 1 \in Nat
    BY <1>2
  <2> QED
    BY <2>1, <2>2
<1>3. CASE Running(t) /\ ~(refs[t] > 1)
  <2> DEFINE w == worker[t]
             cleanup == Message(t, "cleanup", None)
  <2>1. w \in Workers /\ cleanup \in ToWorker
    BY <1>3, MessageTyped DEF Running, None
  <2>2. CASE pending = <<>>
    <3>1. /\ idle' = Append(idle, w)
          /\ worker' = [worker EXCEPT ![t] = None]
          /\ refs' = [refs EXCEPT ![t] = 0]
          /\ toWorker' = [toWorker EXCEPT ![w] = Append(@, cleanup)]
          /\ UNCHANGED <<pending, started>>
      BY <1>3, <2>2 DEF Release
    <3> HIDE DEF w, cleanup
    <3>2. idle' \in Seq(Workers)
      BY <2>1, <3>1, AppendProperties
    <3>3. toWorker' \in [Workers -> Seq(ToWorker)]
      BY <2>1, <3>1, SentTyped
    <3> QED
      BY <3>1, <3>2, <3>3
  <2>3. CASE pending # <<>>
    <3> DEFINE u == Head(pending)
               both == <<cleanup, Message(u, "code", None)>>
    <3>1. /\ worker' = [worker EXCEPT ![t] = None, ![u] = w]
          /\ refs' = [refs EXCEPT ![t] = 0, ![u] = 1]
          /\ started' = started \cup {u}
          /\ pending' = Tail(pending)
          /\ toWorker' = [toWorker EXCEPT ![w] = @ \o both]
          /\ UNCHANGED idle
      BY <1>3, <2>3 DEF Release
    <3>2. u \in Tasks /\ Tail(pending) \in Seq(Tasks)
      BY <2>3, HeadTailTyped
    <3>3. Message(u, "code", None) \in ToWorker
      BY <3>2, MessageTyped DEF None
    <3>4. both \in Seq(ToWorker)
      BY <2>1, <3>3
    <3> HIDE DEF w, cleanup, u, both
    <3>5. toWorker' \in [Workers -> Seq(ToWorker)]
      BY <2>1, <3>1, <3>4, SentTyped
    <3> QED
      BY <2>1, <3>1, <3>2, <3>5
  <2> QED
    BY <2>2, <2>3
<1> QED
  BY <1>1, <1>2, <1>3

(* Release hands its worker to one task or makes it idle: still one owner. *)
LEMMA ReleaseOwners ==
    ASSUME IInv, NEW t \in Tasks, Release(t), UNCHANGED <<created, live>>
    PROVE  (OneOwner /\ LiveMade /\ PendingOnce /\ ActiveStarted)'
<1>1. /\ OneOwner /\ PendingOnce /\ ActiveStarted
      /\ idle \in Seq(Workers) /\ pending \in Seq(Tasks)
      /\ worker \in [Tasks -> {None} \cup Workers]
  BY DEF IInv, TypeOK
<1>2. LiveMade'
  BY DEF IInv, LiveMade
<1>3. CASE ~Running(t) \/ refs[t] > 1
  <2>1. UNCHANGED <<worker, idle, pending, started>>
    BY <1>3 DEF Release
  <2>2. Active' = Active
    BY <2>1 DEF Active, Running
  <2> QED
    BY <1>1, <1>2, <2>1, <2>2 DEF OneOwner, PendingOnce, ActiveStarted
<1>4. CASE Running(t) /\ ~(refs[t] > 1)
  <2> DEFINE w == worker[t]
  <2>1. t \in Active /\ w \in Workers /\ w \notin Range(idle) /\ w # None
    BY <1>1, <1>4 DEF Active, Running, None, OneOwner
  <2>2. CASE pending = <<>>
    <3>1. /\ idle' = Append(idle, w) /\ worker' = [worker EXCEPT ![t] = None]
          /\ UNCHANGED <<pending, started>>
      BY <1>4, <2>2 DEF Release
    <3>2. IsInjective(idle') /\ Range(idle') = Range(idle) \cup {w}
      <4> HIDE DEF w
      <4> QED
        BY <1>1, <2>1, <3>1, AppendToInjective DEF OneOwner
    <3>3. /\ Active' = Active \ {t}
          /\ \A u \in Active' : u # t /\ worker'[u] = worker[u]
      BY <1>1, <3>1 DEF Active, Running
    <3>4. \A u \in Active' : worker'[u] # w
      BY <1>1, <2>1, <3>3 DEF OneOwner
    <3>5. live' = Range(idle') \cup {worker'[u] : u \in Active'}
      <4>1. {worker[u] : u \in Active} = {worker'[u] : u \in Active'} \cup {w}
        BY <2>1, <3>3
      <4> QED
        BY <1>1, <3>2, <4>1 DEF OneOwner
    <3>6. OneOwner'
      BY <1>1, <3>1, <3>2, <3>3, <3>4, <3>5 DEF OneOwner
    <3> QED
      BY <1>1, <1>2, <3>1, <3>3, <3>6 DEF PendingOnce, ActiveStarted
  <2>3. CASE pending # <<>>
    <3> DEFINE u == Head(pending)
    <3>1. /\ worker' = [worker EXCEPT ![t] = None, ![u] = w]
          /\ started' = started \cup {u} /\ pending' = Tail(pending)
          /\ UNCHANGED idle
      BY <1>4, <2>3 DEF Release
    <3>2. /\ u \in Tasks /\ IsInjective(pending') /\ u \in Range(pending)
          /\ Range(pending') = Range(pending) \ {u}
      BY <1>1, <2>3, <3>1, HeadTailTyped, TailOfInjective DEF PendingOnce
    <3>3. u # t /\ u \notin Active
      BY <1>1, <2>1, <3>2 DEF OneOwner
    <3> HIDE DEF u
    <3>4. \A v \in Tasks :
             worker'[v] = IF v = u THEN w ELSE IF v = t THEN None ELSE worker[v]
      BY <1>1, <3>1, <3>2, <3>3
    <3>5. Active' = (Active \ {t}) \cup {u}
      BY <2>1, <3>2, <3>3, <3>4 DEF Active, Running
    <3>6. \A v \in Active : v # t => worker[v] # w
      BY <1>1, <2>1 DEF OneOwner
    <3>7. Active \subseteq Tasks
      BY DEF Active
    <3>8. \A v, x \in Active' : worker'[v] = worker'[x] => v = x
      BY <1>1, <2>1, <3>2, <3>3, <3>4, <3>5, <3>6, <3>7 DEF OneOwner
    <3>9. \A v \in Active' : worker'[v] \notin Range(idle')
      BY <1>1, <2>1, <3>1, <3>2, <3>3, <3>4, <3>5, <3>7 DEF OneOwner
    <3>10. {worker'[v] : v \in Active'} = {worker[v] : v \in Active}
      <4>1. \A v \in Active : \E x \in Active' : worker'[x] = worker[v]
        BY <2>1, <3>2, <3>3, <3>4, <3>5, <3>7
      <4>2. \A v \in Active' : \E x \in Active : worker[x] = worker'[v]
        BY <2>1, <3>2, <3>3, <3>4, <3>5, <3>7
      <4> QED
        BY <4>1, <4>2
    <3>11. OneOwner'
      BY <1>1, <3>1, <3>2, <3>5, <3>8, <3>9, <3>10 DEF OneOwner
    <3> QED
      BY <1>1, <1>2, <3>1, <3>2, <3>5, <3>11 DEF PendingOnce, ActiveStarted
  <2> QED
    BY <2>2, <2>3
<1> QED
  BY <1>3, <1>4

(* What only touches messages, references and scripts moves no worker.     *)
Owners == OneOwner /\ LiveMade /\ PendingOnce /\ ActiveStarted

LEMMA NobodyMoves ==
    ASSUME IInv, UNCHANGED <<created, live, idle, worker, pending, started>>
    PROVE  Owners'
<1>1. Active' = Active
  BY DEF Active, Running
<1> QED
  BY <1>1 DEF IInv, Owners, OneOwner, LiveMade, PendingOnce, ActiveStarted

(* A new task gets a worker that nobody has.                               *)
LEMMA AssignOwners ==
    ASSUME IInv, NEW t \in Tasks, NEW w \in Workers, New(t), Assign(t, w),
           \A u \in Active : worker[u] # w, w \notin Range(idle'), IsInjective(idle'),
           Range(idle') \cup {w} = Range(idle) \cup {w}, UNCHANGED pending,
           live' = live \cup {w}, live' \subseteq 1..created'
    PROVE  Owners'
<1>1. /\ OneOwner /\ PendingOnce /\ ActiveStarted
      /\ worker \in [Tasks -> {None} \cup Workers]
  BY DEF IInv, TypeOK
<1>2. t \notin started /\ t \notin Range(pending) /\ t \notin Active
  BY <1>1 DEF New, Known, ActiveStarted
<1>3. w # None
  BY DEF Workers, None
<1>4. /\ started' = started \cup {t}
      /\ \A u \in Tasks : worker'[u] = IF u = t THEN w ELSE worker[u]
  BY <1>1 DEF Assign
<1>5. Active' = Active \cup {t} /\ Active \subseteq Tasks
  BY <1>3, <1>4 DEF Active, Running
<1>6. \A u, v \in Active' : worker'[u] = worker'[v] => u = v
  BY <1>1, <1>2, <1>4, <1>5 DEF OneOwner
<1>7. \A u \in Active' : worker'[u] \notin Range(idle')
  BY <1>1, <1>2, <1>4, <1>5 DEF OneOwner
<1>8. {worker'[u] : u \in Active'} = {worker[u] : u \in Active} \cup {w}
  BY <1>2, <1>4, <1>5
<1>9. live' = Range(idle') \cup {worker'[u] : u \in Active'}
  <2>1. live = Range(idle) \cup {worker[u] : u \in Active}
    BY <1>1 DEF OneOwner
  <2> QED
    BY <2>1, <1>8
<1>10. OneOwner'
  BY <1>1, <1>2, <1>5, <1>6, <1>7, <1>9 DEF OneOwner
<1> QED
  BY <1>1, <1>4, <1>5, <1>10 DEF Owners, LiveMade, PendingOnce, ActiveStarted

LEMMA AssignTyped ==
    ASSUME TypeOK, NEW t \in Tasks, NEW w \in Workers, Assign(t, w)
    PROVE  /\ worker' \in [Tasks -> {None} \cup Workers]
           /\ refs' \in [Tasks -> Nat]
           /\ started' \subseteq Tasks
           /\ toWorker' \in [Workers -> Seq(ToWorker)]
<1>1. Message(t, "code", None) \in ToWorker
  BY MessageTyped DEF ToWorker, None
<1>2. toWorker' \in [Workers -> Seq(ToWorker)]
  BY <1>1, SentTyped DEF TypeOK, Assign, ToWorker
<1> QED
  BY <1>2 DEF TypeOK, Assign

-----------------------------------------------------------------------------
(* The steps of the pool                                                   *)

LEMMA SettingsStep == ASSUME IInv, SettingsChanged PROVE IInv'
<1>1. PICK c \in Choices :
        /\ config' = Normal(c)
        /\ LET more == NewOnes(config', Len(idle), created) IN
             /\ created + Len(more) <= MaxWorkers
             /\ idle' = idle \o more
             /\ created' = created + Len(more)
             /\ live' = live \cup Range(more)
  BY DEF SettingsChanged
<1> DEFINE more == NewOnes(config', Len(idle), created)
<1>2. /\ changes < MaxChanges /\ changes' = changes + 1
      /\ UNCHANGED <<worker, refs, pending, refused, started, toWorker, toPage,
                     scriptVars, query>>
  BY DEF SettingsChanged
<1>3. c \in Configs /\ MaxWorkers \in Nat /\ MaxChanges \in Nat
  BY PoolAssumption
<1>4. config' \in Configs /\ 1 <= config'.min /\ config'.min <= config'.max
  BY <1>1, <1>3, NormalTyped
<1>5. idle \in Seq(Workers) /\ created \in 0..MaxWorkers /\ Len(idle) \in Nat
  BY LenProperties DEF IInv, TypeOK
<1>6. /\ more \in Seq(Nat) /\ IsInjective(more) /\ Len(more) \in Nat
      /\ Range(more) = created + 1 .. created + Len(more)
  <2>1. created \in Nat
    BY <1>5
  <2> QED
    BY <2>1, <1>4, <1>5, NewOnesFresh, LenProperties
<1>7. /\ created + Len(more) <= MaxWorkers /\ idle' = idle \o more
      /\ created' = created + Len(more) /\ live' = live \cup Range(more)
  BY <1>1
<1> HIDE DEF more
<1>8. Range(more) \subseteq Workers
  BY <1>3, <1>5, <1>6, <1>7 DEF Workers
<1>9. more \in Seq(Workers)
  <2>1. DOMAIN more = 1..Len(more)
    BY <1>6, LenProperties
  <2>2. \A i \in 1..Len(more) : more[i] \in Workers
    BY <1>8, <2>1 DEF Range
  <2>3. more \in [1..Len(more) -> Workers]
    BY <1>6, <2>1, <2>2, SeqDef
  <2> QED
    BY <1>6, <2>3, SeqDef
<1>10. OneOwner /\ LiveMade /\ PendingOnce /\ ActiveStarted
  BY DEF IInv
<1>11. Range(more) \cap live = {}
  <2>1. live \subseteq 1..created
    BY <1>10 DEF LiveMade
  <2> QED
    BY <2>1, <1>5, <1>6
<1>12. IsInjective(idle') /\ Range(idle') = Range(idle) \cup Range(more)
  <2>1. /\ Range(idle) \cap Range(more) = {}
        /\ IsInjective(idle) /\ IsInjective(more)
        /\ idle \in Seq(Workers)
    BY <1>5, <1>6, <1>10, <1>11 DEF OneOwner
  <2>2. /\ IsInjective(idle \o more)
        /\ Range(idle \o more) = Range(idle) \cup Range(more)
    BY <2>1, <1>9, ConcatOfInjective
  <2> QED
    BY <2>2, <1>7
<1>13. idle' \in Seq(Workers)
  BY <1>5, <1>7, <1>9, ConcatProperties
<1>14. TypeOK'
  <2>1. created' \in 0..MaxWorkers /\ created <= created'
    BY <1>3, <1>5, <1>6, <1>7
  <2>2. changes' \in 0..MaxChanges
    BY <1>2, <1>3 DEF IInv, TypeOK
  <2>3. live' \subseteq Workers
    BY <1>7, <1>8 DEF IInv, TypeOK
  <2> QED
    BY <2>1, <2>2, <2>3, <1>2, <1>4, <1>13 DEF IInv, TypeOK, scriptVars
<1>15. Active' = Active
  BY <1>2 DEF Active, Running
<1>16. OneOwner'
  <2>1. \A t \in Active : worker[t] \in live
    BY <1>10 DEF OneOwner
  <2> QED
    BY <2>1, <1>2, <1>7, <1>10, <1>11, <1>12, <1>15 DEF OneOwner
<1>17. LiveMade'
  <2>1. \A k \in Range(more) : k \in 1..created'
    BY <1>5, <1>6, <1>7
  <2>2. \A k \in 1..created : k \in 1..created'
    BY <1>5, <1>6, <1>7
  <2> QED
    BY <2>1, <2>2, <1>7, <1>10 DEF LiveMade
<1> QED
  BY <1>2, <1>10, <1>14, <1>15, <1>16, <1>17 DEF IInv, PendingOnce, ActiveStarted

LEMMA RemoveStep == ASSUME IInv, RemoveIdle PROVE IInv'
<1> DEFINE w == Head(idle)
<1>1. /\ Len(idle) > config.min /\ idle' = Tail(idle) /\ live' = live \ {w}
      /\ toWorker' = [toWorker EXCEPT ![w] = <<>>]
      /\ UNCHANGED <<config, changes, created, worker, refs, pending, refused, started,
                     toPage, scriptVars, query>>
  BY DEF RemoveIdle
<1>2. idle \in Seq(Workers) /\ OneOwner /\ LiveMade /\ PendingOnce /\ ActiveStarted
  BY DEF IInv, TypeOK
<1>3. idle # <<>>
  <2>1. config.min \in Nat
    BY DEF IInv, TypeOK, Configs
  <2> QED
    BY <1>1, <1>2, <2>1, EmptySeq
<1>4. /\ w \in Workers /\ idle' \in Seq(Workers)
      /\ IsInjective(idle') /\ w \in Range(idle) /\ Range(idle') = Range(idle) \ {w}
  BY <1>1, <1>2, <1>3, HeadTailTyped, TailOfInjective DEF OneOwner
<1> HIDE DEF w
<1>5. toWorker' \in [Workers -> Seq(ToWorker)]
  <2>1. toWorker \in [Workers -> Seq(ToWorker)] /\ <<>> \in Seq(ToWorker)
    BY DEF IInv, TypeOK, ToWorker
  <2> QED
    BY <1>1, <2>1
<1>6. TypeOK'
  BY <1>1, <1>4, <1>5 DEF IInv, TypeOK, ToWorker, scriptVars
<1>7. Active' = Active
  BY <1>1 DEF Active, Running
<1>8. OneOwner'
  BY <1>1, <1>2, <1>4, <1>7 DEF OneOwner
<1> QED
  BY <1>1, <1>2, <1>6, <1>7, <1>8 DEF IInv, LiveMade, PendingOnce, ActiveStarted

LEMMA RunOnIdleStep == ASSUME IInv, NEW t \in Tasks, RunOnIdle(t) PROVE IInv'
<1> DEFINE w == Head(idle)
<1>1. /\ New(t) /\ idle # <<>> /\ Assign(t, w) /\ idle' = Tail(idle)
      /\ UNCHANGED <<config, changes, created, live, pending, refused, toPage, scriptVars,
                     query>>
  BY DEF RunOnIdle
<1>2. idle \in Seq(Workers) /\ OneOwner /\ LiveMade
  BY DEF IInv, TypeOK
<1>3. /\ w \in Workers /\ idle' \in Seq(Workers)
      /\ IsInjective(idle') /\ w \in Range(idle) /\ Range(idle') = Range(idle) \ {w}
  BY <1>1, <1>2, HeadTailTyped, TailOfInjective DEF OneOwner
<1> HIDE DEF w
<1>4. TypeOK'
  BY <1>1, <1>3, AssignTyped DEF IInv, TypeOK, ToWorker, scriptVars
<1>5. /\ \A u \in Active : worker[u] # w
      /\ w \in live
      /\ live' \subseteq 1..created'
  BY <1>1, <1>2, <1>3 DEF OneOwner, LiveMade
<1>6. Owners'
  BY <1>1, <1>3, <1>5, AssignOwners
<1> QED
  BY <1>4, <1>6 DEF IInv, Owners

LEMMA RunOnNewStep == ASSUME IInv, NEW t \in Tasks, RunOnNew(t) PROVE IInv'
<1> DEFINE w == created'
<1>1. /\ New(t) /\ idle = <<>> /\ created < MaxWorkers
      /\ created' = created + 1 /\ live' = live \cup {w} /\ Assign(t, w)
      /\ UNCHANGED <<config, changes, idle, pending, refused, toPage, scriptVars, query>>
  BY DEF RunOnNew
<1>2. created \in 0..MaxWorkers /\ MaxWorkers \in Nat /\ OneOwner /\ LiveMade
  BY PoolAssumption DEF IInv, TypeOK
<1>3. /\ created' \in 0..MaxWorkers /\ w \in Workers
      /\ w \notin 1..created /\ live' \subseteq 1..created'
  BY <1>1, <1>2 DEF Workers, LiveMade
<1> HIDE DEF w
<1>4. TypeOK'
  BY <1>1, <1>3, AssignTyped DEF IInv, TypeOK, ToWorker, scriptVars
<1>5. /\ \A u \in Active : worker[u] # w
      /\ w \notin Range(idle)
      /\ IsInjective(idle)
  BY <1>2, <1>3 DEF OneOwner, LiveMade
<1>6. Owners'
  BY <1>1, <1>3, <1>5, AssignOwners
<1> QED
  BY <1>4, <1>6 DEF IInv, Owners

LEMMA RunLaterStep == ASSUME IInv, NEW t \in Tasks, RunLater(t) PROVE IInv'
<1>1. /\ New(t)
      /\ \/ refused' = refused \cup {t} /\ pending' = pending
         \/ pending' = Append(pending, t) /\ refused' = refused
      /\ UNCHANGED <<config, changes, created, live, idle, worker, refs, started, toWorker,
                     toPage, scriptVars, query>>
  BY DEF RunLater
<1>2. pending \in Seq(Tasks) /\ OneOwner /\ LiveMade /\ PendingOnce /\ ActiveStarted
  BY DEF IInv, TypeOK
<1>3. t \notin Range(pending) /\ t \notin Active
  BY <1>1, <1>2 DEF New, Known, ActiveStarted
<1>4. /\ pending' \in Seq(Tasks) /\ refused' \subseteq Tasks /\ IsInjective(pending')
      /\ Range(pending') \subseteq Range(pending) \cup {t}
  <2>1. CASE pending' = pending
    BY <1>1, <1>2, <2>1 DEF IInv, TypeOK, PendingOnce
  <2>2. CASE pending' = Append(pending, t) /\ refused' = refused
    BY <1>2, <1>3, <2>2, AppendToInjective, AppendProperties
    DEF IInv, TypeOK, PendingOnce
  <2> QED
    BY <1>1, <2>1, <2>2
<1>5. TypeOK'
  BY <1>1, <1>4 DEF IInv, TypeOK, scriptVars
<1>6. Active' = Active
  BY <1>1 DEF Active, Running
<1>7. OneOwner'
  BY <1>1, <1>2, <1>3, <1>4, <1>6 DEF OneOwner
<1> QED
  BY <1>1, <1>2, <1>4, <1>5, <1>6, <1>7 DEF IInv, LiveMade, PendingOnce, ActiveStarted

-----------------------------------------------------------------------------
(* The steps of the page                                                   *)

QueryStates == {"posted", "floated", "running", "answered", "failed"}

(* A query that reaches another state leaves the queries well formed.      *)
LEMMA QueryTyped ==
    ASSUME TypeOK, NEW t \in Tasks, NEW q, NEW state \in QueryStates
    PROVE  [query EXCEPT ![t][q] = state] \in [Tasks -> Seq(QueryStates)]
<1>1. query \in [Tasks -> Seq(QueryStates)]
  BY DEF TypeOK, QueryStates
<1>2. [query[t] EXCEPT ![q] = state] \in Seq(QueryStates)
  BY <1>1, ExceptTyped
<1>3. [query EXCEPT ![t][q] = state] = [query EXCEPT ![t] = [query[t] EXCEPT ![q] = state]]
  BY <1>1
<1> QED
  BY <1>1, <1>2, <1>3

LEMMA OnQueryStep == ASSUME IInv, NEW w \in Workers, OnQuery(w) PROVE IInv'
<1> DEFINE m == Head(toPage[w])
<1>1. /\ toPage[w] # <<>> /\ toPage' = [toPage EXCEPT ![w] = Tail(@)]
      /\ \/ /\ refs' = [refs EXCEPT ![m.task] = @ + 1]
            /\ query' = [query EXCEPT ![m.task][m.query] = "running"]
         \/ UNCHANGED <<refs, query>>
      /\ UNCHANGED <<config, changes, created, live, idle, worker, pending, refused,
                     started, toWorker, scriptVars>>
  BY DEF OnQuery
<1>2. m \in ToPage /\ toPage' \in [Workers -> Seq(ToPage)]
  BY <1>1, ReceivedTyped DEF IInv, TypeOK, ToPage
<1>3. m.task \in Tasks
  BY <1>2 DEF ToPage, Messages
<1> HIDE DEF m
<1>4. query' \in [Tasks -> Seq(QueryStates)]
  <2>1. TypeOK /\ query \in [Tasks -> Seq(QueryStates)] /\ "running" \in QueryStates
    BY DEF IInv, TypeOK, QueryStates
  <2>2. [query EXCEPT ![m.task][m.query] = "running"] \in [Tasks -> Seq(QueryStates)]
    BY <1>3, <2>1, QueryTyped
  <2> QED
    BY <1>1, <2>1, <2>2
<1>5. refs' \in [Tasks -> Nat]
  <2>1. refs \in [Tasks -> Nat] /\ refs[m.task] + 1 \in Nat
    BY <1>3 DEF IInv, TypeOK
  <2> QED
    BY <1>1, <2>1
<1>6. TypeOK'
  BY <1>1, <1>2, <1>4, <1>5 DEF IInv, TypeOK, ToPage, QueryStates, scriptVars
<1>7. Owners'
  BY <1>1, NobodyMoves
<1> QED
  BY <1>6, <1>7 DEF IInv, Owners

LEMMA OnFinalStep == ASSUME IInv, NEW w \in Workers, OnFinal(w) PROVE IInv'
<1> DEFINE m == Head(toPage[w])
<1>1. /\ toPage[w] # <<>> /\ toPage' = [toPage EXCEPT ![w] = Tail(@)]
      /\ Release(m.task)
      /\ UNCHANGED <<config, changes, created, live, refused, scriptVars, query>>
  BY DEF OnFinal
<1>2. m \in ToPage /\ toPage' \in [Workers -> Seq(ToPage)]
  BY <1>1, ReceivedTyped DEF IInv, TypeOK, ToPage
<1>3. m.task \in Tasks
  BY <1>2 DEF ToPage, Messages
<1> HIDE DEF m
<1>4. TypeOK'
  BY <1>1, <1>2, <1>3, ReleaseTyped DEF IInv, TypeOK, ToPage, ToWorker, scriptVars
<1>5. (OneOwner /\ LiveMade /\ PendingOnce /\ ActiveStarted)'
  BY <1>1, <1>3, ReleaseOwners
<1> QED
  BY <1>4, <1>5 DEF IInv

LEMMA AnswerStep ==
    ASSUME IInv, NEW t \in Tasks, NEW q \in 1..Used(t), Answer(t, q) PROVE IInv'
<1>1. /\ query' = [query EXCEPT ![t][q] = "answered"]
      /\ toWorker' = IF Running(t)
                     THEN [toWorker EXCEPT ![worker[t]] = Append(@, Message(t, "rows", q))]
                     ELSE toWorker
      /\ UNCHANGED <<poolVars, toPage, scriptVars>>
  BY DEF Answer
<1>2. query' \in [Tasks -> Seq(QueryStates)]
  BY <1>1, QueryTyped DEF IInv, QueryStates
<1>3. q \in Nat
  OBVIOUS
<1>4. toWorker' \in [Workers -> Seq(ToWorker)]
  <2>1. Message(t, "rows", q) \in ToWorker
    BY <1>3, MessageTyped DEF ToWorker
  <2>2. CASE Running(t)
    <3>1. worker[t] \in Workers
      BY <2>2 DEF IInv, TypeOK, Running
    <3> QED
      BY <1>1, <2>1, <2>2, <3>1, SentTyped DEF IInv, TypeOK, ToWorker
  <2> QED
    BY <1>1, <2>2 DEF IInv, TypeOK, ToWorker
<1>5. TypeOK'
  BY <1>1, <1>2, <1>4 DEF IInv, TypeOK, ToWorker, QueryStates, poolVars, scriptVars
<1>6. Owners'
  BY <1>1, NobodyMoves DEF poolVars
<1> QED
  BY <1>5, <1>6 DEF IInv, Owners

LEMMA FailQueryStep ==
    ASSUME IInv, NEW t \in Tasks, NEW q, FailQuery(t, q) PROVE IInv'
<1>1. /\ query' = [query EXCEPT ![t][q] = "failed"] /\ Release(t)
      /\ UNCHANGED <<config, changes, created, live, refused, toPage, scriptVars>>
  BY DEF FailQuery
<1>2. query' \in [Tasks -> Seq(QueryStates)]
  BY <1>1, QueryTyped DEF IInv, QueryStates
<1>3. TypeOK'
  BY <1>1, <1>2, ReleaseTyped DEF IInv, TypeOK, ToWorker, QueryStates, scriptVars
<1>4. (OneOwner /\ LiveMade /\ PendingOnce /\ ActiveStarted)'
  BY <1>1, ReleaseOwners
<1> QED
  BY <1>3, <1>4 DEF IInv

-----------------------------------------------------------------------------
(* The steps of a worker                                                   *)

ScriptTyped ==
    /\ script \in [Tasks -> {"none", "waits", "ended", "lost"}]
    /\ waits \in [Tasks -> SUBSET Nat]
    /\ slot \in [Tasks -> Nat]
    /\ query \in [Tasks -> Seq(QueryStates)]
    /\ overlapped \subseteq Tasks /\ nested \subseteq Tasks
    /\ toPage \in [Workers -> Seq(ToPage)]

LEMMA FreeIsNat == Free \subseteq Nat
<1>1. \A k : 0..k \subseteq Nat
  OBVIOUS
<1> QED
  BY <1>1 DEF Free

(* The messages and the queries of a script that runs on.                  *)
LEMMA PostTyped ==
    ASSUME TypeOK, NEW t \in Tasks, NEW n \in Nat, NEW how \in {"posted", "floated"}
    PROVE  /\ Used(t) \in Nat
           /\ Sqls(t, n) \in Seq(ToPage)
           /\ Post(t, n, how) => query' \in [Tasks -> Seq(QueryStates)]
<1>1. query \in [Tasks -> Seq(QueryStates)] /\ query[t] \in Seq(QueryStates)
  BY DEF TypeOK, QueryStates
<1>2. Used(t) \in Nat
  BY <1>1, LenProperties DEF Used
<1>3. ASSUME NEW i \in 1..n PROVE Message(t, "sql", Used(t) + i) \in ToPage
  <2>1. Used(t) + i \in Nat /\ "sql" \in {"sql"} \cup Finals
    BY <1>2
  <2> QED
    BY <2>1, MessageTyped DEF ToPage
<1>4. Sqls(t, n) \in [1..n -> ToPage]
  BY <1>3 DEF Sqls
<1>5. Sqls(t, n) \in Seq(ToPage)
  BY <1>4, SeqDef
<1> DEFINE more == [i \in 1..n |-> how]
<1>6. more \in [1..n -> QueryStates]
  BY DEF QueryStates
<1>7. more \in Seq(QueryStates)
  BY <1>6, SeqDef
<1> HIDE DEF more
<1>8. query[t] \o more \in Seq(QueryStates)
  BY <1>1, <1>7, ConcatProperties
<1>9. Post(t, n, how) => query' \in [Tasks -> Seq(QueryStates)]
  BY <1>1, <1>8 DEF Post, more
<1> QED
  BY <1>2, <1>5, <1>9

(* What a turn of a script does to its messages, queries and callbacks.    *)
LEMMA TurnTyped ==
    ASSUME TypeOK, NEW t \in Tasks, NEW w \in Workers, NEW n \in Nat, NEW k \in Nat,
           NEW how \in {"posted", "floated"}, NEW place \in Nat,
           NEW first \in Seq(ToPage), NEW last \in Seq(ToPage),
           Post(t, n, how), Overlap(t, n), CallbackAt(t, k, place),
           \/ toPage' = [toPage EXCEPT ![w] = @ \o first \o Sqls(t, n) \o last]
           \/ toPage' = [toPage EXCEPT ![w] = @ \o first \o Sqls(t, n)]
           \/ toPage' = [toPage EXCEPT ![w] = @ \o Sqls(t, n) \o last]
    PROVE  /\ slot' \in [Tasks -> Nat] /\ query' \in [Tasks -> Seq(QueryStates)]
           /\ overlapped' \subseteq Tasks /\ toPage' \in [Workers -> Seq(ToPage)]
<1>1. Used(t) \in Nat /\ Sqls(t, n) \in Seq(ToPage) /\ query' \in [Tasks -> Seq(QueryStates)]
  BY PostTyped
<1>2. toPage' \in [Workers -> Seq(ToPage)]
  <2>1. toPage \in [Workers -> Seq(ToPage)]
    BY DEF TypeOK, ToPage
  <2>2. /\ toPage[w] \o first \o Sqls(t, n) \o last \in Seq(ToPage)
        /\ toPage[w] \o first \o Sqls(t, n) \in Seq(ToPage)
        /\ toPage[w] \o Sqls(t, n) \o last \in Seq(ToPage)
    BY <1>1, <2>1, ConcatProperties
  <2> QED
    BY <2>1, <2>2
<1>3. slot' \in [Tasks -> Nat]
  <2>1. (IF k > 0 THEN Used(t) + k ELSE place) \in Nat
    BY <1>1
  <2> QED
    BY <2>1 DEF TypeOK, CallbackAt
<1>4. overlapped' \subseteq Tasks
  BY DEF TypeOK, Overlap
<1> QED
  BY <1>1, <1>2, <1>3, <1>4

LEMMA RunScriptTyped ==
    ASSUME TypeOK, NEW t \in Tasks, NEW w \in Workers, NEW n \in Nat,
           NEW awaited \in SUBSET (Used(t) + 1 .. Used(t) + n), nested' = nested,
           NEW first \in Seq(ToPage), RunScript(t, w, n, awaited, first)
    PROVE  ScriptTyped'
<1>1. /\ Post(t, n, "posted") /\ Overlap(t, n) /\ CallbackAt(t, n, None)
      /\ waits' = [waits EXCEPT ![t] = (@ \ {slot[t]}) \cup awaited]
  BY DEF RunScript
<1>2. PICK state \in {"ended", "lost", "waits"} :
         /\ script' = [script EXCEPT ![t] = state]
         /\ toPage' = [toPage EXCEPT ![w] = @ \o first \o Sqls(t, n) \o
                (IF state = "ended" THEN <<Message(t, "result", None)>> ELSE <<>>)]
  BY DEF RunScript
<1> DEFINE last == IF state = "ended" THEN <<Message(t, "result", None)>> ELSE <<>>
<1>3. last \in Seq(ToPage)
  <2>1. Message(t, "result", None) \in ToPage
    BY MessageTyped DEF ToPage, Finals, None
  <2> QED
    BY <2>1
<1>4. /\ toPage' = [toPage EXCEPT ![w] = @ \o first \o Sqls(t, n) \o last]
      /\ None \in Nat
  BY <1>2 DEF None
<1> HIDE DEF last
<1>5. /\ slot' \in [Tasks -> Nat] /\ query' \in [Tasks -> Seq(QueryStates)]
      /\ overlapped' \subseteq Tasks /\ toPage' \in [Workers -> Seq(ToPage)]
  BY <1>1, <1>3, <1>4, TurnTyped
<1>6. waits' \in [Tasks -> SUBSET Nat]
  <2>1. Used(t) \in Nat
    BY PostTyped
  <2>2. awaited \in SUBSET Nat
    BY <2>1
  <2> QED
    BY <1>1, <2>2 DEF TypeOK
<1>7. script' \in [Tasks -> {"none", "waits", "ended", "lost"}] /\ nested' \subseteq Tasks
  BY <1>2 DEF TypeOK
<1> QED
  BY <1>5, <1>6, <1>7 DEF ScriptTyped

(* The listener of a worker takes a message: the pool stays as it is.      *)
LEMMA WorkerFrame ==
    ASSUME IInv, NEW w \in Workers, toWorker[w] # <<>>, Received(w),
           UNCHANGED poolVars, ScriptTyped', given' \in [Tasks -> SUBSET (Nat \X Nat)]
    PROVE  IInv'
<1>1. toWorker' \in [Workers -> Seq(ToWorker)]
  BY ReceivedTyped DEF Received, IInv, TypeOK, ToWorker
<1>2. TypeOK'
  BY <1>1 DEF IInv, TypeOK, ScriptTyped, poolVars, QueryStates, ToWorker, ToPage
<1>3. Owners'
  BY NobodyMoves DEF poolVars
<1> QED
  BY <1>2, <1>3 DEF IInv, Owners

LEMMA ReceivedTask ==
    ASSUME TypeOK, NEW w \in Workers, toWorker[w] # <<>>
    PROVE  Head(toWorker[w]).task \in Tasks /\ Head(toWorker[w]).query \in Nat
<1>1. Head(toWorker[w]) \in ToWorker
  BY ReceivedTyped DEF TypeOK, ToWorker
<1> QED
  BY <1>1 DEF ToWorker, Messages

(* A callback got an answer.                                               *)
LEMMA GivenTyped ==
    ASSUME TypeOK, NEW t \in Tasks, NEW q \in Nat,
           given' = [given EXCEPT ![t] = @ \cup {<<slot[t], q>>}]
    PROVE  given' \in [Tasks -> SUBSET (Nat \X Nat)]
<1>1. slot[t] \in Nat /\ given \in [Tasks -> SUBSET (Nat \X Nat)]
  BY DEF TypeOK
<1>2. given[t] \cup {<<slot[t], q>>} \in SUBSET (Nat \X Nat)
  BY <1>1
<1> QED
  BY <1>1, <1>2

LEMMA OnCodeStep == ASSUME IInv, NEW w \in Workers, OnCode(w) PROVE IInv'
<1> DEFINE t == Head(toWorker[w]).task
<1>1. /\ toWorker[w] # <<>> /\ Received(w)
      /\ \E n \in Free : \E awaited \in SUBSET (Used(t) + 1 .. Used(t) + n) :
            RunScript(t, w, n, awaited, <<>>)
      /\ UNCHANGED <<poolVars, given, nested>>
  BY DEF OnCode
<1>2. t \in Tasks /\ TypeOK
  BY <1>1, ReceivedTask DEF IInv
<1> HIDE DEF t
<1>3. PICK n \in Nat : \E awaited \in SUBSET (Used(t) + 1 .. Used(t) + n) :
                          RunScript(t, w, n, awaited, <<>>)
  BY <1>1, FreeIsNat
<1>4. ScriptTyped'
  <2>1. <<>> \in Seq(ToPage)
    OBVIOUS
  <2> QED
    BY <1>1, <1>2, <1>3, <2>1, RunScriptTyped
<1>5. given' \in [Tasks -> SUBSET (Nat \X Nat)]
  BY <1>1, <1>2 DEF TypeOK
<1> QED
  BY <1>1, <1>4, <1>5, WorkerFrame

LEMMA FinalTyped ==
    ASSUME NEW t \in Tasks, NEW kind \in Finals PROVE <<Message(t, kind, None)>> \in Seq(ToPage)
<1>1. Message(t, kind, None) \in ToPage
  BY MessageTyped DEF ToPage, None
<1> QED
  BY <1>1

(* A callback takes rows.                                                  *)
LEMMA CalledTyped ==
    ASSUME IInv, NEW w \in Workers, Called(w)
    PROVE  /\ toWorker[w] # <<>> /\ Received(w) /\ TypeOK
           /\ Head(toWorker[w]).task \in Tasks
           /\ given' \in [Tasks -> SUBSET (Nat \X Nat)]
<1> DEFINE t == Head(toWorker[w]).task
           q == Head(toWorker[w]).query
<1>1. /\ toWorker[w] # <<>> /\ Received(w)
      /\ given' = [given EXCEPT ![t] = @ \cup {<<slot[t], q>>}]
  BY DEF Called
<1>2. t \in Tasks /\ q \in Nat /\ TypeOK
  BY <1>1, ReceivedTask DEF IInv
<1> HIDE DEF t, q
<1>3. given' \in [Tasks -> SUBSET (Nat \X Nat)]
  BY <1>1, <1>2, GivenTyped
<1> QED
  BY <1>1, <1>2, <1>3 DEF t

LEMMA OnAwaitedStep == ASSUME IInv, NEW w \in Workers, OnAwaited(w) PROVE IInv'
<1> DEFINE t == Head(toWorker[w]).task
           done == <<Message(t, "done", None)>>
<1>1. /\ Called(w)
      /\ \E n \in Free : \E awaited \in SUBSET (Used(t) + 1 .. Used(t) + n) :
            RunScript(t, w, n, awaited, done)
      /\ UNCHANGED <<poolVars, nested>>
  BY DEF OnAwaited
<1>2. /\ toWorker[w] # <<>> /\ Received(w) /\ TypeOK /\ t \in Tasks
      /\ given' \in [Tasks -> SUBSET (Nat \X Nat)]
  BY <1>1, CalledTyped
<1>3. done \in Seq(ToPage)
  BY <1>2, FinalTyped DEF Finals
<1> HIDE DEF t, done
<1>4. ScriptTyped'
  BY <1>1, <1>2, <1>3, FreeIsNat, RunScriptTyped
<1> QED
  BY <1>1, <1>2, <1>4, WorkerFrame

(* The callback of a query the script does not wait for.                   *)
LEMMA CallbackStep ==
    ASSUME IInv, NEW w \in Workers, OnFloating(w) \/ OnCallback(w) \/ OnThrow(w) PROVE IInv'
<1> DEFINE t == Head(toWorker[w]).task
           done == <<Message(t, "done", None)>>
           result == <<Message(t, "result", None)>>
           page(n) == \/ toPage' = [toPage EXCEPT ![w] = @ \o done \o Sqls(t, n)]
                      \/ toPage' = [toPage EXCEPT ![w] = @ \o Sqls(t, n) \o done]
                      \/ toPage' = [toPage EXCEPT ![w] = @ \o Sqls(t, n) \o result]
<1>1. /\ Called(w) /\ UNCHANGED <<poolVars, script, waits>>
      /\ nested' = nested \/ nested' = nested \cup {t}
      /\ \E n \in Free : \E k \in {0, n} : \E place \in {None, slot[t]} :
            \E how \in {"posted", "floated"} :
               Post(t, n, how) /\ Overlap(t, n) /\ CallbackAt(t, k, place) /\ page(n)
  <2>1. CASE OnFloating(w)
    BY <2>1 DEF OnFloating
  <2>2. CASE OnCallback(w)
    BY <2>2 DEF OnCallback
  <2>3. CASE OnThrow(w)
    BY <2>3 DEF OnThrow
  <2> QED
    BY <2>1, <2>2, <2>3
<1>2. /\ toWorker[w] # <<>> /\ Received(w) /\ TypeOK /\ t \in Tasks
      /\ given' \in [Tasks -> SUBSET (Nat \X Nat)]
  BY <1>1, CalledTyped
<1>3. done \in Seq(ToPage) /\ result \in Seq(ToPage) /\ None \in Nat /\ slot[t] \in Nat
  BY <1>2, FinalTyped DEF Finals, None, TypeOK
<1> HIDE DEF t, done, result
<1>4. PICK n \in Nat, k \in Nat, place \in Nat, how \in {"posted", "floated"} :
         Post(t, n, how) /\ Overlap(t, n) /\ CallbackAt(t, k, place) /\ page(n)
  <2>1. \A n \in Free : n \in Nat /\ {0, n} \subseteq Nat
    BY FreeIsNat
  <2> HIDE DEF page
  <2> QED
    BY <1>1, <1>3, <2>1
<1>5. /\ slot' \in [Tasks -> Nat] /\ query' \in [Tasks -> Seq(QueryStates)]
      /\ overlapped' \subseteq Tasks /\ toPage' \in [Workers -> Seq(ToPage)]
  BY <1>2, <1>3, <1>4, TurnTyped
<1>6. ScriptTyped'
  BY <1>1, <1>2, <1>5 DEF TypeOK, ScriptTyped
<1> QED
  BY <1>1, <1>2, <1>6, WorkerFrame

LEMMA OnRowsStep == ASSUME IInv, NEW w \in Workers, OnRows(w) PROVE IInv'
<1> DEFINE t == Head(toWorker[w]).task
<1>1. /\ toWorker[w] # <<>> /\ Received(w)
      /\ toPage' = [toPage EXCEPT ![w] = Append(@, Message(t, "print", None))]
      /\ UNCHANGED <<poolVars, scriptVars, query>>
  BY DEF OnRows
<1>2. t \in Tasks /\ TypeOK
  BY <1>1, ReceivedTask DEF IInv
<1> HIDE DEF t
<1>3. Message(t, "print", None) \in ToPage
  BY <1>2, MessageTyped DEF ToPage, Finals, None
<1>4. toPage' \in [Workers -> Seq(ToPage)]
  BY <1>1, <1>2, <1>3, SentTyped DEF TypeOK, ToPage
<1>5. ScriptTyped' /\ given' \in [Tasks -> SUBSET (Nat \X Nat)]
  BY <1>1, <1>2, <1>4 DEF TypeOK, ScriptTyped, scriptVars, QueryStates
<1> QED
  BY <1>1, <1>5, WorkerFrame

LEMMA OnCleanupStep == ASSUME IInv, NEW w \in Workers, OnCleanup(w) PROVE IInv'
<1>1. /\ toWorker[w] # <<>> /\ Received(w)
      /\ UNCHANGED <<poolVars, toPage, scriptVars, query>>
  BY DEF OnCleanup
<1>2. ScriptTyped' /\ given' \in [Tasks -> SUBSET (Nat \X Nat)]
  BY <1>1 DEF IInv, TypeOK, ScriptTyped, scriptVars, QueryStates, ToPage
<1> QED
  BY <1>1, <1>2, WorkerFrame

-----------------------------------------------------------------------------
(* The theorems                                                            *)

LEMMA NextIInv == IInv /\ [Next]_vars => IInv'
<1> SUFFICES ASSUME IInv, [Next]_vars PROVE IInv'
  OBVIOUS
<1>1. CASE SettingsChanged
  BY <1>1, SettingsStep
<1>2. CASE RemoveIdle
  BY <1>2, RemoveStep
<1>3. ASSUME NEW t \in Tasks, RunOnIdle(t) \/ RunOnNew(t) \/ RunLater(t)
      PROVE  IInv'
  BY <1>3, RunOnIdleStep, RunOnNewStep, RunLaterStep
<1>4. ASSUME NEW t \in Tasks, QueryEnds(t) PROVE IInv'
  <2>1. PICK q \in 1..Used(t) : Answer(t, q) \/ FailQuery(t, q)
    BY <1>4 DEF QueryEnds
  <2> QED
    BY <2>1, AnswerStep, FailQueryStep
<1>5. ASSUME NEW w \in Workers, PageStep(w) PROVE IInv'
  BY <1>5, OnQueryStep, OnFinalStep DEF PageStep
<1>6. ASSUME NEW w \in Workers, WorkerStep(w) PROVE IInv'
  BY <1>6, OnCodeStep, OnAwaitedStep, CallbackStep, OnRowsStep, OnCleanupStep
  DEF WorkerStep
<1>7. CASE UNCHANGED vars
  <2>1. Owners'
    BY <1>7, NobodyMoves DEF vars, poolVars
  <2>2. TypeOK'
    BY <1>7 DEF IInv, TypeOK, vars, poolVars, scriptVars
  <2> QED
    BY <2>1, <2>2 DEF IInv, Owners
<1> QED
  BY <1>1, <1>2, <1>3, <1>4, <1>5, <1>6, <1>7 DEF Next

(* The bookkeeping of the pool and the messages to and from its workers    *)
(* stay well formed (WorkerPool.ts, console.worker.ts).                    *)
THEOREM TypeCorrect == Spec => []TypeOK
<1>1. IInv => TypeOK
  BY DEF IInv
<1> QED
  BY <1>1, InitIInv, NextIInv, PTL DEF Spec

(* runTask, releaseTask, the settings and the timer never give a worker to *)
(* two tasks, lose one or use one that was terminated (WorkerPool.ts).     *)
THEOREM WorkersOwned == Spec => []OneOwner
<1>1. IInv => OneOwner
  BY DEF IInv
<1> QED
  BY <1>1, InitIInv, NextIInv, PTL DEF Spec
=============================================================================
