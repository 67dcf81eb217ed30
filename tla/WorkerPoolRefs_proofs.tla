------------------------ MODULE WorkerPoolRefs_proofs ------------------------
(* The references of a task of the worker pool, and the callbacks of a       *)
(* script, for every number of tasks, workers, queries and changes of the    *)
(* settings: a worker is given away exactly when nothing of its task is left. *)
EXTENDS WorkerPool_proofs, FiniteSetTheorems

-----------------------------------------------------------------------------
(* Positions in a sequence                                                   *)

LEMMA TailAt ==
    ASSUME NEW M, NEW s \in Seq(M), s # <<>>
    PROVE  /\ Head(s) = s[1] /\ 1 \in DOMAIN s /\ DOMAIN s \subseteq Nat
           /\ \A i \in DOMAIN Tail(s) : i + 1 \in DOMAIN s /\ Tail(s)[i] = s[i + 1]
           /\ \A i \in DOMAIN s : i # 1 => i - 1 \in DOMAIN Tail(s) /\ Tail(s)[i - 1] = s[i]
           /\ DOMAIN Tail(s) \subseteq Nat \ {0}
<1>1. /\ Tail(s) \in Seq(M) /\ Len(Tail(s)) = Len(s) - 1 /\ Len(s) \in Nat \ {0}
      /\ \A i \in 1 .. Len(s) - 1 : Tail(s)[i] = s[i + 1]
      /\ Head(s) = s[1]
  BY HeadTailProperties, EmptySeq
<1>2. DOMAIN s = 1 .. Len(s) /\ DOMAIN Tail(s) = 1 .. Len(s) - 1
  BY <1>1, LenProperties
<1> QED
  BY <1>1, <1>2

LEMMA ConcatAt ==
    ASSUME NEW M, NEW s \in Seq(M), NEW u \in Seq(M)
    PROVE  /\ s \o u \in Seq(M) /\ Len(s) \in Nat /\ Len(u) \in Nat
           /\ DOMAIN s = 1..Len(s) /\ DOMAIN u = 1..Len(u)
           /\ DOMAIN (s \o u) = 1 .. Len(s) + Len(u)
           /\ \A i \in DOMAIN s : i \in DOMAIN (s \o u) /\ (s \o u)[i] = s[i]
           /\ \A i \in DOMAIN u : Len(s) + i \in DOMAIN (s \o u) /\ (s \o u)[Len(s) + i] = u[i]
           /\ \A i \in DOMAIN (s \o u) :
                 i \in DOMAIN s \/ (i > Len(s) /\ i - Len(s) \in DOMAIN u)
<1>1. /\ s \o u \in Seq(M) /\ Len(s \o u) = Len(s) + Len(u)
      /\ Len(s) \in Nat /\ Len(u) \in Nat
      /\ \A i \in 1 .. Len(s) + Len(u) :
            (s \o u)[i] = IF i <= Len(s) THEN s[i] ELSE u[i - Len(s)]
  BY ConcatProperties, LenProperties
<1>2. DOMAIN s = 1..Len(s) /\ DOMAIN u = 1..Len(u) /\ DOMAIN (s \o u) = 1 .. Len(s) + Len(u)
  BY <1>1, LenProperties
<1>3. ASSUME NEW i \in 1..Len(u) PROVE (s \o u)[Len(s) + i] = u[i]
  <2>1. Len(s) + i \in 1 .. Len(s) + Len(u) /\ ~(Len(s) + i <= Len(s)) /\ (Len(s) + i) - Len(s) = i
    BY <1>1
  <2> QED
    BY <1>1, <2>1
<1> QED
  BY <1>1, <1>2, <1>3

-----------------------------------------------------------------------------
(* Counting the messages of a task                                           *)

Of(m, t, kinds) == m.task = t /\ m.kind \in kinds
Places(s, t, kinds) == {i \in DOMAIN s : s[i].task = t /\ s[i].kind \in kinds}
Count(s, t, kinds) == Cardinality(Places(s, t, kinds))

LEMMA PlacesFinite ==
    ASSUME NEW M, NEW s \in Seq(M), NEW t, NEW kinds
    PROVE  /\ IsFiniteSet(Places(s, t, kinds)) /\ Count(s, t, kinds) \in Nat
           /\ Count(s, t, kinds) = 0 <=> \A i \in DOMAIN s : ~Of(s[i], t, kinds)
<1>1. Len(s) \in Nat /\ DOMAIN s = 1..Len(s)
  BY LenProperties
<1>2. IsFiniteSet(1..Len(s))
  BY <1>1, FS_Interval
<1>3. Places(s, t, kinds) \in SUBSET (1..Len(s))
  BY <1>1 DEF Places
<1>4. IsFiniteSet(Places(s, t, kinds))
  BY <1>2, <1>3, FS_Subset
<1>5. Count(s, t, kinds) \in Nat
  BY <1>4, FS_CardinalityType DEF Count
<1>6. Count(s, t, kinds) = 0 <=> Places(s, t, kinds) = {}
  BY <1>4, FS_EmptySet DEF Count
<1>7. Places(s, t, kinds) = {} <=> \A i \in DOMAIN s : ~Of(s[i], t, kinds)
  BY DEF Places, Of
<1> QED
  BY <1>4, <1>5, <1>6, <1>7

LEMMA CountConcat ==
    ASSUME NEW M, NEW s \in Seq(M), NEW u \in Seq(M), NEW t, NEW kinds
    PROVE  Count(s \o u, t, kinds) = Count(s, t, kinds) + Count(u, t, kinds)
<1> DEFINE A == Places(s, t, kinds)
           B == Places(u, t, kinds)
           C == Places(s \o u, t, kinds)
           n == Len(s)
           D == C \ A
           f == [i \in B |-> n + i]
<1>1. /\ s \o u \in Seq(M) /\ n \in Nat /\ DOMAIN s = 1..n
      /\ DOMAIN u = 1..Len(u) /\ Len(u) \in Nat
      /\ \A i \in DOMAIN s : i \in DOMAIN (s \o u) /\ (s \o u)[i] = s[i]
      /\ \A i \in DOMAIN u : n + i \in DOMAIN (s \o u) /\ (s \o u)[n + i] = u[i]
      /\ \A i \in DOMAIN (s \o u) : i \in DOMAIN s \/ (i > n /\ i - n \in DOMAIN u)
      /\ DOMAIN (s \o u) = 1 .. n + Len(u)
  BY ConcatAt
<1>2. A \subseteq C
  BY <1>1 DEF Places
<1>3. IsFiniteSet(A) /\ IsFiniteSet(B) /\ IsFiniteSet(C)
  BY <1>1, PlacesFinite
<1>4. \A i \in B : i \in DOMAIN u /\ i \in Nat /\ i > 0
  BY <1>1 DEF Places
<1>5. ASSUME NEW i \in B PROVE n + i \in D
  <2>1. n + i \in C
    BY <1>1 DEF Places
  <2>2. n + i \notin A
    BY <1>1, <1>4 DEF Places
  <2> QED
    BY <2>1, <2>2
<1>6. ASSUME NEW j \in D PROVE j - n \in B /\ j = n + (j - n)
  <2>1. j \in DOMAIN (s \o u) /\ Of((s \o u)[j], t, kinds)
    BY DEF Places, Of
  <2>2. j \notin DOMAIN s
    BY <1>1, <2>1 DEF Places, Of
  <2>3. j > n /\ j - n \in DOMAIN u /\ n + (j - n) = j
    BY <1>1, <2>1, <2>2
  <2>4. (s \o u)[j] = u[j - n]
    BY <1>1, <2>3
  <2> QED
    BY <2>1, <2>3, <2>4 DEF Places, Of
<1> HIDE DEF A, B, C, D
<1>7. f \in Bijection(B, D)
  <2>1. f \in [B -> D]
    BY <1>5
  <2>2. ASSUME NEW i \in B, NEW j \in B, f[i] = f[j] PROVE i = j
    BY <1>1, <1>4, <2>2
  <2>3. IsInjective(f)
    BY <2>2 DEF IsInjective
  <2>4. ASSUME NEW j \in D PROVE \E i \in B : f[i] = j
    BY <1>6
  <2> QED
    BY <2>1, <2>3, <2>4 DEF Bijection, Injection, Surjection
<1>8. ExistsBijection(B, D)
  BY <1>7 DEF ExistsBijection
<1>9. IsFiniteSet(D) /\ Cardinality(D) = Cardinality(B)
  BY <1>3, <1>8, FS_Bijection
<1>10. C = A \cup D /\ A \cap D = {}
  BY <1>2 DEF D
<1>11. Cardinality(C) = Cardinality(A) + Cardinality(D) - Cardinality(A \cap D)
  BY <1>3, <1>9, <1>10, FS_Union
<1>12. Cardinality(A) \in Nat /\ Cardinality(D) \in Nat /\ Cardinality(A \cap D) = 0
  BY <1>3, <1>9, <1>10, FS_CardinalityType, FS_EmptySet
<1>13. Cardinality(C) = Cardinality(A) + Cardinality(B)
  BY <1>9, <1>11, <1>12
<1> QED
  BY <1>13 DEF Count, A, B, C

(* One message.                                                            *)
LEMMA CountOne ==
    ASSUME NEW M, NEW m \in M, NEW t, NEW kinds
    PROVE  /\ Count(<<>>, t, kinds) = 0
           /\ Count(<<m>>, t, kinds) = IF Of(m, t, kinds) THEN 1 ELSE 0
<1>1. <<>> \in Seq(M) /\ DOMAIN <<>> = {}
  OBVIOUS
<1>2. Count(<<>>, t, kinds) = 0
  BY <1>1, PlacesFinite
<1>3. <<m>> \in Seq(M) /\ DOMAIN <<m>> = {1} /\ <<m>>[1] = m
  OBVIOUS
<1>4. CASE Of(m, t, kinds)
  <2>1. Places(<<m>>, t, kinds) = {1}
    BY <1>3, <1>4 DEF Places, Of
  <2> QED
    BY <1>2, <1>4, <2>1, FS_Singleton DEF Count
<1>5. CASE ~Of(m, t, kinds)
  <2>1. \A i \in DOMAIN <<m>> : ~Of(<<m>>[i], t, kinds)
    BY <1>3, <1>5
  <2>2. Count(<<m>>, t, kinds) = 0
    BY <1>3, <2>1, PlacesFinite
  <2> QED
    BY <1>2, <1>5, <2>2
<1> QED
  BY <1>4, <1>5

LEMMA CountAppend ==
    ASSUME NEW M, NEW s \in Seq(M), NEW m \in M, NEW t, NEW kinds
    PROVE  Count(Append(s, m), t, kinds)
             = Count(s, t, kinds) + (IF Of(m, t, kinds) THEN 1 ELSE 0)
<1> DEFINE one == <<m>>
<1>1. Append(s, m) = s \o one /\ one \in Seq(M)
  BY AppendIsConcat
<1>2. Count(one, t, kinds) = IF Of(m, t, kinds) THEN 1 ELSE 0
  BY CountOne
<1> HIDE DEF one
<1>3. Count(s \o one, t, kinds) = Count(s, t, kinds) + Count(one, t, kinds)
  BY <1>1, CountConcat
<1> QED
  BY <1>1, <1>2, <1>3

LEMMA CountTail ==
    ASSUME NEW M, NEW s \in Seq(M), s # <<>>, NEW t, NEW kinds
    PROVE  Count(s, t, kinds)
             = Count(Tail(s), t, kinds) + (IF Of(Head(s), t, kinds) THEN 1 ELSE 0)
<1> DEFINE h == <<Head(s)>>
           r == Tail(s)
<1>1. Head(s) \in M /\ r \in Seq(M) /\ Len(r) = Len(s) - 1 /\ Len(s) \in Nat \ {0}
      /\ \A i \in 1 .. Len(s) - 1 : r[i] = s[i + 1]
  BY HeadTailProperties, EmptySeq
<1>2. h \in Seq(M) /\ Len(h) = 1 /\ h[1] = Head(s) /\ Head(s) = s[1]
  BY <1>1
<1>3. Count(h, t, kinds) = IF Of(Head(s), t, kinds) THEN 1 ELSE 0
  BY <1>1, CountOne
<1> HIDE DEF h, r
<1>4. h \o r = s
  <2>1. /\ h \o r \in Seq(M) /\ Len(h \o r) = Len(h) + Len(r)
        /\ \A i \in 1 .. Len(h) + Len(r) : (h \o r)[i] = IF i <= Len(h) THEN h[i] ELSE r[i - Len(h)]
    BY <1>1, <1>2, ConcatProperties
  <2>2. ASSUME NEW i \in 1 .. Len(s) PROVE (h \o r)[i] = s[i]
    <3>1. CASE i = 1
      BY <1>1, <1>2, <2>1, <3>1
    <3>2. CASE i # 1
      <4>1. i - 1 \in 1 .. Len(s) - 1 /\ ~(i <= 1)
        BY <1>1, <3>2
      <4> QED
        BY <1>1, <1>2, <2>1, <4>1
    <3> QED
      BY <3>1, <3>2
  <2>3. Len(h \o r) = Len(s)
    BY <1>1, <1>2, <2>1
  <2> QED
    BY <2>1, <2>2, <2>3, SeqEqual
<1>5. Count(h \o r, t, kinds) = Count(h, t, kinds) + Count(r, t, kinds)
  BY <1>1, <1>2, CountConcat
<1>6. Count(r, t, kinds) \in Nat
  BY <1>1, PlacesFinite
<1>7. Count(s, t, kinds) = Count(r, t, kinds) + (IF Of(Head(s), t, kinds) THEN 1 ELSE 0)
  BY <1>3, <1>4, <1>5, <1>6
<1> QED
  BY <1>7 DEF r

-----------------------------------------------------------------------------
(* Counting the queries of a script that are executed                        *)

Executed(s) == {q \in DOMAIN s : s[q] = "running"}

LEMMA ExecutedFinite ==
    ASSUME NEW S, NEW s \in Seq(S)
    PROVE  /\ IsFiniteSet(Executed(s)) /\ Cardinality(Executed(s)) \in Nat
           /\ Cardinality(Executed(s)) = 0 <=> \A q \in DOMAIN s : s[q] # "running"
<1>1. Len(s) \in Nat /\ DOMAIN s = 1..Len(s)
  BY LenProperties
<1>2. IsFiniteSet(1..Len(s))
  BY <1>1, FS_Interval
<1>3. Executed(s) \in SUBSET (1..Len(s))
  BY <1>1 DEF Executed
<1>4. IsFiniteSet(Executed(s))
  BY <1>2, <1>3, FS_Subset
<1>5. Cardinality(Executed(s)) \in Nat
  BY <1>4, FS_CardinalityType
<1>6. Cardinality(Executed(s)) = 0 <=> Executed(s) = {}
  BY <1>4, FS_EmptySet
<1> QED
  BY <1>4, <1>5, <1>6 DEF Executed

LEMMA ExecutionStarts ==
    ASSUME NEW S, NEW s \in Seq(S), NEW q \in DOMAIN s, s[q] # "running"
    PROVE  Cardinality(Executed([s EXCEPT ![q] = "running"])) = Cardinality(Executed(s)) + 1
<1>1. Executed([s EXCEPT ![q] = "running"]) = Executed(s) \cup {q} /\ q \notin Executed(s)
  BY DEF Executed
<1>2. IsFiniteSet(Executed(s))
  BY ExecutedFinite
<1> QED
  BY <1>1, <1>2, FS_AddElement

LEMMA ExecutionEnds ==
    ASSUME NEW S, NEW s \in Seq(S), NEW q \in DOMAIN s, s[q] = "running",
           NEW state, state # "running"
    PROVE  Cardinality(Executed([s EXCEPT ![q] = state])) = Cardinality(Executed(s)) - 1
<1>1. Executed([s EXCEPT ![q] = state]) = Executed(s) \ {q} /\ q \in Executed(s)
  BY DEF Executed
<1>2. IsFiniteSet(Executed(s))
  BY ExecutedFinite
<1> QED
  BY <1>1, <1>2, FS_RemoveElement

-----------------------------------------------------------------------------
(* The inductive invariant. Its parts take the pool and the messages as      *)
(* arguments, as releaseTask is the second half of a handler that changed    *)
(* the messages or the queries before.                                       *)

(* What holds a reference to task t while worker w runs it.                *)
References(t, w, tw, tp, qu) ==
    (IF script[t] = "ended" THEN 0 ELSE 1) + Count(tw[w], t, {"rows"})
      + Count(tp[w], t, Finals) + Cardinality(Executed(qu[t]))

ExactFor(t, wk, rf, tw, tp, qu) ==
    IF wk[t] # None THEN rf[t] = References(t, wk[t], tw, tp, qu)
    ELSE /\ script[t] = "ended"
         /\ \A q \in DOMAIN qu[t] : qu[t][q] \in {"answered", "failed", "floated"}

(* The code of a task and the rows for it wait only for its worker, and no *)
(* message comes twice.                                                    *)
ToWorkerPlaced(wk, tw, qu) ==
    \A w \in Workers :
       /\ \A i \in DOMAIN tw[w] :
             LET m == tw[w][i] IN
             /\ m.kind = "code" => wk[m.task] = w /\ script[m.task] = "none" /\ m.query = None
             /\ m.kind = "rows" => /\ wk[m.task] = w /\ script[m.task] # "none"
                                   /\ m.query \in DOMAIN qu[m.task]
                                   /\ qu[m.task][m.query] = "answered"
       /\ \A i, j \in DOMAIN tw[w] :
             /\ tw[w][i].task = tw[w][j].task /\ tw[w][i].query = tw[w][j].query
             /\ tw[w][i].kind = tw[w][j].kind /\ tw[w][i].kind # "cleanup"
             => i = j

(* A message i to the page, with the state of its script. What follows the *)
(* worker's own task is news of it; a query is posted, and its script goes *)
(* on or a final message follows; or it was asked for by code that the     *)
(* script does not wait for, and may come when the task was released.      *)
Told(w, i, s, state, wk, qu) ==
    LET m == s[i] IN
    /\ state # "none"
    /\ m.kind # "sql" => wk[m.task] = w
    /\ m.kind = "sql" =>
          /\ m.query \in DOMAIN qu[m.task]
          /\ \/ /\ qu[m.task][m.query] = "posted" /\ wk[m.task] = w
                /\ state # "ended" \/ \E j \in DOMAIN s : j > i /\ Of(s[j], m.task, Finals)
             \/ qu[m.task][m.query] = "floated" /\ wk[m.task] \in {None, w}

ToPagePlaced(wk, tp, qu) ==
    \A w \in Workers :
       /\ \A i \in DOMAIN tp[w] : Told(w, i, tp[w], script[tp[w][i].task], wk, qu)
       /\ \A i, j \in DOMAIN tp[w] :
             /\ tp[w][i].task = tp[w][j].task /\ tp[w][i].query = tp[w][j].query
             /\ tp[w][i].kind = "sql" /\ tp[w][j].kind = "sql"
             => i = j

AskedBy(s, t, q) == \E i \in DOMAIN s : s[i].task = t /\ s[i].kind = "sql" /\ s[i].query = q

PostedAsked(wk, tp, qu) ==
    \A t \in Tasks : \A q \in DOMAIN qu[t] :
       qu[t][q] = "posted" => wk[t] # None /\ AskedBy(tp[wk[t]], t, q)

Placed(wk, tw, tp, qu) ==
    ToWorkerPlaced(wk, tw, qu) /\ ToPagePlaced(wk, tp, qu) /\ PostedAsked(wk, tp, qu)

(* A script that was not started has done nothing, and a task that waits   *)
(* was not started.                                                        *)
Fresh ==
    /\ \A t \in Tasks :
          /\ script[t] = "none" => query[t] = <<>> /\ waits[t] = {} /\ slot[t] = None
          /\ waits[t] # {} => script[t] = "waits"
          /\ t \notin started => script[t] = "none"
    /\ Range(pending) \cap started = {}

Exact == \A t \in started : ExactFor(t, worker, refs, toWorker, toPage, query)

Links == Placed(worker, toWorker, toPage, query) /\ Fresh /\ Exact

LEMMA ExactRefs == IInv /\ Exact => RefsExact
<1> SUFFICES ASSUME IInv, Exact, NEW t \in started
             PROVE  IF Running(t)
                    THEN refs[t] = (IF script[t] = "ended" THEN 0 ELSE 1) + InFlight(t)
                           + Cardinality({q \in DOMAIN query[t] : query[t][q] = "running"})
                    ELSE /\ script[t] = "ended"
                         /\ \A q \in DOMAIN query[t] : query[t][q] \in {"answered", "failed", "floated"}
  BY DEF RefsExact
<1>1. ExactFor(t, worker, refs, toWorker, toPage, query)
  BY DEF Exact
<1>2. CASE ~Running(t)
  BY <1>1, <1>2 DEF ExactFor, Running
<1>3. CASE Running(t)
  <2> DEFINE a == Count(toWorker[worker[t]], t, {"rows"})
             b == Count(toPage[worker[t]], t, Finals)
             c == Cardinality(Executed(query[t]))
             d == IF script[t] = "ended" THEN 0 ELSE 1
  <2>1. t \in Tasks /\ worker[t] \in Workers
    BY <1>3 DEF IInv, TypeOK, Running
  <2>2. a \in Nat /\ b \in Nat /\ c \in Nat
    BY <2>1, PlacesFinite, ExecutedFinite DEF IInv, TypeOK
  <2>3. InFlight(t) = a + b
    BY <1>3 DEF InFlight, Count, Places
  <2>4. c = Cardinality({q \in DOMAIN query[t] : query[t][q] = "running"})
    BY DEF Executed
  <2>5. refs[t] = d + a + b + c
    BY <1>1, <1>3 DEF ExactFor, Running, References
  <2> HIDE DEF a, b, c
  <2>6. refs[t] = d + (a + b) + c
    BY <2>2, <2>5
  <2> QED
    BY <1>3, <2>3, <2>4, <2>6
<1> QED
  BY <1>2, <1>3

(* The types of the arguments.                                             *)
Typed(wk, rf, tw, tp, qu) ==
    /\ wk \in [Tasks -> {None} \cup Workers] /\ rf \in [Tasks -> Nat]
    /\ tw \in [Workers -> Seq(ToWorker)] /\ tp \in [Workers -> Seq(ToPage)]
    /\ qu \in [Tasks -> Seq(QueryStates)]

LEMMA NowTyped == IInv => Typed(worker, refs, toWorker, toPage, query)
  BY DEF IInv, TypeOK, Typed, ToWorker, ToPage, QueryStates

LEMMA WorkerIds == None \notin Workers
  BY DEF None, Workers

(* The terms of References.                                                *)
LEMMA ReferencesTyped ==
    ASSUME NEW wk, NEW rf, NEW tw, NEW tp, NEW qu, Typed(wk, rf, tw, tp, qu),
           NEW t \in Tasks, NEW w \in Workers
    PROVE  /\ Count(tw[w], t, {"rows"}) \in Nat /\ Count(tp[w], t, Finals) \in Nat
           /\ Cardinality(Executed(qu[t])) \in Nat
           /\ References(t, w, tw, tp, qu) \in Nat
           /\ References(t, w, tw, tp, qu) = 0 =>
                 /\ script[t] = "ended"
                 /\ \A i \in DOMAIN tw[w] : ~Of(tw[w][i], t, {"rows"})
                 /\ \A i \in DOMAIN tp[w] : ~Of(tp[w][i], t, Finals)
                 /\ \A q \in DOMAIN qu[t] : qu[t][q] # "running"
<1>1. tw[w] \in Seq(ToWorker) /\ tp[w] \in Seq(ToPage) /\ qu[t] \in Seq(QueryStates)
  BY DEF Typed
<1>2. /\ Count(tw[w], t, {"rows"}) \in Nat
      /\ Count(tw[w], t, {"rows"}) = 0 <=> \A i \in DOMAIN tw[w] : ~Of(tw[w][i], t, {"rows"})
  BY <1>1, PlacesFinite
<1>3. /\ Count(tp[w], t, Finals) \in Nat
      /\ Count(tp[w], t, Finals) = 0 <=> \A i \in DOMAIN tp[w] : ~Of(tp[w][i], t, Finals)
  BY <1>1, PlacesFinite
<1>4. /\ Cardinality(Executed(qu[t])) \in Nat
      /\ Cardinality(Executed(qu[t])) = 0 <=> \A q \in DOMAIN qu[t] : qu[t][q] # "running"
  BY <1>1, ExecutedFinite
<1> DEFINE a == Count(tw[w], t, {"rows"})
           b == Count(tp[w], t, Finals)
           c == Cardinality(Executed(qu[t]))
           d == IF script[t] = "ended" THEN 0 ELSE 1
<1>5. References(t, w, tw, tp, qu) = d + a + b + c
  BY DEF References
<1>6. a \in Nat /\ b \in Nat /\ c \in Nat
  BY <1>2, <1>3, <1>4
<1> HIDE DEF a, b, c
<1>7. d + a + b + c \in Nat /\ (d + a + b + c = 0 => script[t] = "ended" /\ a = 0 /\ b = 0 /\ c = 0)
  BY <1>6
<1> USE DEF a, b, c
<1> QED
  BY <1>2, <1>3, <1>4, <1>5, <1>7

LEMMA MessageAt ==
    ASSUME NEW wk, NEW rf, NEW tw, NEW tp, NEW qu, Typed(wk, rf, tw, tp, qu), NEW w \in Workers
    PROVE  /\ \A i \in DOMAIN tw[w] : /\ tw[w][i].task \in Tasks /\ tw[w][i].query \in Nat
                                      /\ tw[w][i].kind \in {"code", "rows", "cleanup"}
           /\ \A i \in DOMAIN tp[w] : /\ tp[w][i].task \in Tasks /\ tp[w][i].query \in Nat
                                      /\ tp[w][i].kind \in {"sql"} \cup Finals
<1>1. tw[w] \in Seq(ToWorker) /\ tp[w] \in Seq(ToPage)
  BY DEF Typed
<1>2. /\ \A i \in DOMAIN tw[w] : tw[w][i] \in ToWorker
      /\ \A i \in DOMAIN tp[w] : tp[w][i] \in ToPage
  BY <1>1, LenProperties
<1> QED
  BY <1>2 DEF ToWorker, ToPage, Messages

(* Message m is sent to worker w.                                          *)
LEMMA SentAt ==
    ASSUME NEW M, NEW box \in [Workers -> Seq(M)], NEW w \in Workers, NEW m \in M, NEW box2,
           box2 = [box EXCEPT ![w] = Append(@, m)]
    PROVE  /\ \A v \in Workers : v # w => box2[v] = box[v]
           /\ Len(box[w]) \in Nat /\ box2[w] = Append(box[w], m)
           /\ DOMAIN box[w] \subseteq DOMAIN box2[w]
           /\ \A i \in DOMAIN box[w] : box2[w][i] = box[w][i] /\ i # Len(box[w]) + 1
           /\ \A i \in DOMAIN box2[w] : i \in DOMAIN box[w] \/ (i = Len(box[w]) + 1 /\ box2[w][i] = m)
           /\ Len(box[w]) + 1 \in DOMAIN box2[w] /\ box2[w][Len(box[w]) + 1] = m
<1>1. box[w] \in Seq(M) /\ box2[w] = Append(box[w], m)
  OBVIOUS
<1>2. /\ Append(box[w], m) \in Seq(M) /\ Len(Append(box[w], m)) = Len(box[w]) + 1
      /\ Len(box[w]) \in Nat
      /\ \A i \in 1 .. Len(box[w]) : Append(box[w], m)[i] = box[w][i]
      /\ Append(box[w], m)[Len(box[w]) + 1] = m
  BY <1>1, AppendProperties, LenProperties
<1>3. DOMAIN box[w] = 1..Len(box[w]) /\ DOMAIN Append(box[w], m) = 1 .. Len(box[w]) + 1
  BY <1>1, <1>2, LenProperties
<1> QED
  BY <1>1, <1>2, <1>3

(* Worker w gets task u, or leaves task t.                                 *)
Gives(u, w, wk, tw, wk2, tw2) ==
    /\ wk2 = [wk EXCEPT ![u] = w]
    /\ tw2 = [tw EXCEPT ![w] = Append(@, Message(u, "code", None))]

Leaves(t, w, wk, tw, wk2, tw2) ==
    /\ wk2 = [wk EXCEPT ![t] = None]
    /\ tw2 = [tw EXCEPT ![w] = Append(@, Message(t, "cleanup", None))]

(* A worker without a task gets one: its code is the only reference.       *)
LEMMA Assigned ==
    ASSUME NEW wk, NEW rf, NEW tw, NEW tp, NEW qu, Typed(wk, rf, tw, tp, qu),
           Placed(wk, tw, tp, qu), NEW u \in Tasks, NEW w \in Workers,
           \A v \in Tasks : wk[v] # w, wk[u] = None, script[u] = "none", qu[u] = <<>>,
           NEW wk2, NEW tw2, Gives(u, w, wk, tw, wk2, tw2)
    PROVE  /\ Placed(wk2, tw2, tp, qu)
           /\ References(u, w, tw2, tp, qu) = 1
           /\ \A v \in Tasks : wk[v] # None =>
                 wk2[v] = wk[v] /\ References(v, wk[v], tw2, tp, qu) = References(v, wk[v], tw, tp, qu)
<1> DEFINE m == Message(u, "code", None)
<1>1. m \in ToWorker /\ m.task = u /\ m.kind = "code" /\ m.query = None
  BY MessageTyped DEF ToWorker, Message, None
<1> HIDE DEF m
<1>2. tw \in [Workers -> Seq(ToWorker)] /\ tw2 = [tw EXCEPT ![w] = Append(@, m)]
  BY DEF Typed, m, Gives
<1>3. \A v \in Tasks : wk2[v] = IF v = u THEN w ELSE wk[v]
  BY DEF Typed, Gives
<1>4. \A i \in DOMAIN tp[w] : ~Of(tp[w][i], u, Finals)
  BY DEF Placed, ToPagePlaced, Told, Of, Finals
<1>5. \A i \in DOMAIN tw[w] : tw[w][i].kind = "cleanup"
  BY MessageAt DEF Placed, ToWorkerPlaced
<1>6. /\ \A v \in Workers : v # w => tw2[v] = tw[v]
      /\ \A i \in DOMAIN tw2[w] :
            \/ i \in DOMAIN tw[w] /\ tw2[w][i].kind = "cleanup"
            \/ i = Len(tw[w]) + 1 /\ tw2[w][i] = m
  BY <1>1, <1>2, <1>5, SentAt
<1>7. ToWorkerPlaced(wk2, tw2, qu)
  <2> SUFFICES ASSUME NEW v \in Workers
               PROVE  /\ \A i \in DOMAIN tw2[v] :
                            LET n == tw2[v][i] IN
                            /\ n.kind = "code" => wk2[n.task] = v /\ script[n.task] = "none" /\ n.query = None
                            /\ n.kind = "rows" => /\ wk2[n.task] = v /\ script[n.task] # "none"
                                                  /\ n.query \in DOMAIN qu[n.task]
                                                  /\ qu[n.task][n.query] = "answered"
                      /\ \A i, j \in DOMAIN tw2[v] :
                            /\ tw2[v][i].task = tw2[v][j].task /\ tw2[v][i].query = tw2[v][j].query
                            /\ tw2[v][i].kind = tw2[v][j].kind /\ tw2[v][i].kind # "cleanup"
                            => i = j
    BY DEF ToWorkerPlaced
  <2>1. CASE v = w
    BY <1>1, <1>3, <1>6, <2>1
  <2>2. CASE v # w
    <3>1. \A i \in DOMAIN tw[v] : tw[v][i].task \in Tasks
      BY MessageAt
    <3>2. \A i \in DOMAIN tw[v] : wk[tw[v][i].task] = v => tw[v][i].task # u
      BY WorkerIds
    <3> QED
      BY <1>3, <1>6, <2>2, <3>1, <3>2 DEF Placed, ToWorkerPlaced
  <2> QED
    BY <2>1, <2>2
<1>8. ToPagePlaced(wk2, tp, qu)
  <2>1. \A v \in Workers : \A i \in DOMAIN tp[v] : tp[v][i].task \in Tasks /\ tp[v][i].task # u
    BY MessageAt DEF Placed, ToPagePlaced, Told
  <2> QED
    BY <1>3, <2>1 DEF Placed, ToPagePlaced, Told
<1>9. PostedAsked(wk2, tp, qu)
  <2>1. DOMAIN qu[u] = {}
    OBVIOUS
  <2> QED
    BY <1>3, <2>1 DEF Placed, PostedAsked
<1>10. References(u, w, tw2, tp, qu) = 1
  <2>1. Count(tw2[w], u, {"rows"}) = 0
    <3>1. tw2[w] \in Seq(ToWorker)
      BY <1>1, <1>2, AppendProperties
    <3>2. \A i \in DOMAIN tw2[w] : ~Of(tw2[w][i], u, {"rows"})
      BY <1>1, <1>6 DEF Of
    <3> QED
      BY <3>1, <3>2, PlacesFinite
  <2>2. Count(tp[w], u, Finals) = 0
    BY <1>4, PlacesFinite DEF Typed
  <2>3. Cardinality(Executed(qu[u])) = 0
    <3>1. DOMAIN qu[u] = {} /\ qu[u] \in Seq(QueryStates)
      BY DEF Typed
    <3> QED
      BY <3>1, ExecutedFinite
  <2> QED
    BY <2>1, <2>2, <2>3 DEF References
<1>11. ASSUME NEW v \in Tasks, wk[v] # None
       PROVE  wk2[v] = wk[v] /\ References(v, wk[v], tw2, tp, qu) = References(v, wk[v], tw, tp, qu)
  <2>1. wk[v] \in Workers /\ wk[v] # w
    BY <1>11 DEF Typed
  <2> QED
    BY <1>3, <1>6, <1>11, <2>1 DEF References
<1> QED
  BY <1>7, <1>8, <1>9, <1>10, <1>11 DEF Placed

(* A worker leaves a task that holds no reference: nothing of it is left.  *)
LEMMA TakenBack ==
    ASSUME NEW wk, NEW rf, NEW tw, NEW tp, NEW qu, Typed(wk, rf, tw, tp, qu),
           Placed(wk, tw, tp, qu), NEW t \in Tasks, NEW w \in Workers, wk[t] = w,
           \A v \in Tasks : wk[v] = w => v = t, References(t, w, tw, tp, qu) = 0,
           NEW wk2, NEW tw2, Leaves(t, w, wk, tw, wk2, tw2)
    PROVE  /\ Placed(wk2, tw2, tp, qu)
           /\ script[t] = "ended" /\ \A q \in DOMAIN qu[t] : qu[t][q] \in {"answered", "failed", "floated"}
           /\ \A v \in Tasks : wk2[v] # w
           /\ \A v \in Tasks : v # t =>
                 /\ wk2[v] = wk[v]
                 /\ wk[v] # None =>
                       References(v, wk[v], tw2, tp, qu) = References(v, wk[v], tw, tp, qu)
<1> DEFINE m == Message(t, "cleanup", None)
<1>1. m \in ToWorker /\ m.kind = "cleanup"
  <2>1. None \in Nat /\ "cleanup" \in {"code", "rows", "cleanup"}
    BY DEF None
  <2>2. m \in ToWorker
    BY <2>1, MessageTyped DEF ToWorker
  <2> QED
    BY <2>2 DEF Message
<1> HIDE DEF m
<1>2. tw \in [Workers -> Seq(ToWorker)] /\ tw2 = [tw EXCEPT ![w] = Append(@, m)]
  BY DEF Typed, m, Leaves
<1>3. \A v \in Tasks : wk2[v] = IF v = t THEN None ELSE wk[v]
  BY DEF Typed, Leaves
<1>4. /\ script[t] = "ended"
      /\ \A i \in DOMAIN tw[w] : ~Of(tw[w][i], t, {"rows"})
      /\ \A i \in DOMAIN tp[w] : ~Of(tp[w][i], t, Finals)
      /\ \A q \in DOMAIN qu[t] : qu[t][q] # "running"
  BY ReferencesTyped
<1>5. ASSUME NEW v \in Workers, NEW i \in DOMAIN tp[v], tp[v][i].task = t
      PROVE  tp[v][i].kind = "sql" /\ qu[t][tp[v][i].query] = "floated"
  <2>1. Told(v, i, tp[v], script[t], wk, qu) /\ tp[v][i].kind \in {"sql"} \cup Finals
    BY <1>5, MessageAt DEF Placed, ToPagePlaced
  <2>2. CASE v = w
    BY <1>4, <1>5, <2>1, <2>2 DEF Told, Of
  <2>3. CASE v # w
    BY <1>5, <2>1, <2>3 DEF Told
  <2> QED
    BY <2>2, <2>3
<1>6. \A i \in DOMAIN tw[w] : tw[w][i].kind = "cleanup"
  <2> SUFFICES ASSUME NEW i \in DOMAIN tw[w], tw[w][i].kind # "cleanup" PROVE FALSE
    OBVIOUS
  <2>1. /\ tw[w][i].task \in Tasks /\ tw[w][i].kind \in {"code", "rows"}
    BY MessageAt
  <2>2. wk[tw[w][i].task] = w /\ (tw[w][i].kind = "code" => script[tw[w][i].task] = "none")
    BY <2>1 DEF Placed, ToWorkerPlaced
  <2>3. tw[w][i].task = t
    BY <2>1, <2>2
  <2> QED
    BY <1>4, <2>1, <2>2, <2>3 DEF Of
<1>7. /\ \A v \in Workers : v # w => tw2[v] = tw[v]
      /\ \A i \in DOMAIN tw2[w] : tw2[w][i].kind = "cleanup"
  BY <1>1, <1>2, <1>6, SentAt
<1>8. ToWorkerPlaced(wk2, tw2, qu)
  <2>1. ASSUME NEW v \in Workers, v # w, NEW i \in DOMAIN tw[v], tw[v][i].kind \in {"code", "rows"}
        PROVE  wk2[tw[v][i].task] = wk[tw[v][i].task]
    <3>1. tw[v][i].task \in Tasks /\ wk[tw[v][i].task] = v
      BY <2>1, MessageAt DEF Placed, ToWorkerPlaced
    <3> QED
      BY <1>3, <2>1, <3>1
  <2> QED
    BY <1>7, <2>1 DEF Placed, ToWorkerPlaced
<1>9. ToPagePlaced(wk2, tp, qu)
  <2>1. ASSUME NEW v \in Workers, NEW i \in DOMAIN tp[v]
        PROVE  Told(v, i, tp[v], script[tp[v][i].task], wk2, qu)
    <3>1. tp[v][i].task \in Tasks /\ Told(v, i, tp[v], script[tp[v][i].task], wk, qu)
      BY MessageAt DEF Placed, ToPagePlaced
    <3>2. CASE tp[v][i].task = t
      BY <1>3, <1>5, <3>1, <3>2 DEF Told
    <3>3. CASE tp[v][i].task # t
      BY <1>3, <3>1, <3>3 DEF Told
    <3> QED
      BY <3>2, <3>3
  <2> QED
    BY <2>1 DEF Placed, ToPagePlaced
<1>10. \A q \in DOMAIN qu[t] : qu[t][q] # "posted"
  BY <1>5 DEF Placed, PostedAsked, AskedBy
<1>11. PostedAsked(wk2, tp, qu)
  BY <1>3, <1>10 DEF Placed, PostedAsked
<1>12. \A q \in DOMAIN qu[t] : qu[t][q] \in {"answered", "failed", "floated"}
  <2>1. \A q \in DOMAIN qu[t] : qu[t][q] \in QueryStates
    BY LenProperties DEF Typed
  <2> QED
    BY <1>4, <1>10, <2>1 DEF QueryStates
<1>13. ASSUME NEW v \in Tasks, v # t, wk[v] # None
       PROVE  References(v, wk[v], tw2, tp, qu) = References(v, wk[v], tw, tp, qu)
  <2>1. wk[v] \in Workers /\ wk[v] # w
    BY <1>13 DEF Typed
  <2> QED
    BY <1>7, <2>1 DEF References
<1>14. \A v \in Tasks : wk2[v] # w
  BY <1>3, WorkerIds
<1> QED
  BY <1>3, <1>4, <1>8, <1>9, <1>11, <1>12, <1>13, <1>14 DEF Placed

(* While the scripts stand still, what holds of the new messages holds in  *)
(* the next state.                                                         *)
LEMMA ScriptsStill ==
    ASSUME UNCHANGED script
    PROVE  /\ Placed(worker', toWorker', toPage', query')
                => Placed(worker, toWorker, toPage, query)'
           /\ (\A t \in started' : ExactFor(t, worker', refs', toWorker', toPage', query'))
                => Exact'
<1>1. Placed(worker', toWorker', toPage', query') => Placed(worker, toWorker, toPage, query)'
  BY DEF Placed, ToWorkerPlaced, ToPagePlaced, Told, PostedAsked
<1>2. ASSUME NEW t \in started', ExactFor(t, worker', refs', toWorker', toPage', query')
      PROVE  ExactFor(t, worker, refs, toWorker, toPage, query)'
  BY <1>2 DEF ExactFor, References
<1> QED
  BY <1>1, <1>2 DEF Exact

(* releaseTask, after the messages or the queries of the task lost a       *)
(* reference: the worker goes to the next task or is idle only when        *)
(* nothing else was left.                                                  *)
LEMMA Released ==
    ASSUME IInv, NEW t \in Tasks, Running(t), Release(t), NEW tp, NEW qu,
           Typed(worker, refs, toWorker, tp, qu), Placed(worker, toWorker, tp, qu),
           \A v \in started \ {t} : ExactFor(v, worker, refs, toWorker, tp, qu),
           refs[t] = References(t, worker[t], toWorker, tp, qu) + 1,
           Range(pending) \cap started = {},
           \A v \in Tasks \ started : script[v] = "none" /\ qu[v] = <<>>
    PROVE  /\ Placed(worker', toWorker', tp, qu)
           /\ \A v \in started' : ExactFor(v, worker', refs', toWorker', tp, qu)
           /\ Range(pending') \cap started' = {} /\ started \subseteq started'
<1> DEFINE w == worker[t]
<1>1. /\ w \in Workers /\ worker \in [Tasks -> {None} \cup Workers] /\ refs \in [Tasks -> Nat]
      /\ pending \in Seq(Tasks) /\ started \subseteq Tasks /\ t \in started
      /\ \A v \in Tasks : worker[v] = w => v = t
  <2>1. t \in Active /\ w # None
    BY DEF Active, Running
  <2>2. \A v \in Tasks : worker[v] = w => v \in Active
    BY <2>1 DEF Active, Running
  <2> QED
    BY <2>1, <2>2 DEF IInv, TypeOK, OneOwner, ActiveStarted
<1>w. w = worker[t]
  OBVIOUS
<1> HIDE DEF w
<1>2. References(t, w, toWorker, tp, qu) \in Nat
  BY <1>1, ReferencesTyped
<1>3. CASE refs[t] > 1
  <2>1. /\ refs' = [refs EXCEPT ![t] = @ - 1]
        /\ UNCHANGED <<worker, pending, started, idle, toWorker>>
    BY <1>3 DEF Release
  <2>2. \A v \in started : refs'[v] = IF v = t THEN refs[v] - 1 ELSE refs[v]
    BY <1>1, <2>1
  <2>3. ExactFor(t, worker', refs', toWorker', tp, qu)
    BY <1>1, <1>w, <1>2, <2>1, <2>2, WorkerIds DEF ExactFor
  <2>4. \A v \in started \ {t} : ExactFor(v, worker', refs', toWorker', tp, qu)
    BY <2>1, <2>2 DEF ExactFor
  <2> QED
    BY <2>1, <2>3, <2>4
<1>4. CASE ~(refs[t] > 1)
  <2> DEFINE wk == [worker EXCEPT ![t] = None]
             rf == [refs EXCEPT ![t] = 0]
             tw == [toWorker EXCEPT ![w] = Append(@, Message(t, "cleanup", None))]
  <2>1. References(t, w, toWorker, tp, qu) = 0
    BY <1>1, <1>w, <1>2, <1>4
  <2>a. Leaves(t, w, worker, toWorker, wk, tw)
    BY DEF Leaves
  <2>b. /\ worker[t] = w /\ w \in Workers /\ \A v \in Tasks : worker[v] = w => v = t
        /\ Typed(worker, refs, toWorker, tp, qu) /\ Placed(worker, toWorker, tp, qu)
    BY <1>1, <1>w
  <2> HIDE DEF wk, rf, tw
  <2>2. /\ Placed(wk, tw, tp, qu)
        /\ script[t] = "ended" /\ \A q \in DOMAIN qu[t] : qu[t][q] \in {"answered", "failed", "floated"}
        /\ \A v \in Tasks : wk[v] # w
        /\ \A v \in Tasks : v # t =>
              /\ wk[v] = worker[v]
              /\ worker[v] # None =>
                    References(v, worker[v], tw, tp, qu) = References(v, worker[v], toWorker, tp, qu)
    <3>1. Placed(wk, tw, tp, qu)
      BY <2>1, <2>a, <2>b, TakenBack
    <3> QED
      BY <2>1, <2>a, <2>b, <3>1, TakenBack
  <2>3. wk[t] = None /\ \A v \in Tasks : v # t => rf[v] = refs[v]
    BY <1>1 DEF wk, rf
  <2>4. Typed(wk, rf, tw, tp, qu)
    <3>1. Message(t, "cleanup", None) \in ToWorker
      <4>1. None \in Nat /\ "cleanup" \in {"code", "rows", "cleanup"}
        BY DEF None
      <4> QED
        BY <4>1, MessageTyped DEF ToWorker
    <3>2. tw \in [Workers -> Seq(ToWorker)]
      BY <1>1, <3>1, SentTyped DEF Typed, tw
    <3> QED
      BY <1>1, <3>2 DEF Typed, wk, rf
  <2>5. \A v \in started : ExactFor(v, wk, rf, tw, tp, qu)
    BY <1>1, <2>2, <2>3 DEF ExactFor
  <2>6. CASE pending = <<>>
    <3>1. /\ worker' = wk /\ refs' = rf /\ toWorker' = tw /\ UNCHANGED <<pending, started>>
      BY <1>4, <2>6 DEF Release, wk, rf, tw, w
    <3> QED
      BY <2>2, <2>5, <3>1
  <2>7. CASE pending # <<>>
    <3> DEFINE u == Head(pending)
    <3>1. /\ worker' = [worker EXCEPT ![t] = None, ![u] = w]
          /\ refs' = [refs EXCEPT ![t] = 0, ![u] = 1]
          /\ started' = started \cup {u} /\ pending' = Tail(pending)
          /\ toWorker' = [toWorker EXCEPT ![w] =
                 @ \o <<Message(t, "cleanup", None), Message(u, "code", None)>>]
      BY <1>4, <2>7 DEF Release, w
    <3>2. /\ u \in Tasks /\ u \in Range(pending) /\ Range(pending') = Range(pending) \ {u}
      BY <1>1, <2>7, <3>1, HeadTailTyped, TailOfInjective DEF IInv, PendingOnce
    <3>3. u # t /\ u \notin started
      BY <1>1, <3>2
    <3>4. script[u] = "none" /\ qu[u] = <<>> /\ wk[u] = None
      <4>1. worker[u] = None
        BY <3>2, <3>3 DEF IInv, ActiveStarted, Active, Running
      <4> QED
        BY <2>2, <3>2, <3>3, <4>1
    <3> HIDE DEF u
    <3>5. worker' = [wk EXCEPT ![u] = w] /\ refs' = [rf EXCEPT ![u] = 1]
      BY <3>1 DEF wk, rf
    <3>t. Typed(wk, rf, tw, tp, qu) /\ Placed(wk, tw, tp, qu) /\ \A v \in Tasks : wk[v] # w
      BY <2>2, <2>4
    <3>6. toWorker' = [tw EXCEPT ![w] = Append(@, Message(u, "code", None))]
      <4> DEFINE a == Message(t, "cleanup", None)
                 b == Message(u, "code", None)
                 s == toWorker[w]
      <4>1. a \in ToWorker /\ b \in ToWorker /\ s \in Seq(ToWorker)
        <5>1. None \in Nat /\ {"cleanup", "code"} \subseteq {"code", "rows", "cleanup"}
          BY DEF None
        <5> QED
          BY <1>1, <3>2, <5>1, MessageTyped DEF ToWorker, Typed
      <4> HIDE DEF a, b, s
      <4>2. s \o <<a, b>> = Append(Append(s, a), b)
        BY <4>1
      <4>3. toWorker' = [toWorker EXCEPT ![w] = s \o <<a, b>>] /\ tw = [toWorker EXCEPT ![w] = Append(s, a)]
        BY <3>1 DEF tw, a, b, s
      <4>4. [tw EXCEPT ![w] = Append(@, b)] = [toWorker EXCEPT ![w] = Append(Append(s, a), b)]
        BY <1>1, <4>3 DEF Typed
      <4> QED
        BY <4>2, <4>3, <4>4 DEF b
    <3>g. Gives(u, w, wk, tw, worker', toWorker')
      BY <3>5, <3>6 DEF Gives
    <3>7. /\ Placed(worker', toWorker', tp, qu)
          /\ References(u, w, toWorker', tp, qu) = 1
          /\ \A v \in Tasks : wk[v] # None =>
                worker'[v] = wk[v] /\ References(v, wk[v], toWorker', tp, qu) = References(v, wk[v], tw, tp, qu)
      BY <1>1, <3>2, <3>4, <3>g, <3>t, Assigned
    <3>8. \A v \in Tasks : /\ worker'[v] = IF v = u THEN w ELSE wk[v]
                           /\ refs'[v] = IF v = u THEN 1 ELSE rf[v]
      BY <2>4, <3>2, <3>5 DEF Typed
    <3>9. ExactFor(u, worker', refs', toWorker', tp, qu)
      BY <1>1, <3>2, <3>7, <3>8, WorkerIds DEF ExactFor
    <3>10. ASSUME NEW v \in started PROVE ExactFor(v, worker', refs', toWorker', tp, qu)
      <4>1. v # u /\ v \in Tasks
        BY <1>1, <3>3
      <4>2. ExactFor(v, wk, rf, tw, tp, qu)
        BY <2>5
      <4> QED
        BY <3>7, <3>8, <4>1, <4>2 DEF ExactFor
    <3> QED
      BY <3>1, <3>2, <3>7, <3>9, <3>10
  <2> QED
    BY <2>6, <2>7
<1> QED
  BY <1>3, <1>4

-----------------------------------------------------------------------------
(* The steps of the pool                                                     *)

LEMMA LinksInit == Init => Links
<1> SUFFICES ASSUME Init PROVE Links
  OBVIOUS
<1>1. /\ \A w \in Workers : toWorker[w] = <<>> /\ toPage[w] = <<>>
      /\ \A t \in Tasks : /\ worker[t] = None /\ query[t] = <<>> /\ script[t] = "none"
                          /\ waits[t] = {} /\ slot[t] = None
      /\ started = {} /\ pending = <<>>
  BY DEF Init
<1>2. /\ \A w \in Workers : DOMAIN toWorker[w] = {} /\ DOMAIN toPage[w] = {}
      /\ \A t \in Tasks : DOMAIN query[t] = {}
  BY <1>1
<1>3. Placed(worker, toWorker, toPage, query)
  BY <1>2 DEF Placed, ToWorkerPlaced, ToPagePlaced, Told, PostedAsked
<1>4. Fresh
  BY <1>1 DEF Fresh
<1>5. Exact
  BY <1>1 DEF Exact
<1> QED
  BY <1>3, <1>4, <1>5 DEF Links

linkVars == <<worker, refs, started, toWorker, toPage, query, script, waits, slot>>

(* Nothing that is counted or sent is touched.                             *)
LEMMA StillLinks ==
    ASSUME Links, UNCHANGED linkVars, Range(pending') \cap started = {}
    PROVE  Links'
<1>1. Placed(worker, toWorker, toPage, query)'
  BY ScriptsStill DEF linkVars, Links
<1>2. Fresh'
  BY DEF linkVars, Links, Fresh
<1>3. Exact'
  BY ScriptsStill DEF linkVars, Links, Exact
<1> QED
  BY <1>1, <1>2, <1>3 DEF Links

LEMMA SettingsLinks == ASSUME Links, SettingsChanged PROVE Links'
  BY StillLinks DEF SettingsChanged, linkVars, scriptVars, Links, Fresh

LEMMA RunLaterLinks == ASSUME IInv, Links, NEW t \in Tasks, RunLater(t) PROVE Links'
<1>1. t \notin started /\ UNCHANGED linkVars
  BY DEF RunLater, New, Known, linkVars, scriptVars
<1>2. CASE pending' = pending
  BY <1>1, <1>2, StillLinks DEF Links, Fresh
<1>3. CASE pending' = Append(pending, t)
  <2>1. pending \in Seq(Tasks) /\ t \notin Range(pending) /\ IsInjective(pending)
    BY DEF IInv, TypeOK, PendingOnce, RunLater, New, Known
  <2>2. Range(pending') = Range(pending) \cup {t}
    BY <1>3, <2>1, AppendToInjective
  <2> QED
    BY <1>1, <2>2, StillLinks DEF Links, Fresh
<1> QED
  BY <1>2, <1>3 DEF RunLater

(* An idle worker is terminated with what waits for it.                    *)
LEMMA RemoveIdleLinks == ASSUME IInv, Links, RemoveIdle PROVE Links'
<1> DEFINE h == Head(idle)
<1>1. /\ toWorker' = [toWorker EXCEPT ![h] = <<>>]
      /\ UNCHANGED <<worker, refs, started, toPage, query, script, waits, slot, pending>>
  BY DEF RemoveIdle, scriptVars
<1>2. \A t \in Tasks : worker[t] # None => worker[t] # h
  <2>1. idle # <<>> /\ idle \in Seq(Workers) /\ IsInjective(idle)
    <3>1. Len(idle) > config.min /\ config.min \in Nat
      BY DEF RemoveIdle, IInv, TypeOK, Configs
    <3>2. idle \in Seq(Workers) /\ IsInjective(idle)
      BY DEF IInv, TypeOK, OneOwner
    <3>3. idle = <<>> => Len(idle) = 0
      OBVIOUS
    <3> QED
      BY <3>1, <3>2, <3>3
  <2>2. h \in Range(idle)
    BY <2>1, TailOfInjective
  <2> QED
    BY <2>2 DEF IInv, OneOwner, Active, Running
<1> HIDE DEF h
<1>3. \A w \in Workers : IF w = h THEN DOMAIN toWorker'[w] = {} ELSE toWorker'[w] = toWorker[w]
  BY <1>1 DEF IInv, TypeOK
<1>4. ToWorkerPlaced(worker', toWorker', query')
  BY <1>1, <1>3 DEF Links, Placed, ToWorkerPlaced
<1>5. Placed(worker, toWorker, toPage, query)'
  BY <1>1, <1>4, ScriptsStill DEF Links, Placed
<1>6. ASSUME NEW t \in started PROVE ExactFor(t, worker', refs', toWorker', toPage', query')
  <2>1. ExactFor(t, worker, refs, toWorker, toPage, query) /\ t \in Tasks
    BY DEF Links, Exact, IInv, TypeOK
  <2>2. CASE worker[t] = None
    BY <1>1, <2>1, <2>2 DEF ExactFor
  <2>3. CASE worker[t] # None
    <3>1. worker[t] \in Workers /\ worker[t] # h
      BY <1>2, <2>1, <2>3 DEF IInv, TypeOK
    <3>2. toWorker'[worker[t]] = toWorker[worker[t]]
      BY <1>3, <3>1
    <3> QED
      BY <1>1, <2>1, <2>3, <3>2 DEF ExactFor, References
  <2> QED
    BY <2>2, <2>3
<1>7. Exact'
  BY <1>1, <1>6, ScriptsStill
<1>8. Fresh'
  BY <1>1 DEF Links, Fresh
<1> QED
  BY <1>5, <1>7, <1>8 DEF Links

(* runTask finds a worker that has no task.                                *)
LEMMA AssignLinks ==
    ASSUME IInv, Links, NEW t \in Tasks, NEW w \in Workers, New(t), Assign(t, w),
           \A v \in Tasks : worker[v] # w,
           UNCHANGED <<pending, toPage, query, script, waits, slot>>
    PROVE  Links'
<1>1. /\ worker' = [worker EXCEPT ![t] = w] /\ refs' = [refs EXCEPT ![t] = 1]
      /\ started' = started \cup {t}
      /\ Gives(t, w, worker, toWorker, worker', toWorker')
  BY DEF Assign, Gives
<1>2. /\ t \notin started /\ t \notin Range(pending) /\ worker[t] = None
  BY DEF New, Known, IInv, ActiveStarted, Active, Running
<1>3. script[t] = "none" /\ query[t] = <<>>
  BY <1>2 DEF Links, Fresh
<1>4. Typed(worker, refs, toWorker, toPage, query) /\ Placed(worker, toWorker, toPage, query)
  BY NowTyped DEF Links
<1>5. Placed(worker', toWorker', toPage, query)
  BY <1>1, <1>2, <1>3, <1>4, Assigned
<1>6. /\ References(t, w, toWorker', toPage, query) = 1
      /\ \A v \in Tasks : worker[v] # None =>
            /\ worker'[v] = worker[v]
            /\ References(v, worker[v], toWorker', toPage, query)
                 = References(v, worker[v], toWorker, toPage, query)
  BY <1>1, <1>2, <1>3, <1>4, <1>5, Assigned
<1>7. \A v \in Tasks : /\ worker'[v] = IF v = t THEN w ELSE worker[v]
                       /\ refs'[v] = IF v = t THEN 1 ELSE refs[v]
  BY <1>1, <1>4 DEF Typed
<1>8. ExactFor(t, worker', refs', toWorker', toPage, query)
  BY <1>6, <1>7, WorkerIds DEF ExactFor
<1>9. ASSUME NEW v \in started PROVE ExactFor(v, worker', refs', toWorker', toPage, query)
  <2>1. v # t /\ v \in Tasks /\ ExactFor(v, worker, refs, toWorker, toPage, query)
    BY <1>2 DEF Links, Exact, IInv, TypeOK
  <2> QED
    BY <1>6, <1>7, <2>1 DEF ExactFor
<1>10. Placed(worker, toWorker, toPage, query)' /\ Exact'
  BY <1>1, <1>5, <1>8, <1>9, ScriptsStill
<1>11. Fresh'
  BY <1>1, <1>2 DEF Links, Fresh
<1> QED
  BY <1>10, <1>11 DEF Links

LEMMA RunOnIdleLinks == ASSUME IInv, Links, NEW t \in Tasks, RunOnIdle(t) PROVE Links'
<1> DEFINE w == Head(idle)
<1>1. /\ New(t) /\ idle # <<>> /\ Assign(t, w)
      /\ UNCHANGED <<pending, toPage, query, script, waits, slot>>
  BY DEF RunOnIdle, scriptVars
<1>2. idle \in Seq(Workers) /\ OneOwner
  BY DEF IInv, TypeOK
<1>3. w \in Workers /\ w \in Range(idle)
  BY <1>1, <1>2, HeadTailTyped, TailOfInjective DEF OneOwner
<1> HIDE DEF w
<1>4. \A v \in Tasks : worker[v] # w
  BY <1>2, <1>3, WorkerIds DEF OneOwner, Active, Running
<1> QED
  BY <1>1, <1>3, <1>4, AssignLinks

LEMMA RunOnNewLinks == ASSUME IInv, Links, NEW t \in Tasks, RunOnNew(t) PROVE Links'
<1> DEFINE w == created'
<1>1. /\ New(t) /\ created < MaxWorkers /\ w = created + 1 /\ Assign(t, w)
      /\ UNCHANGED <<pending, toPage, query, script, waits, slot>>
  BY DEF RunOnNew, scriptVars
<1>2. created \in 0..MaxWorkers /\ MaxWorkers \in Nat /\ OneOwner /\ LiveMade
  BY PoolAssumption DEF IInv, TypeOK
<1> HIDE DEF w
<1>3. w \in Workers /\ w \notin live /\ w # None
  BY <1>1, <1>2 DEF Workers, LiveMade, None
<1>4. \A v \in Tasks : worker[v] # w
  BY <1>2, <1>3 DEF OneOwner, Active, Running
<1> QED
  BY <1>1, <1>3, <1>4, AssignLinks

-----------------------------------------------------------------------------
(* The steps of the page                                                     *)

(* The page takes the first message of worker w.                           *)
Takes(w, tp, tp2) == tp[w] # <<>> /\ tp2 = [tp EXCEPT ![w] = Tail(@)]

LEMMA TakenAt ==
    ASSUME NEW M, NEW box \in [Workers -> Seq(M)], NEW w \in Workers, NEW box2, Takes(w, box, box2)
    PROVE  /\ box2 \in [Workers -> Seq(M)]
           /\ \A v \in Workers : v # w => box2[v] = box[v]
           /\ 1 \in DOMAIN box[w] /\ Head(box[w]) = box[w][1]
           /\ \A i \in DOMAIN box2[w] : i \in Nat \ {0} /\ i + 1 \in DOMAIN box[w] /\ box2[w][i] = box[w][i + 1]
           /\ \A i \in DOMAIN box[w] : i \in Nat /\ (i # 1 => i - 1 \in DOMAIN box2[w] /\ box2[w][i - 1] = box[w][i])
<1>1. box[w] \in Seq(M) /\ box[w] # <<>> /\ box2[w] = Tail(box[w])
  BY DEF Takes
<1>2. box2 \in [Workers -> Seq(M)] /\ \A v \in Workers : v # w => box2[v] = box[v]
  BY ReceivedTyped DEF Takes
<1> QED
  BY <1>1, <1>2, TailAt

(* Sequence r has what s has, without a first message.                     *)
Fewer(s, r, t, kinds) ==
    /\ Count(r, t, kinds) \in Nat
    /\ Count(s, t, kinds) = Count(r, t, kinds) + (IF Of(s[1], t, kinds) THEN 1 ELSE 0)

LEMMA TakenCount ==
    ASSUME NEW M, NEW box \in [Workers -> Seq(M)], NEW w \in Workers, NEW box2, Takes(w, box, box2),
           NEW t, NEW kinds
    PROVE  Fewer(box[w], box2[w], t, kinds)
<1>1. box[w] \in Seq(M) /\ box[w] # <<>> /\ box2[w] = Tail(box[w]) /\ Head(box[w]) = box[w][1]
  BY TakenAt DEF Takes
<1>2. Tail(box[w]) \in Seq(M)
  BY <1>1, HeadTailTyped
<1>3. Count(box[w], t, kinds) = Count(Tail(box[w]), t, kinds) + (IF Of(Head(box[w]), t, kinds) THEN 1 ELSE 0)
  BY <1>1, CountTail
<1>4. Count(Tail(box[w]), t, kinds) \in Nat
  BY <1>2, PlacesFinite
<1> QED
  BY <1>1, <1>3, <1>4 DEF Fewer

(* What the first message asked for may change its state, what the others *)
(* asked for does not, and nothing more is posted.                         *)
OthersPosted(w, tp, qu, qu2) ==
    \A v \in Workers : \A i \in DOMAIN tp[v] :
       tp[v][i].kind = "sql" /\ ~(v = w /\ i = 1) =>
          /\ tp[v][i].query \in DOMAIN qu2[tp[v][i].task]
          /\ qu2[tp[v][i].task][tp[v][i].query] = qu[tp[v][i].task][tp[v][i].query]

NoNewPosted(w, tp, qu, qu2) ==
    \A u \in Tasks : \A q \in DOMAIN qu2[u] :
       qu2[u][q] = "posted" =>
          /\ q \in DOMAIN qu[u] /\ qu[u][q] = "posted"
          /\ ~(tp[w][1].kind = "sql" /\ tp[w][1].task = u /\ tp[w][1].query = q)

LEMMA FirstTaken ==
    ASSUME NEW wk, NEW rf, NEW tw, NEW tp, NEW qu, Typed(wk, rf, tw, tp, qu),
           ToPagePlaced(wk, tp, qu), PostedAsked(wk, tp, qu),
           NEW w \in Workers, NEW tp2, Takes(w, tp, tp2), NEW qu2,
           OthersPosted(w, tp, qu, qu2), NoNewPosted(w, tp, qu, qu2)
    PROVE  ToPagePlaced(wk, tp2, qu2) /\ PostedAsked(wk, tp2, qu2)
<1>1. tp \in [Workers -> Seq(ToPage)]
  BY DEF Typed
<1>2. tp2 \in [Workers -> Seq(ToPage)] /\ \A v \in Workers : v # w => tp2[v] = tp[v]
  BY <1>1, TakenAt
<1>3. \A i \in DOMAIN tp2[w] : i \in Nat \ {0} /\ i + 1 \in DOMAIN tp[w] /\ tp2[w][i] = tp[w][i + 1]
  BY <1>1, TakenAt
<1>4. \A i \in DOMAIN tp[w] : i \in Nat /\ (i # 1 => i - 1 \in DOMAIN tp2[w] /\ tp2[w][i - 1] = tp[w][i])
  BY <1>1, TakenAt
<1>5. ToPagePlaced(wk, tp2, qu2)
  <2>1. ASSUME NEW i \in DOMAIN tp2[w]
        PROVE  Told(w, i, tp2[w], script[tp2[w][i].task], wk, qu2)
    <3> DEFINE n == tp[w][i + 1]
    <3>1. i \in Nat \ {0} /\ i + 1 \in DOMAIN tp[w] /\ tp2[w][i] = n /\ i + 1 # 1
      BY <1>3
    <3>2. Told(w, i + 1, tp[w], script[n.task], wk, qu)
      BY <3>1 DEF ToPagePlaced
    <3>3. n.kind = "sql" => n.query \in DOMAIN qu2[n.task] /\ qu2[n.task][n.query] = qu[n.task][n.query]
      BY <3>1 DEF OthersPosted
    <3>4. ASSUME NEW j \in DOMAIN tp[w], j > i + 1
          PROVE  j - 1 \in DOMAIN tp2[w] /\ j - 1 > i /\ tp2[w][j - 1] = tp[w][j]
      BY <1>4, <3>1, <3>4
    <3>5. \A x : (\E j \in DOMAIN tp[w] : j > i + 1 /\ Of(tp[w][j], x, Finals))
                  => \E j \in DOMAIN tp2[w] : j > i /\ Of(tp2[w][j], x, Finals)
      BY <3>4
    <3> QED
      BY <3>1, <3>2, <3>3, <3>5 DEF Told
  <2>2. ASSUME NEW i \in DOMAIN tp2[w], NEW j \in DOMAIN tp2[w],
               tp2[w][i].task = tp2[w][j].task, tp2[w][i].query = tp2[w][j].query,
               tp2[w][i].kind = "sql", tp2[w][j].kind = "sql"
        PROVE  i = j
    <3>1. i + 1 = j + 1
      BY <1>3, <2>2 DEF ToPagePlaced, Told
    <3> QED
      BY <1>3, <3>1
  <2> SUFFICES ASSUME NEW v \in Workers
               PROVE  /\ \A i \in DOMAIN tp2[v] : Told(v, i, tp2[v], script[tp2[v][i].task], wk, qu2)
                      /\ \A i, j \in DOMAIN tp2[v] :
                            /\ tp2[v][i].task = tp2[v][j].task /\ tp2[v][i].query = tp2[v][j].query
                            /\ tp2[v][i].kind = "sql" /\ tp2[v][j].kind = "sql"
                            => i = j
    BY DEF ToPagePlaced, Told
  <2>3. CASE v = w
    BY <2>1, <2>2, <2>3
  <2>4. CASE v # w
    <3>1. tp2[v] = tp[v]
      BY <1>2, <2>4
    <3>2. ASSUME NEW i \in DOMAIN tp[v] PROVE Told(v, i, tp[v], script[tp[v][i].task], wk, qu2)
      <4>1. Told(v, i, tp[v], script[tp[v][i].task], wk, qu)
        BY DEF ToPagePlaced
      <4>2. tp[v][i].kind = "sql" =>
               /\ tp[v][i].query \in DOMAIN qu2[tp[v][i].task]
               /\ qu2[tp[v][i].task][tp[v][i].query] = qu[tp[v][i].task][tp[v][i].query]
        BY <2>4 DEF OthersPosted
      <4> QED
        BY <4>1, <4>2 DEF Told
    <3>3. \A i, j \in DOMAIN tp[v] :
             /\ tp[v][i].task = tp[v][j].task /\ tp[v][i].query = tp[v][j].query
             /\ tp[v][i].kind = "sql" /\ tp[v][j].kind = "sql"
             => i = j
      BY DEF ToPagePlaced
    <3> QED
      BY <3>1, <3>2, <3>3
  <2> QED
    BY <2>3, <2>4
<1>6. PostedAsked(wk, tp2, qu2)
  <2> SUFFICES ASSUME NEW u \in Tasks, NEW q \in DOMAIN qu2[u], qu2[u][q] = "posted"
               PROVE  wk[u] # None /\ AskedBy(tp2[wk[u]], u, q)
    BY DEF PostedAsked
  <2>1. wk[u] # None /\ AskedBy(tp[wk[u]], u, q)
    BY DEF PostedAsked, NoNewPosted
  <2>2. wk[u] \in Workers
    BY <2>1 DEF Typed
  <2>3. CASE wk[u] # w
    BY <1>2, <2>1, <2>2, <2>3
  <2>4. CASE wk[u] = w
    <3>1. PICK i \in DOMAIN tp[w] : tp[w][i].task = u /\ tp[w][i].kind = "sql" /\ tp[w][i].query = q
      BY <2>1, <2>4 DEF AskedBy
    <3>2. i # 1
      BY <3>1 DEF NoNewPosted
    <3>3. i - 1 \in DOMAIN tp2[w] /\ tp2[w][i - 1] = tp[w][i]
      BY <1>4, <3>2
    <3> QED
      BY <2>1, <2>4, <3>1, <3>3 DEF AskedBy
  <2> QED
    BY <2>3, <2>4
<1> QED
  BY <1>5, <1>6

(* A final message holds one reference to its task, another one none.      *)
LEMMA FirstReference ==
    ASSUME NEW wk, NEW rf, NEW tw, NEW tp, NEW qu, Typed(wk, rf, tw, tp, qu),
           NEW w \in Workers, NEW tp2, Takes(w, tp, tp2), NEW t \in Tasks
    PROVE  References(t, w, tw, tp, qu)
             = References(t, w, tw, tp2, qu) + (IF Of(tp[w][1], t, Finals) THEN 1 ELSE 0)
<1> DEFINE a == Count(tw[w], t, {"rows"})
           b == Count(tp2[w], t, Finals)
           c == Cardinality(Executed(qu[t]))
           d == IF script[t] = "ended" THEN 0 ELSE 1
           e == IF Of(tp[w][1], t, Finals) THEN 1 ELSE 0
<1>1. a \in Nat /\ c \in Nat /\ d \in Nat /\ e \in Nat
  BY ReferencesTyped
<1>2. b \in Nat /\ Count(tp[w], t, Finals) = b + e
  <2>1. tp \in [Workers -> Seq(ToPage)]
    BY DEF Typed
  <2>2. Fewer(tp[w], tp2[w], t, Finals)
    BY <2>1, TakenCount
  <2> QED
    BY <2>2 DEF Fewer
<1>3. References(t, w, tw, tp, qu) = d + a + (b + e) + c
  BY <1>2 DEF References
<1>4. References(t, w, tw, tp2, qu) = d + a + b + c
  BY DEF References
<1> HIDE DEF a, b, c, d, e
<1>5. References(t, w, tw, tp, qu) = References(t, w, tw, tp2, qu) + e
  BY <1>1, <1>2, <1>3, <1>4
<1> QED
  BY <1>5 DEF e

(* It is a final message: its task runs on this worker and holds one       *)
(* reference for it.                                                       *)
LEMMA OnFinalLinks == ASSUME IInv, Links, NEW w \in Workers, OnFinal(w) PROVE Links'
<1> DEFINE m == toPage[w][1]
           t == m.task
<1>1. Typed(worker, refs, toWorker, toPage, query) /\ Placed(worker, toWorker, toPage, query)
  BY NowTyped DEF Links
<1>2. toPage \in [Workers -> Seq(ToPage)] /\ Takes(w, toPage, toPage')
  BY <1>1 DEF Typed, OnFinal, Takes
<1>3. /\ toPage' \in [Workers -> Seq(ToPage)]
      /\ \A v \in Workers : v # w => toPage'[v] = toPage[v]
      /\ 1 \in DOMAIN toPage[w] /\ Head(toPage[w]) = m
  BY <1>2, TakenAt
<1>4. m.kind \in Finals /\ Release(t) /\ UNCHANGED <<query, script, waits, slot>>
  BY <1>3 DEF OnFinal, scriptVars
<1>5. t \in Tasks /\ worker[t] = w
  BY <1>1, <1>3, <1>4, MessageAt DEF Placed, ToPagePlaced, Told, Finals
<1>6. m.kind # "sql"
  BY <1>4 DEF Finals
<1> HIDE DEF m
<1>7. ToPagePlaced(worker, toPage', query) /\ PostedAsked(worker, toPage', query)
  <2>1. \A v \in Workers : \A i \in DOMAIN toPage[v] :
           toPage[v][i].kind = "sql" =>
              toPage[v][i].query \in DOMAIN query[toPage[v][i].task]
    BY <1>1 DEF Placed, ToPagePlaced, Told
  <2>2. toPage[w][1].kind # "sql"
    BY <1>6 DEF m
  <2>3. OthersPosted(w, toPage, query, query) /\ NoNewPosted(w, toPage, query, query)
    BY <2>1, <2>2 DEF OthersPosted, NoNewPosted
  <2> QED
    BY <1>1, <1>2, <2>3, FirstTaken DEF Placed
<1>8. Placed(worker, toWorker, toPage', query) /\ Typed(worker, refs, toWorker, toPage', query)
  BY <1>1, <1>3, <1>7 DEF Placed, Typed
<1>9. t \in started /\ started \subseteq Tasks /\ Running(t)
  BY <1>5, WorkerIds DEF IInv, TypeOK, ActiveStarted, Active, Running
<1>10. refs[t] = References(t, worker[t], toWorker, toPage', query) + 1
  <2>1. refs[t] = References(t, worker[t], toWorker, toPage, query)
    BY <1>9 DEF Links, Exact, ExactFor, Running
  <2>2. Of(toPage[w][1], t, Finals)
    BY <1>4 DEF Of, m
  <2>3. References(t, w, toWorker, toPage, query)
          = References(t, w, toWorker, toPage', query)
              + (IF Of(toPage[w][1], t, Finals) THEN 1 ELSE 0)
    BY <1>1, <1>2, <1>5, FirstReference
  <2> QED
    BY <1>5, <2>1, <2>2, <2>3
<1>11. ASSUME NEW v \in started \ {t} PROVE ExactFor(v, worker, refs, toWorker, toPage', query)
  <2>1. ExactFor(v, worker, refs, toWorker, toPage, query) /\ v \in Tasks
    BY <1>9 DEF Links, Exact
  <2>2. CASE worker[v] = None
    BY <2>1, <2>2 DEF ExactFor
  <2>3. CASE worker[v] # None
    <3>1. worker[v] # w /\ worker[v] \in Workers
      BY <1>1, <1>5, <1>9, <2>1, <2>3 DEF IInv, OneOwner, Active, Running, Typed
    <3>2. toPage'[worker[v]] = toPage[worker[v]]
      BY <1>3, <3>1
    <3> QED
      BY <2>1, <2>3, <3>2 DEF ExactFor, References
  <2> QED
    BY <2>2, <2>3
<1>12. /\ Range(pending) \cap started = {}
       /\ \A v \in Tasks \ started : script[v] = "none" /\ query[v] = <<>>
  BY DEF Links, Fresh
<1>13. /\ Placed(worker', toWorker', toPage', query)
       /\ \A v \in started' : ExactFor(v, worker', refs', toWorker', toPage', query)
       /\ Range(pending') \cap started' = {} /\ started \subseteq started'
  BY <1>4, <1>5, <1>8, <1>9, <1>10, <1>11, <1>12, Released
<1>14. Placed(worker, toWorker, toPage, query)' /\ Exact'
  BY <1>4, <1>13, ScriptsStill
<1>15. Fresh'
  BY <1>4, <1>13 DEF Links, Fresh
<1> QED
  BY <1>14, <1>15 DEF Links

(* A query reaches another state.                                          *)
Becomes(t, q, state, qu, qu2) == qu2 = [qu EXCEPT ![t][q] = state]

NowIs(t, q, state, qu, qu2) ==
    /\ qu2 \in [Tasks -> Seq(QueryStates)]
    /\ \A u \in Tasks : DOMAIN qu2[u] = DOMAIN qu[u] /\ (u # t => qu2[u] = qu[u])
    /\ \A r \in DOMAIN qu[t] : qu2[t][r] = IF r = q THEN state ELSE qu[t][r]
    /\ qu2[t] = [qu[t] EXCEPT ![q] = state]

LEMMA BecomesAt ==
    ASSUME NEW qu \in [Tasks -> Seq(QueryStates)], NEW t \in Tasks, NEW q \in DOMAIN qu[t],
           NEW state \in QueryStates, NEW qu2, Becomes(t, q, state, qu, qu2)
    PROVE  NowIs(t, q, state, qu, qu2)
<1>1. qu2[t] = [qu[t] EXCEPT ![q] = state] /\ \A u \in Tasks : u # t => qu2[u] = qu[u]
  BY DEF Becomes
<1>2. qu2 = [qu EXCEPT ![t] = qu2[t]]
  BY <1>1 DEF Becomes
<1>3. qu[t] \in Seq(QueryStates)
  OBVIOUS
<1>4. qu2[t] \in Seq(QueryStates)
  BY <1>1, <1>3, ExceptTyped
<1>5. DOMAIN qu2[t] = DOMAIN qu[t] /\ \A r \in DOMAIN qu[t] : qu2[t][r] = IF r = q THEN state ELSE qu[t][r]
  BY <1>1
<1> QED
  BY <1>1, <1>2, <1>4, <1>5 DEF NowIs

(* Its execution holds a reference.                                        *)
LEMMA StateReference ==
    ASSUME NEW wk, NEW rf, NEW tw, NEW tp, NEW qu, Typed(wk, rf, tw, tp, qu),
           NEW t \in Tasks, NEW w \in Workers, NEW q \in DOMAIN qu[t],
           NEW state \in QueryStates, NEW qu2, Becomes(t, q, state, qu, qu2)
    PROVE  /\ qu[t][q] # "running" /\ state = "running"
                => References(t, w, tw, tp, qu2) = References(t, w, tw, tp, qu) + 1
           /\ qu[t][q] = "running" /\ state # "running"
                => References(t, w, tw, tp, qu) = References(t, w, tw, tp, qu2) + 1
<1> DEFINE a == Count(tw[w], t, {"rows"})
           b == Count(tp[w], t, Finals)
           c == Cardinality(Executed(qu[t]))
           e == Cardinality(Executed(qu2[t]))
           d == IF script[t] = "ended" THEN 0 ELSE 1
<1>1. a \in Nat /\ b \in Nat /\ c \in Nat /\ d \in Nat
  BY ReferencesTyped
<1>2. qu[t] \in Seq(QueryStates) /\ qu2[t] = [qu[t] EXCEPT ![q] = state]
  <2>1. qu \in [Tasks -> Seq(QueryStates)]
    BY DEF Typed
  <2>2. NowIs(t, q, state, qu, qu2)
    BY <2>1, BecomesAt
  <2> QED
    BY <2>1, <2>2 DEF NowIs
<1>3. References(t, w, tw, tp, qu) = d + a + b + c /\ References(t, w, tw, tp, qu2) = d + a + b + e
  BY DEF References
<1>4. CASE qu[t][q] # "running" /\ state = "running"
  <2>1. e = c + 1
    BY <1>2, <1>4, ExecutionStarts
  <2> HIDE DEF a, b, c, d, e
  <2> QED
    BY <1>1, <1>3, <1>4, <2>1
<1>5. CASE qu[t][q] = "running" /\ state # "running"
  <2>1. e = c - 1
    BY <1>2, <1>5, ExecutionEnds
  <2> HIDE DEF a, b, c, d, e
  <2> QED
    BY <1>1, <1>3, <1>5, <2>1
<1> QED
  BY <1>4, <1>5

(* It is a query of code that the script did not wait for, and too late.   *)
LEMMA OnQueryDropped ==
    ASSUME IInv, Links, NEW w \in Workers, OnQuery(w), ~Running(toPage[w][1].task) PROVE Links'
<1> DEFINE m == toPage[w][1]
<1>1. Typed(worker, refs, toWorker, toPage, query) /\ Placed(worker, toWorker, toPage, query)
  BY NowTyped DEF Links
<1>2. toPage \in [Workers -> Seq(ToPage)] /\ Takes(w, toPage, toPage')
  BY <1>1 DEF Typed, OnQuery, Takes
<1>3. /\ \A v \in Workers : v # w => toPage'[v] = toPage[v]
      /\ 1 \in DOMAIN toPage[w] /\ Head(toPage[w]) = m
  BY <1>2, TakenAt
<1>4. /\ m.kind = "sql" /\ worker[m.task] = None
      /\ UNCHANGED <<worker, refs, started, pending, toWorker, script, waits, slot, query>>
  BY <1>3 DEF OnQuery, scriptVars, Running
<1>5. query[m.task][m.query] # "posted"
  <2>1. Told(w, 1, toPage[w], script[m.task], worker, query)
    BY <1>1, <1>3 DEF Placed, ToPagePlaced
  <2> QED
    BY <1>4, <2>1, WorkerIds DEF Told
<1>6. ToPagePlaced(worker, toPage', query) /\ PostedAsked(worker, toPage', query)
  <2>1. OthersPosted(w, toPage, query, query)
    BY <1>1 DEF Placed, ToPagePlaced, Told, OthersPosted
  <2>2. NoNewPosted(w, toPage, query, query)
    BY <1>5 DEF NoNewPosted
  <2> QED
    BY <1>1, <1>2, <2>1, <2>2, FirstTaken DEF Placed
<1>7. Placed(worker', toWorker', toPage', query')
  BY <1>1, <1>4, <1>6 DEF Placed
<1>8. ASSUME NEW v \in started PROVE ExactFor(v, worker', refs', toWorker', toPage', query')
  <2>1. ExactFor(v, worker, refs, toWorker, toPage, query) /\ v \in Tasks
    BY DEF Links, Exact, IInv, TypeOK
  <2>2. CASE worker[v] = None
    BY <1>4, <2>1, <2>2 DEF ExactFor
  <2>3. CASE worker[v] # None
    <3>1. worker[v] \in Workers
      BY <1>1, <2>1, <2>3 DEF Typed
    <3>2. References(v, worker[v], toWorker, toPage, query)
            = References(v, worker[v], toWorker, toPage', query)
      <4>1. CASE worker[v] # w
        BY <1>3, <3>1, <4>1 DEF References
      <4>2. CASE worker[v] = w
        <5>1. ~Of(toPage[w][1], v, Finals)
          BY <1>4 DEF Of, Finals
        <5>2. References(v, w, toWorker, toPage, query)
                = References(v, w, toWorker, toPage', query)
                    + (IF Of(toPage[w][1], v, Finals) THEN 1 ELSE 0)
          BY <1>1, <1>2, <2>1, FirstReference
        <5>3. toPage' \in [Workers -> Seq(ToPage)]
          BY <1>2, TakenAt
        <5>4. Typed(worker, refs, toWorker, toPage', query)
          BY <1>1, <5>3 DEF Typed
        <5>5. References(v, w, toWorker, toPage', query) \in Nat
          BY <2>1, <5>4, ReferencesTyped
        <5> QED
          BY <4>2, <5>1, <5>2, <5>5
      <4> QED
        BY <4>1, <4>2
    <3> QED
      BY <1>4, <2>1, <2>3, <3>2 DEF ExactFor
  <2> QED
    BY <2>2, <2>3
<1>9. Placed(worker, toWorker, toPage, query)' /\ Exact'
  BY <1>4, <1>7, <1>8, ScriptsStill
<1>10. Fresh'
  BY <1>4 DEF Links, Fresh
<1> QED
  BY <1>9, <1>10 DEF Links

(* It is a query, which is executed from now on.                           *)
LEMMA OnQueryRuns ==
    ASSUME IInv, Links, NEW w \in Workers, OnQuery(w), Running(toPage[w][1].task) PROVE Links'
<1> DEFINE m == toPage[w][1]
           t == m.task
           q == m.query
<1>1. Typed(worker, refs, toWorker, toPage, query) /\ Placed(worker, toWorker, toPage, query)
  BY NowTyped DEF Links
<1>2. toPage \in [Workers -> Seq(ToPage)] /\ Takes(w, toPage, toPage')
  BY <1>1 DEF Typed, OnQuery, Takes
<1>3. /\ toPage' \in [Workers -> Seq(ToPage)]
      /\ \A v \in Workers : v # w => toPage'[v] = toPage[v]
      /\ 1 \in DOMAIN toPage[w] /\ Head(toPage[w]) = m
  BY <1>2, TakenAt
<1>4. m.kind = "sql"
  BY <1>3 DEF OnQuery
<1>5. /\ t \in Tasks /\ worker[t] = w /\ q \in DOMAIN query[t]
      /\ query[t][q] \in {"posted", "floated"}
  BY <1>1, <1>3, <1>4, MessageAt DEF Placed, ToPagePlaced, Told, Running
<1>6. Running(t)
  OBVIOUS
<1>7. /\ refs' = [refs EXCEPT ![t] = @ + 1] /\ Becomes(t, q, "running", query, query')
      /\ UNCHANGED <<worker, started, pending, toWorker, script, waits, slot>>
  BY <1>3, <1>6 DEF OnQuery, Becomes, scriptVars
<1>m. m = toPage[w][1] /\ t = m.task /\ q = m.query
  OBVIOUS
<1> HIDE DEF m, t, q
<1>8. /\ \A u \in Tasks : DOMAIN query'[u] = DOMAIN query[u] /\ (u # t => query'[u] = query[u])
      /\ \A r \in DOMAIN query[t] : query'[t][r] = IF r = q THEN "running" ELSE query[t][r]
      /\ query' \in [Tasks -> Seq(QueryStates)]
  <2>1. query \in [Tasks -> Seq(QueryStates)] /\ "running" \in QueryStates
    BY <1>1 DEF Typed, QueryStates
  <2>2. NowIs(t, q, "running", query, query')
    BY <1>5, <1>7, <2>1, BecomesAt
  <2> QED
    BY <2>2 DEF NowIs
<1>9. ToPagePlaced(worker, toPage', query') /\ PostedAsked(worker, toPage', query')
  <2>1. ASSUME NEW v \in Workers, NEW i \in DOMAIN toPage[v], toPage[v][i].kind = "sql",
               ~(v = w /\ i = 1)
        PROVE  /\ toPage[v][i].query \in DOMAIN query'[toPage[v][i].task]
               /\ query'[toPage[v][i].task][toPage[v][i].query]
                    = query[toPage[v][i].task][toPage[v][i].query]
    <3> DEFINE n == toPage[v][i]
    <3>1. /\ n.task \in Tasks /\ n.query \in DOMAIN query[n.task]
          /\ worker[n.task] \in {None, v}
      BY <1>1, <2>1, MessageAt DEF Placed, ToPagePlaced, Told
    <3>2. ~(n.task = t /\ n.query = q)
      <4>1. CASE v # w
        BY <1>5, <3>1, <4>1, WorkerIds
      <4>2. CASE v = w
        BY <1>1, <1>3, <1>4, <1>m, <2>1, <4>2 DEF Placed, ToPagePlaced
      <4> QED
        BY <4>1, <4>2
    <3> HIDE DEF n
    <3>3. n.query \in DOMAIN query'[n.task] /\ query'[n.task][n.query] = query[n.task][n.query]
      BY <1>8, <3>1, <3>2
    <3> QED
      BY <3>3 DEF n
  <2>2. ASSUME NEW u \in Tasks, NEW r \in DOMAIN query'[u], query'[u][r] = "posted"
        PROVE  /\ r \in DOMAIN query[u] /\ query[u][r] = "posted"
               /\ ~(toPage[w][1].kind = "sql" /\ toPage[w][1].task = u /\ toPage[w][1].query = r)
    BY <1>5, <1>8, <1>m, <2>2
  <2>3. ToPagePlaced(worker, toPage, query) /\ PostedAsked(worker, toPage, query)
    BY <1>1 DEF Placed
  <2> QED
    <3>1. OthersPosted(w, toPage, query, query')
      BY <2>1 DEF OthersPosted
    <3>2. NoNewPosted(w, toPage, query, query')
      BY <2>2 DEF NoNewPosted
    <3> QED
      BY <1>1, <1>2, <2>3, <3>1, <3>2, FirstTaken
<1>10. ToWorkerPlaced(worker, toWorker, query')
  <2>1. ASSUME NEW v \in Workers, NEW i \in DOMAIN toWorker[v], toWorker[v][i].kind = "rows"
        PROVE  /\ toWorker[v][i].query \in DOMAIN query'[toWorker[v][i].task]
               /\ query'[toWorker[v][i].task][toWorker[v][i].query] = "answered"
    <3> DEFINE n == toWorker[v][i]
    <3>1. /\ n.task \in Tasks
          /\ n.query \in DOMAIN query[n.task] /\ query[n.task][n.query] = "answered"
      BY <1>1, <2>1, MessageAt DEF Placed, ToWorkerPlaced
    <3> HIDE DEF n
    <3>2. n.query \in DOMAIN query'[n.task] /\ query'[n.task][n.query] = "answered"
      BY <1>5, <1>8, <3>1
    <3> QED
      BY <3>2 DEF n
  <2> QED
    BY <1>1, <2>1 DEF Placed, ToWorkerPlaced
<1>11. Placed(worker, toWorker, toPage, query)'
  BY <1>7, <1>9, <1>10, ScriptsStill DEF Placed
<1>12. ASSUME NEW v \in started PROVE ExactFor(v, worker', refs', toWorker', toPage', query')
  <2>1. ExactFor(v, worker, refs, toWorker, toPage, query) /\ v \in Tasks
    BY DEF Links, Exact, IInv, TypeOK
  <2>2. CASE v = t
    <3>1. refs[t] = References(t, w, toWorker, toPage, query)
      BY <1>5, <1>6, <2>1, <2>2 DEF ExactFor, Running
    <3>2. References(t, w, toWorker, toPage, query) = References(t, w, toWorker, toPage', query)
      <4>1. ~Of(toPage[w][1], t, Finals)
        BY <1>4 DEF Of, Finals, m
      <4>2. References(t, w, toWorker, toPage, query)
              = References(t, w, toWorker, toPage', query)
                  + (IF Of(toPage[w][1], t, Finals) THEN 1 ELSE 0)
        BY <1>1, <1>2, <1>5, FirstReference
      <4>3. Typed(worker, refs, toWorker, toPage', query)
        BY <1>1, <1>3 DEF Typed
      <4>4. References(t, w, toWorker, toPage', query) \in Nat
        BY <1>5, <4>3, ReferencesTyped
      <4> QED
        BY <4>1, <4>2, <4>4
    <3>3. References(t, w, toWorker, toPage', query') = References(t, w, toWorker, toPage', query) + 1
      <4>1. Typed(worker, refs, toWorker, toPage', query) /\ "running" \in QueryStates
        BY <1>1, <1>3 DEF Typed, QueryStates
      <4>2. query[t][q] # "running"
        BY <1>5
      <4> QED
        BY <1>5, <1>7, <4>1, <4>2, StateReference
    <3>4. refs'[t] = refs[t] + 1
      BY <1>1, <1>5, <1>7 DEF Typed
    <3> QED
      BY <1>5, <1>7, <2>2, <3>1, <3>2, <3>3, <3>4, WorkerIds DEF ExactFor
  <2>3. CASE v # t
    <3>1. refs'[v] = refs[v] /\ query'[v] = query[v]
      BY <1>1, <1>7, <1>8, <2>1, <2>3 DEF Typed
    <3>2. CASE worker[v] = None
      BY <1>7, <2>1, <3>1, <3>2 DEF ExactFor
    <3>3. CASE worker[v] # None
      <4>1. worker[v] # w /\ worker[v] \in Workers
        BY <1>1, <1>5, <1>6, <2>1, <2>3, <3>3 DEF IInv, OneOwner, Active, Running, Typed
      <4>2. toPage'[worker[v]] = toPage[worker[v]]
        BY <1>3, <4>1
      <4> QED
        BY <1>7, <2>1, <3>1, <3>3, <4>2 DEF ExactFor, References
    <3> QED
      BY <3>2, <3>3
  <2> QED
    BY <2>2, <2>3
<1>13. Exact'
  BY <1>7, <1>12, ScriptsStill
<1>14. Fresh'
  <2>1. script[t] # "none"
    BY <1>5 DEF Links, Fresh
  <2> QED
    BY <1>7, <1>8, <2>1 DEF Links, Fresh
<1> QED
  BY <1>11, <1>13, <1>14 DEF Links

LEMMA OnQueryLinks == ASSUME IInv, Links, NEW w \in Workers, OnQuery(w) PROVE Links'
  BY OnQueryDropped, OnQueryRuns

-----------------------------------------------------------------------------
(* A query ends                                                              *)

LEMMA EndedPlaced ==
    ASSUME NEW wk, NEW rf, NEW tw, NEW tp, NEW qu, Typed(wk, rf, tw, tp, qu),
           Placed(wk, tw, tp, qu), NEW t \in Tasks, NEW q \in DOMAIN qu[t], qu[t][q] = "running",
           NEW state \in {"answered", "failed"}, NEW qu2, NowIs(t, q, state, qu, qu2)
    PROVE  Placed(wk, tw, tp, qu2)
<1>1. \A u \in Tasks : /\ DOMAIN qu2[u] = DOMAIN qu[u]
                       /\ \A r \in DOMAIN qu[u] :
                             /\ qu[u][r] \in {"answered", "posted", "floated"} => qu2[u][r] = qu[u][r]
                             /\ qu2[u][r] = "posted" => qu[u][r] = "posted"
  BY DEF NowIs
<1>2. ToWorkerPlaced(wk, tw, qu2)
  <2>1. ASSUME NEW v \in Workers, NEW i \in DOMAIN tw[v], tw[v][i].kind = "rows"
        PROVE  /\ tw[v][i].query \in DOMAIN qu2[tw[v][i].task]
               /\ qu2[tw[v][i].task][tw[v][i].query] = "answered"
    BY <1>1, <2>1, MessageAt DEF Placed, ToWorkerPlaced
  <2> QED
    BY <2>1 DEF Placed, ToWorkerPlaced
<1>3. ToPagePlaced(wk, tp, qu2)
  <2>1. ASSUME NEW v \in Workers, NEW i \in DOMAIN tp[v], tp[v][i].kind = "sql"
        PROVE  /\ tp[v][i].query \in DOMAIN qu2[tp[v][i].task]
               /\ qu2[tp[v][i].task][tp[v][i].query] = qu[tp[v][i].task][tp[v][i].query]
    BY <1>1, <2>1, MessageAt DEF Placed, ToPagePlaced, Told
  <2> QED
    BY <2>1 DEF Placed, ToPagePlaced, Told
<1>4. PostedAsked(wk, tp, qu2)
  BY <1>1 DEF Placed, PostedAsked
<1> QED
  BY <1>2, <1>3, <1>4 DEF Placed

(* The worker of the task gets the rows.                                   *)
Answers(t, q, w, tw, tw2) == tw2 = [tw EXCEPT ![w] = Append(@, Message(t, "rows", q))]

LEMMA RowsPlaced ==
    ASSUME NEW wk, NEW rf, NEW tw, NEW tp, NEW qu, Typed(wk, rf, tw, tp, qu),
           Placed(wk, tw, tp, qu), NEW t \in Tasks, NEW w \in Workers, wk[t] = w,
           script[t] # "none", NEW q \in DOMAIN qu[t], qu[t][q] = "answered",
           \A i \in DOMAIN tw[w] : ~(tw[w][i].kind = "rows" /\ tw[w][i].task = t /\ tw[w][i].query = q),
           NEW tw2, Answers(t, q, w, tw, tw2)
    PROVE  /\ Placed(wk, tw2, tp, qu)
           /\ References(t, w, tw2, tp, qu) = References(t, w, tw, tp, qu) + 1
           /\ \A v \in Workers : v # w => tw2[v] = tw[v]
<1> DEFINE m == Message(t, "rows", q)
<1>1. /\ m \in ToWorker /\ m.task = t /\ m.kind = "rows" /\ m.query = q
      /\ Of(m, t, {"rows"})
  <2>1. q \in Nat /\ "rows" \in {"code", "rows", "cleanup"}
    BY LenProperties DEF Typed
  <2>2. m \in ToWorker
    BY <2>1, MessageTyped DEF ToWorker
  <2> QED
    BY <2>2 DEF Message, Of
<1> HIDE DEF m
<1>2. tw \in [Workers -> Seq(ToWorker)] /\ tw2 = [tw EXCEPT ![w] = Append(@, m)]
  BY DEF Typed, m, Answers
<1>3. /\ \A v \in Workers : v # w => tw2[v] = tw[v]
      /\ tw2[w] = Append(tw[w], m)
      /\ \A i \in DOMAIN tw[w] : tw2[w][i] = tw[w][i] /\ i # Len(tw[w]) + 1
      /\ \A i \in DOMAIN tw2[w] : i \in DOMAIN tw[w] \/ (i = Len(tw[w]) + 1 /\ tw2[w][i] = m)
  BY <1>1, <1>2, SentAt
<1>4. ToWorkerPlaced(wk, tw2, qu)
  <2> SUFFICES ASSUME NEW v \in Workers
               PROVE  /\ \A i \in DOMAIN tw2[v] :
                            LET n == tw2[v][i] IN
                            /\ n.kind = "code" => wk[n.task] = v /\ script[n.task] = "none" /\ n.query = None
                            /\ n.kind = "rows" => /\ wk[n.task] = v /\ script[n.task] # "none"
                                                  /\ n.query \in DOMAIN qu[n.task]
                                                  /\ qu[n.task][n.query] = "answered"
                      /\ \A i, j \in DOMAIN tw2[v] :
                            /\ tw2[v][i].task = tw2[v][j].task /\ tw2[v][i].query = tw2[v][j].query
                            /\ tw2[v][i].kind = tw2[v][j].kind /\ tw2[v][i].kind # "cleanup"
                            => i = j
    BY DEF ToWorkerPlaced
  <2>1. CASE v = w
    <3>1. ASSUME NEW i \in DOMAIN tw2[w]
          PROVE  LET n == tw2[w][i] IN
                 /\ n.kind = "code" => wk[n.task] = w /\ script[n.task] = "none" /\ n.query = None
                 /\ n.kind = "rows" => /\ wk[n.task] = w /\ script[n.task] # "none"
                                       /\ n.query \in DOMAIN qu[n.task]
                                       /\ qu[n.task][n.query] = "answered"
      <4>1. CASE i \in DOMAIN tw[w]
        BY <1>3, <4>1 DEF Placed, ToWorkerPlaced
      <4>2. CASE tw2[w][i] = m
        BY <1>1, <4>2
      <4> QED
        BY <1>3, <4>1, <4>2
    <3>2. ASSUME NEW i \in DOMAIN tw2[w], NEW j \in DOMAIN tw2[w],
                 tw2[w][i].task = tw2[w][j].task, tw2[w][i].query = tw2[w][j].query,
                 tw2[w][i].kind = tw2[w][j].kind, tw2[w][i].kind # "cleanup"
          PROVE  i = j
      <4>1. CASE i \in DOMAIN tw[w] /\ j \in DOMAIN tw[w]
        BY <1>3, <3>2, <4>1 DEF Placed, ToWorkerPlaced
      <4>2. CASE i \notin DOMAIN tw[w] \/ j \notin DOMAIN tw[w]
        BY <1>1, <1>3, <3>2, <4>2
      <4> QED
        BY <4>1, <4>2
    <3> QED
      BY <2>1, <3>1, <3>2
  <2>2. CASE v # w
    BY <1>3, <2>2 DEF Placed, ToWorkerPlaced
  <2> QED
    BY <2>1, <2>2
<1>5. References(t, w, tw2, tp, qu) = References(t, w, tw, tp, qu) + 1
  <2> DEFINE a == Count(tw[w], t, {"rows"})
             b == Count(tp[w], t, Finals)
             c == Cardinality(Executed(qu[t]))
             d == IF script[t] = "ended" THEN 0 ELSE 1
             e == Count(tw2[w], t, {"rows"})
  <2>1. a \in Nat /\ b \in Nat /\ c \in Nat /\ d \in Nat
    BY ReferencesTyped
  <2>2. e = a + 1
    <3>1. tw[w] \in Seq(ToWorker)
      BY <1>2
    <3>2. Count(Append(tw[w], m), t, {"rows"})
            = Count(tw[w], t, {"rows"}) + (IF Of(m, t, {"rows"}) THEN 1 ELSE 0)
      BY <1>1, <3>1, CountAppend
    <3> QED
      BY <1>1, <1>3, <3>2
  <2>3. References(t, w, tw, tp, qu) = d + a + b + c /\ References(t, w, tw2, tp, qu) = d + e + b + c
    BY DEF References
  <2> HIDE DEF a, b, c, d, e
  <2> QED
    BY <2>1, <2>2, <2>3
<1> QED
  BY <1>3, <1>4, <1>5 DEF Placed

(* A query is executed for a task that has a worker.                       *)
LEMMA ExecutedRuns ==
    ASSUME IInv, Links, NEW t \in Tasks, NEW q \in DOMAIN query[t], query[t][q] = "running"
    PROVE  /\ Running(t) /\ t \in started /\ script[t] # "none"
           /\ worker[t] \in Workers /\ \A v \in Tasks \ {t} : worker[v] # worker[t]
<1>1. script[t] # "none" /\ t \in started
  BY DEF Links, Fresh
<1>2. ExactFor(t, worker, refs, toWorker, toPage, query)
  BY <1>1 DEF Links, Exact
<1>3. Running(t) /\ worker[t] \in Workers
  BY <1>2 DEF ExactFor, Running, IInv, TypeOK
<1>4. \A v \in Tasks \ {t} : worker[v] # worker[t]
  BY <1>3 DEF IInv, OneOwner, Active, Running
<1> QED
  BY <1>1, <1>3, <1>4

(* The state of one query concerns no other task.                          *)
LEMMA OthersExact ==
    ASSUME IInv, Links, NEW t \in Tasks, NEW w \in Workers, worker[t] = w,
           \A v \in Tasks \ {t} : worker[v] # w, NEW q, NEW state, NEW tw, NEW qu,
           \A v \in Workers : v # w => tw[v] = toWorker[v], NowIs(t, q, state, query, qu)
    PROVE  \A v \in started \ {t} : ExactFor(v, worker, refs, tw, toPage, qu)
<1> SUFFICES ASSUME NEW v \in started \ {t} PROVE ExactFor(v, worker, refs, tw, toPage, qu)
  OBVIOUS
<1>1. v \in Tasks /\ qu[v] = query[v] /\ ExactFor(v, worker, refs, toWorker, toPage, query)
  BY DEF Links, Exact, IInv, TypeOK, NowIs
<1>2. CASE worker[v] = None
  BY <1>1, <1>2 DEF ExactFor
<1>3. CASE worker[v] # None
  <2>1. worker[v] \in Workers /\ worker[v] # w
    BY <1>1, <1>3 DEF IInv, TypeOK
  <2>2. tw[worker[v]] = toWorker[worker[v]]
    BY <2>1
  <2> QED
    BY <1>1, <1>3, <2>2 DEF ExactFor, References
<1> QED
  BY <1>2, <1>3

LEMMA AnswerLinks ==
    ASSUME IInv, Links, NEW t \in Tasks, NEW q \in 1..Used(t), Answer(t, q) PROVE Links'
<1> DEFINE w == worker[t]
<1>1. Typed(worker, refs, toWorker, toPage, query) /\ Placed(worker, toWorker, toPage, query)
  BY NowTyped DEF Links
<1>2. q \in DOMAIN query[t] /\ query[t][q] = "running"
  <2>1. query[t] \in Seq(QueryStates)
    BY <1>1 DEF Typed
  <2> QED
    BY <2>1, LenProperties DEF Answer, Used
<1>3. /\ Running(t) /\ t \in started /\ script[t] # "none"
      /\ w \in Workers /\ \A v \in Tasks \ {t} : worker[v] # w
  BY <1>2, ExecutedRuns
<1>w. w = worker[t]
  OBVIOUS
<1>4. /\ Becomes(t, q, "answered", query, query') /\ Answers(t, q, w, toWorker, toWorker')
      /\ UNCHANGED <<worker, refs, started, pending, toPage, script, waits, slot>>
  BY <1>3 DEF Answer, Becomes, Answers, poolVars, scriptVars
<1> HIDE DEF w
<1>5. NowIs(t, q, "answered", query, query')
  <2>1. query \in [Tasks -> Seq(QueryStates)] /\ "answered" \in QueryStates
    BY <1>1 DEF Typed, QueryStates
  <2> QED
    BY <1>2, <1>4, <2>1, BecomesAt
<1>6. Placed(worker, toWorker, toPage, query') /\ Typed(worker, refs, toWorker, toPage, query')
  <2>1. Placed(worker, toWorker, toPage, query')
    BY <1>1, <1>2, <1>5, EndedPlaced
  <2> QED
    BY <1>1, <1>5, <2>1 DEF Typed, NowIs
<1>7. /\ q \in DOMAIN query'[t] /\ query'[t][q] = "answered"
      /\ \A i \in DOMAIN toWorker[w] :
            ~(toWorker[w][i].kind = "rows" /\ toWorker[w][i].task = t /\ toWorker[w][i].query = q)
  BY <1>1, <1>2, <1>3, <1>5 DEF NowIs, Placed, ToWorkerPlaced
<1>8. Placed(worker, toWorker', toPage, query')
  BY <1>3, <1>4, <1>6, <1>7, <1>w, RowsPlaced
<1>9. /\ References(t, w, toWorker', toPage, query') = References(t, w, toWorker, toPage, query') + 1
      /\ \A v \in Workers : v # w => toWorker'[v] = toWorker[v]
  BY <1>3, <1>4, <1>6, <1>7, <1>8, <1>w, RowsPlaced
<1>10. ExactFor(t, worker, refs, toWorker', toPage, query')
  <2>1. refs[t] = References(t, w, toWorker, toPage, query)
    BY <1>3, <1>w DEF Links, Exact, ExactFor, Running
  <2>2. References(t, w, toWorker, toPage, query) = References(t, w, toWorker, toPage, query') + 1
    <3>1. "answered" \in QueryStates /\ "answered" # "running"
      BY DEF QueryStates
    <3> QED
      BY <1>1, <1>2, <1>3, <1>4, <3>1, StateReference
  <2> QED
    BY <1>3, <1>9, <1>w, <2>1, <2>2 DEF ExactFor, Running
<1>11. \A v \in started \ {t} : ExactFor(v, worker, refs, toWorker', toPage, query')
  BY <1>3, <1>5, <1>9, <1>w, OthersExact
<1>12. Placed(worker, toWorker, toPage, query)' /\ Exact'
  <2>1. \A v \in started' : ExactFor(v, worker', refs', toWorker', toPage', query')
    BY <1>4, <1>10, <1>11
  <2>2. Placed(worker', toWorker', toPage', query')
    BY <1>4, <1>8
  <2> QED
    BY <1>4, <2>1, <2>2, ScriptsStill
<1>13. Fresh'
  BY <1>3, <1>4, <1>5 DEF Links, Fresh, NowIs
<1> QED
  BY <1>12, <1>13 DEF Links

LEMMA FailQueryLinks ==
    ASSUME IInv, Links, NEW t \in Tasks, NEW q \in 1..Used(t), FailQuery(t, q) PROVE Links'
<1> DEFINE w == worker[t]
<1>1. Typed(worker, refs, toWorker, toPage, query) /\ Placed(worker, toWorker, toPage, query)
  BY NowTyped DEF Links
<1>2. q \in DOMAIN query[t] /\ query[t][q] = "running"
  <2>1. query[t] \in Seq(QueryStates)
    BY <1>1 DEF Typed
  <2> QED
    BY <2>1, LenProperties DEF FailQuery, Used
<1>3. /\ Running(t) /\ t \in started /\ script[t] # "none"
      /\ w \in Workers /\ \A v \in Tasks \ {t} : worker[v] # w
  BY <1>2, ExecutedRuns
<1>w. w = worker[t]
  OBVIOUS
<1>4. /\ Becomes(t, q, "failed", query, query') /\ Release(t)
      /\ UNCHANGED <<toPage, script, waits, slot>>
  BY DEF FailQuery, Becomes, scriptVars
<1> HIDE DEF w
<1>5. NowIs(t, q, "failed", query, query')
  <2>1. query \in [Tasks -> Seq(QueryStates)] /\ "failed" \in QueryStates
    BY <1>1 DEF Typed, QueryStates
  <2> QED
    BY <1>2, <1>4, <2>1, BecomesAt
<1>6. Placed(worker, toWorker, toPage, query') /\ Typed(worker, refs, toWorker, toPage, query')
  <2>1. Placed(worker, toWorker, toPage, query')
    BY <1>1, <1>2, <1>5, EndedPlaced
  <2> QED
    BY <1>1, <1>5, <2>1 DEF Typed, NowIs
<1>7. refs[t] = References(t, worker[t], toWorker, toPage, query') + 1
  <2>1. refs[t] = References(t, w, toWorker, toPage, query)
    BY <1>3, <1>w DEF Links, Exact, ExactFor, Running
  <2>2. References(t, w, toWorker, toPage, query) = References(t, w, toWorker, toPage, query') + 1
    <3>1. "failed" \in QueryStates /\ "failed" # "running"
      BY DEF QueryStates
    <3> QED
      BY <1>1, <1>2, <1>3, <1>4, <3>1, StateReference
  <2> QED
    BY <1>w, <2>1, <2>2
<1>8. \A v \in started \ {t} : ExactFor(v, worker, refs, toWorker, toPage, query')
  BY <1>3, <1>5, <1>w, OthersExact
<1>9. /\ Range(pending) \cap started = {}
      /\ \A v \in Tasks \ started : script[v] = "none" /\ query'[v] = <<>>
  BY <1>3, <1>5 DEF Links, Fresh, NowIs
<1>10. /\ Placed(worker', toWorker', toPage, query')
       /\ \A v \in started' : ExactFor(v, worker', refs', toWorker', toPage, query')
       /\ Range(pending') \cap started' = {} /\ started \subseteq started'
  BY <1>3, <1>4, <1>6, <1>7, <1>8, <1>9, Released
<1>11. Placed(worker, toWorker, toPage, query)' /\ Exact'
  <2>1. \A v \in started' : ExactFor(v, worker', refs', toWorker', toPage', query')
    BY <1>4, <1>10
  <2>2. Placed(worker', toWorker', toPage', query')
    BY <1>4, <1>10
  <2> QED
    BY <1>4, <2>1, <2>2, ScriptsStill
<1>12. Fresh'
  BY <1>3, <1>4, <1>5, <1>10 DEF Links, Fresh, NowIs
<1> QED
  BY <1>11, <1>12 DEF Links

-----------------------------------------------------------------------------
(* The steps of a worker                                                     *)

(* It sends messages u to the page.                                        *)
Said(w, box, u, box2) ==
    /\ \A v \in Workers : v # w => box2[v] = box[v]
    /\ Len(box[w]) \in Nat
    /\ \A i \in DOMAIN box[w] : /\ i \in Nat /\ i <= Len(box[w])
                                /\ i \in DOMAIN box2[w] /\ box2[w][i] = box[w][i]
    /\ \A i \in DOMAIN u : /\ i \in Nat /\ i > 0
                           /\ Len(box[w]) + i \in DOMAIN box2[w] /\ box2[w][Len(box[w]) + i] = u[i]
    /\ \A i \in DOMAIN box2[w] :
          \/ i \in DOMAIN box[w]
          \/ i \in Nat /\ i - Len(box[w]) \in DOMAIN u /\ box2[w][i] = u[i - Len(box[w])]

LEMMA SaidAt ==
    ASSUME NEW M, NEW box \in [Workers -> Seq(M)], NEW w \in Workers, NEW u \in Seq(M), NEW box2,
           box2 = [box EXCEPT ![w] = @ \o u]
    PROVE  Said(w, box, u, box2)
<1> DEFINE s == box[w]
<1>1. s \in Seq(M) /\ box2[w] = s \o u /\ \A v \in Workers : v # w => box2[v] = box[v]
  OBVIOUS
<1> HIDE DEF s
<1>2. /\ s \o u \in Seq(M) /\ Len(s) \in Nat /\ Len(u) \in Nat
      /\ DOMAIN s = 1..Len(s) /\ DOMAIN u = 1..Len(u)
      /\ DOMAIN (s \o u) = 1 .. Len(s) + Len(u)
      /\ \A i \in DOMAIN s : i \in DOMAIN (s \o u) /\ (s \o u)[i] = s[i]
      /\ \A i \in DOMAIN u : Len(s) + i \in DOMAIN (s \o u) /\ (s \o u)[Len(s) + i] = u[i]
      /\ \A i \in DOMAIN (s \o u) : i \in DOMAIN s \/ (i > Len(s) /\ i - Len(s) \in DOMAIN u)
  BY <1>1, ConcatAt
<1>3. ASSUME NEW i \in DOMAIN (s \o u), i \notin DOMAIN s
      PROVE  i \in Nat /\ i - Len(s) \in DOMAIN u /\ (s \o u)[i] = u[i - Len(s)]
  <2>1. i \in Nat /\ i - Len(s) \in DOMAIN u /\ Len(s) + (i - Len(s)) = i
    BY <1>2, <1>3
  <2> QED
    BY <1>2, <2>1
<1>4. /\ \A i \in DOMAIN s : i \in Nat /\ i <= Len(s)
      /\ \A i \in DOMAIN u : i \in Nat /\ i > 0
  BY <1>2
<1> QED
  BY <1>1, <1>2, <1>3, <1>4 DEF Said, s

(* The script of task t posts n queries, or code it does not wait for does. *)
Hows == {"posted", "floated"}
Posted(t, n, how) ==
    /\ Used(t) \in Nat /\ DOMAIN query[t] = 1..Used(t) /\ DOMAIN query'[t] = 1 .. Used(t) + n
    /\ \A q \in 1..Used(t) : query'[t][q] = query[t][q]
    /\ \A q \in Used(t) + 1 .. Used(t) + n : query'[t][q] = how
    /\ \A v \in Tasks : v # t => query'[v] = query[v]
    /\ Executed(query'[t]) = Executed(query[t])

LEMMA PostAt ==
    ASSUME IInv, NEW t \in Tasks, NEW n \in Nat, NEW how \in Hows, Post(t, n, how)
    PROVE  Posted(t, n, how)
<1> DEFINE s == query[t]
           more == [i \in 1..n |-> how]
<1>1. s \in Seq(QueryStates) /\ query'[t] = s \o more /\ \A v \in Tasks : v # t => query'[v] = query[v]
  BY NowTyped DEF Typed, Post
<1>2. more \in [1..n -> QueryStates]
  BY DEF QueryStates, Hows
<1>3. more \in Seq(QueryStates) /\ Len(more) = n
  <2>1. more \in Seq(QueryStates)
    BY <1>2, SeqDef
  <2>2. DOMAIN more = 1..n
    OBVIOUS
  <2> HIDE DEF more
  <2> QED
    BY <2>1, <2>2, LenProperties
<1>4. \A i \in 1..n : more[i] = how
  OBVIOUS
<1> HIDE DEF s, more
<1>5. /\ Len(s) \in Nat /\ DOMAIN s = 1..Len(s) /\ DOMAIN more = 1..n
      /\ DOMAIN (s \o more) = 1 .. Len(s) + n
      /\ \A i \in DOMAIN s : (s \o more)[i] = s[i]
      /\ \A i \in DOMAIN more : (s \o more)[Len(s) + i] = more[i]
  BY <1>1, <1>3, ConcatAt
<1>6. ASSUME NEW q \in Len(s) + 1 .. Len(s) + n PROVE (s \o more)[q] = how
  <2>1. q - Len(s) \in 1..n /\ Len(s) + (q - Len(s)) = q
    BY <1>5
  <2> QED
    BY <1>4, <1>5, <2>1
<1>7. Executed(s \o more) = Executed(s)
  <2>1. ASSUME NEW q \in DOMAIN (s \o more), (s \o more)[q] = "running" PROVE q \in DOMAIN s
    <3>1. q \notin Len(s) + 1 .. Len(s) + n
      BY <1>6, <2>1 DEF Hows
    <3> QED
      BY <1>5, <3>1
  <2>2. DOMAIN s \subseteq DOMAIN (s \o more)
    BY <1>5
  <2> QED
    BY <1>5, <2>1, <2>2 DEF Executed
<1> QED
  BY <1>1, <1>5, <1>6, <1>7 DEF Posted, Used, s

(* What a worker says of task t when its script runs on: it asks for each  *)
(* of n new queries, and a final message follows or the script goes on.    *)
News(t, n, u, how) ==
    /\ u \in Seq(ToPage)
    /\ \A i \in DOMAIN u : u[i].task = t
    /\ \A i \in DOMAIN u : u[i].kind = "sql" =>
          /\ u[i].query \in Used(t) + 1 .. Used(t) + n
          /\ how = "posted" =>
                script'[t] # "ended" \/ \E j \in DOMAIN u : j > i /\ u[j].kind \in Finals
    /\ \A i, j \in DOMAIN u :
          u[i].kind = "sql" /\ u[j].kind = "sql" /\ u[i].query = u[j].query => i = j
    /\ \A q \in Used(t) + 1 .. Used(t) + n : AskedBy(u, t, q)
    /\ script[t] # "ended" /\ script'[t] = "ended" => \E j \in DOMAIN u : u[j].kind \in Finals

(* The listener takes code or rows for task t. The references of the task  *)
(* stay the same.                                                          *)
Turn(w, t, n, u, how) ==
    /\ Takes(w, toWorker, toWorker')
    /\ toWorker[w][1].task = t /\ toWorker[w][1].kind \in {"code", "rows"}
    /\ toPage' = [toPage EXCEPT ![w] = @ \o u]
    /\ how \in Hows /\ Post(t, n, how) /\ News(t, n, u, how)
    /\ UNCHANGED <<worker, refs, started, pending>>
    /\ script'[t] # "none" /\ (waits'[t] # {} => script'[t] = "waits")
    /\ \A v \in Tasks \ {t} : script'[v] = script[v] /\ waits'[v] = waits[v] /\ slot'[v] = slot[v]
    /\ Count(u, t, Finals) + (IF script'[t] = "ended" THEN 0 ELSE 1)
         = (IF script[t] = "ended" THEN 0 ELSE 1) + (IF toWorker[w][1].kind = "rows" THEN 1 ELSE 0)

LEMMA TurnTask ==
    ASSUME IInv, Links, NEW w \in Workers, NEW t, NEW n, NEW u, NEW how, Turn(w, t, n, u, how)
    PROVE  /\ t \in Tasks /\ worker[t] = w /\ t \in started
           /\ \A v \in Tasks : worker[v] = w => v = t
           /\ toWorker[w][1].kind = "code" => script[t] = "none"
           /\ toWorker[w][1].kind = "rows" => script[t] # "none"
<1>1. Typed(worker, refs, toWorker, toPage, query) /\ Placed(worker, toWorker, toPage, query)
  BY NowTyped DEF Links
<1>2. toWorker \in [Workers -> Seq(ToWorker)] /\ Takes(w, toWorker, toWorker')
  BY <1>1 DEF Typed, Turn
<1>3. 1 \in DOMAIN toWorker[w]
  BY <1>2, TakenAt
<1>4. /\ t \in Tasks /\ worker[t] = w
      /\ toWorker[w][1].kind = "code" => script[t] = "none"
      /\ toWorker[w][1].kind = "rows" => script[t] # "none"
  BY <1>1, <1>3, MessageAt DEF Turn, Placed, ToWorkerPlaced
<1>5. t \in started /\ \A v \in Tasks : worker[v] = w => v = t
  BY <1>4, WorkerIds DEF IInv, OneOwner, ActiveStarted, Active, Running
<1> QED
  BY <1>4, <1>5

LEMMA TurnToWorker ==
    ASSUME IInv, Links, NEW w \in Workers, NEW t, NEW n \in Nat, NEW u, NEW how, Turn(w, t, n, u, how)
    PROVE  ToWorkerPlaced(worker, toWorker, query)'
<1>1. Typed(worker, refs, toWorker, toPage, query) /\ ToWorkerPlaced(worker, toWorker, query)
  BY NowTyped DEF Links, Placed
<1>2. /\ t \in Tasks /\ worker[t] = w /\ \A v \in Tasks : worker[v] = w => v = t
      /\ toWorker[w][1].kind = "code" => script[t] = "none"
      /\ toWorker[w][1].kind = "rows" => script[t] # "none"
  BY TurnTask
<1>3. toWorker \in [Workers -> Seq(ToWorker)] /\ Takes(w, toWorker, toWorker')
  BY <1>1 DEF Typed, Turn
<1>4. /\ \A v \in Workers : v # w => toWorker'[v] = toWorker[v]
      /\ 1 \in DOMAIN toWorker[w]
      /\ \A i \in DOMAIN toWorker'[w] :
            i \in Nat \ {0} /\ i + 1 \in DOMAIN toWorker[w] /\ toWorker'[w][i] = toWorker[w][i + 1]
  BY <1>3, TakenAt
<1>5. Posted(t, n, how)
  BY <1>2, PostAt DEF Turn
<1>6. ASSUME NEW v \in Tasks, NEW q \in DOMAIN query[v]
      PROVE  q \in DOMAIN query'[v] /\ query'[v][q] = query[v][q]
  <2>1. CASE v = t
    <3>1. q \in 1..Used(t) /\ Used(t) \in Nat
      BY <1>5, <2>1 DEF Posted
    <3>2. q \in 1 .. Used(t) + n
      BY <3>1
    <3> QED
      BY <1>5, <2>1, <3>1, <3>2 DEF Posted
  <2>2. CASE v # t
    BY <1>5, <2>2 DEF Posted
  <2> QED
    BY <2>1, <2>2
<1>7. script'[t] # "none" /\ UNCHANGED worker /\ \A v \in Tasks \ {t} : script'[v] = script[v]
  BY DEF Turn
<1>8. ASSUME NEW v \in Workers, NEW i \in DOMAIN toWorker[v], v # w \/ i # 1
      PROVE  LET m == toWorker[v][i] IN
             /\ m.kind = "code" => worker'[m.task] = v /\ script'[m.task] = "none" /\ m.query = None
             /\ m.kind = "rows" => /\ worker'[m.task] = v /\ script'[m.task] # "none"
                                   /\ m.query \in DOMAIN query'[m.task]
                                   /\ query'[m.task][m.query] = "answered"
  <2> DEFINE m == toWorker[v][i]
  <2>1. /\ m.task \in Tasks
        /\ m.kind = "code" => worker[m.task] = v /\ script[m.task] = "none" /\ m.query = None
        /\ m.kind = "rows" => /\ worker[m.task] = v /\ script[m.task] # "none"
                              /\ m.query \in DOMAIN query[m.task]
                              /\ query[m.task][m.query] = "answered"
    BY <1>1, MessageAt DEF ToWorkerPlaced
  <2>2. m.kind = "code" => m.task # t
    <3>1. ASSUME m.kind = "code", m.task = t PROVE FALSE
      <4>1. v = w /\ toWorker[w][1].kind = "code"
        BY <1>2, <2>1, <3>1 DEF Turn
      <4>2. toWorker[w][1].task = t /\ toWorker[w][1].query = None
        BY <1>1, <1>4, <4>1 DEF ToWorkerPlaced, Turn
      <4>3. i = 1
        BY <1>1, <1>4, <2>1, <3>1, <4>1, <4>2 DEF ToWorkerPlaced
      <4> QED
        BY <1>8, <4>1, <4>3
    <3> QED
      BY <3>1
  <2> HIDE DEF m
  <2>3. /\ m.kind = "code" => worker'[m.task] = v /\ script'[m.task] = "none" /\ m.query = None
        /\ m.kind = "rows" => /\ worker'[m.task] = v /\ script'[m.task] # "none"
                              /\ m.query \in DOMAIN query'[m.task]
                              /\ query'[m.task][m.query] = "answered"
    BY <1>6, <1>7, <2>1, <2>2
  <2> QED
    BY <2>3 DEF m
<1> SUFFICES ASSUME NEW v \in Workers
             PROVE  /\ \A i \in DOMAIN toWorker'[v] :
                          LET m == toWorker'[v][i] IN
                          /\ m.kind = "code" => worker'[m.task] = v /\ script'[m.task] = "none"
                                                /\ m.query = None
                          /\ m.kind = "rows" => /\ worker'[m.task] = v /\ script'[m.task] # "none"
                                                /\ m.query \in DOMAIN query'[m.task]
                                                /\ query'[m.task][m.query] = "answered"
                    /\ \A i, j \in DOMAIN toWorker'[v] :
                          /\ toWorker'[v][i].task = toWorker'[v][j].task
                          /\ toWorker'[v][i].query = toWorker'[v][j].query
                          /\ toWorker'[v][i].kind = toWorker'[v][j].kind
                          /\ toWorker'[v][i].kind # "cleanup"
                          => i = j
  BY DEF ToWorkerPlaced
<1>9. CASE v # w
  BY <1>1, <1>4, <1>8, <1>9 DEF ToWorkerPlaced
<1>10. CASE v = w
  <2>1. ASSUME NEW i \in DOMAIN toWorker'[w]
        PROVE  LET m == toWorker'[w][i] IN
               /\ m.kind = "code" => worker'[m.task] = w /\ script'[m.task] = "none" /\ m.query = None
               /\ m.kind = "rows" => /\ worker'[m.task] = w /\ script'[m.task] # "none"
                                     /\ m.query \in DOMAIN query'[m.task]
                                     /\ query'[m.task][m.query] = "answered"
    <3>1. i + 1 \in DOMAIN toWorker[w] /\ i + 1 # 1 /\ toWorker'[w][i] = toWorker[w][i + 1]
      BY <1>4
    <3> QED
      BY <1>8, <3>1
  <2>2. ASSUME NEW i \in DOMAIN toWorker'[w], NEW j \in DOMAIN toWorker'[w],
               toWorker'[w][i].task = toWorker'[w][j].task,
               toWorker'[w][i].query = toWorker'[w][j].query,
               toWorker'[w][i].kind = toWorker'[w][j].kind, toWorker'[w][i].kind # "cleanup"
        PROVE  i = j
    <3>1. i + 1 = j + 1
      BY <1>1, <1>4, <2>2 DEF ToWorkerPlaced
    <3> QED
      BY <1>4, <3>1
  <2> QED
    BY <1>10, <2>1, <2>2
<1> QED
  BY <1>9, <1>10

LEMMA TurnToPage ==
    ASSUME IInv, Links, NEW w \in Workers, NEW t, NEW n \in Nat, NEW u, NEW how, Turn(w, t, n, u, how)
    PROVE  ToPagePlaced(worker, toPage, query)'
<1>1. Typed(worker, refs, toWorker, toPage, query) /\ ToPagePlaced(worker, toPage, query)
  BY NowTyped DEF Links, Placed
<1>2. t \in Tasks /\ worker[t] = w /\ \A v \in Tasks : worker[v] = w => v = t
  BY TurnTask
<1>3. Said(w, toPage, u, toPage')
  <2>1. toPage \in [Workers -> Seq(ToPage)] /\ u \in Seq(ToPage)
    BY <1>1 DEF Typed, Turn, News
  <2>2. toPage' = [toPage EXCEPT ![w] = @ \o u]
    BY DEF Turn
  <2> QED
    BY <2>1, <2>2, SaidAt
<1>4. Posted(t, n, how) /\ News(t, n, u, how)
  BY <1>2, PostAt DEF Turn
<1>5. script'[t] # "none" /\ UNCHANGED worker /\ \A v \in Tasks \ {t} : script'[v] = script[v]
  BY DEF Turn
<1>q. ASSUME NEW v \in Tasks, NEW q \in DOMAIN query[v]
      PROVE  q \in DOMAIN query'[v] /\ query'[v][q] = query[v][q]
  <2>1. CASE v = t
    <3>1. q \in 1..Used(t) /\ Used(t) \in Nat /\ q \in 1 .. Used(t) + n
      BY <1>4, <2>1 DEF Posted
    <3> QED
      BY <1>4, <2>1, <3>1 DEF Posted
  <2>2. CASE v # t
    BY <1>4, <2>2 DEF Posted
  <2> QED
    BY <2>1, <2>2
<1>6. ASSUME NEW i \in DOMAIN toPage[w]
      PROVE  Told(w, i, toPage'[w], script'[toPage'[w][i].task], worker', query')
  <2> DEFINE m == toPage[w][i]
  <2>1. m.task \in Tasks /\ Told(w, i, toPage[w], script[m.task], worker, query)
    BY <1>1, MessageAt DEF ToPagePlaced
  <2>2. toPage'[w][i] = m /\ i \in DOMAIN toPage'[w] /\ i \in Nat /\ i <= Len(toPage[w])
    BY <1>3 DEF Said
  <2>3. script[m.task] # "none" /\ script'[m.task] # "none"
    BY <1>5, <2>1 DEF Told
  <2>4. m.kind = "sql" => /\ m.query \in DOMAIN query'[m.task]
                          /\ query'[m.task][m.query] = query[m.task][m.query]
    BY <1>q, <2>1 DEF Told
  <2>5. ASSUME m.kind = "sql", query[m.task][m.query] = "posted", script'[m.task] = "ended"
        PROVE  \E j \in DOMAIN toPage'[w] : j > i /\ Of(toPage'[w][j], m.task, Finals)
    <3>1. CASE script[m.task] # "ended"
      <4>0. m.task = t
        BY <1>5, <2>1, <2>5, <3>1
      <4>1. PICK j \in DOMAIN u : u[j].kind \in Finals
        BY <1>4, <2>5, <3>1, <4>0 DEF News
      <4>2. /\ Len(toPage[w]) + j \in DOMAIN toPage'[w] /\ toPage'[w][Len(toPage[w]) + j] = u[j]
            /\ Len(toPage[w]) \in Nat /\ j \in Nat /\ j > 0
        BY <1>3 DEF Said
      <4>3. Len(toPage[w]) + j > i
        BY <2>2, <4>2
      <4>4. Of(u[j], t, Finals)
        BY <1>4, <4>1 DEF News, Of
      <4> QED
        BY <4>0, <4>2, <4>3, <4>4
    <3>2. CASE script[m.task] = "ended"
      <4>1. PICK j \in DOMAIN toPage[w] : j > i /\ Of(toPage[w][j], m.task, Finals)
        BY <2>1, <2>5, <3>2 DEF Told
      <4> QED
        BY <1>3, <4>1 DEF Said
    <3> QED
      BY <3>1, <3>2
  <2> HIDE DEF m
  <2>6. Told(w, i, toPage'[w], script'[m.task], worker', query')
    BY <1>5, <2>1, <2>2, <2>3, <2>4, <2>5 DEF Told, m
  <2> QED
    BY <2>2, <2>6
<1>7. ASSUME NEW i \in DOMAIN toPage'[w], i \notin DOMAIN toPage[w]
      PROVE  /\ Told(w, i, toPage'[w], script'[toPage'[w][i].task], worker', query')
             /\ toPage'[w][i].task = t
             /\ toPage'[w][i].kind = "sql" => toPage'[w][i].query \in Used(t) + 1 .. Used(t) + n
  <2> DEFINE k == i - Len(toPage[w])
             m == u[k]
  <2>1. k \in DOMAIN u /\ toPage'[w][i] = m /\ i \in Nat /\ Len(toPage[w]) \in Nat
    BY <1>3, <1>7 DEF Said
  <2>2. /\ m.task = t
        /\ m.kind = "sql" =>
              /\ m.query \in Used(t) + 1 .. Used(t) + n
              /\ how = "posted" =>
                    script'[t] # "ended" \/ \E j \in DOMAIN u : j > k /\ u[j].kind \in Finals
    BY <1>4, <2>1 DEF News
  <2>k. i = Len(toPage[w]) + k /\ k \in Int
    BY <2>1
  <2> HIDE DEF k, m
  <2>3. ASSUME m.kind = "sql"
        PROVE  m.query \in DOMAIN query'[t] /\ query'[t][m.query] = how
    <3>1. m.query \in Used(t) + 1 .. Used(t) + n /\ Used(t) \in Nat
      BY <1>4, <2>2, <2>3 DEF Posted
    <3>2. m.query \in 1 .. Used(t) + n
      BY <3>1
    <3> QED
      BY <1>4, <3>1, <3>2 DEF Posted
  <2>4. ASSUME NEW j \in DOMAIN u, j > k, u[j].kind \in Finals
        PROVE  \E l \in DOMAIN toPage'[w] : l > i /\ Of(toPage'[w][l], t, Finals)
    <3>1. /\ Len(toPage[w]) + j \in DOMAIN toPage'[w] /\ toPage'[w][Len(toPage[w]) + j] = u[j]
          /\ j \in Nat
      BY <1>3 DEF Said
    <3>2. Len(toPage[w]) + j > i
      BY <2>1, <2>k, <2>4, <3>1
    <3>3. Of(u[j], t, Finals)
      BY <1>4, <2>4 DEF News, Of
    <3> QED
      BY <3>1, <3>2, <3>3
  <2>5. /\ how \in Hows /\ worker'[t] = w /\ script'[t] # "none"
    BY <1>2, <1>5 DEF Turn
  <2>6. m.kind = "sql" /\ how = "posted" =>
           script'[t] # "ended" \/ \E j \in DOMAIN toPage'[w] : j > i /\ Of(toPage'[w][j], t, Finals)
    BY <2>2, <2>4
  <2> QED
    BY <2>1, <2>2, <2>3, <2>5, <2>6 DEF Told, Hows
<1>8. ASSUME NEW i \in DOMAIN toPage'[w], NEW j \in DOMAIN toPage'[w],
             toPage'[w][i].task = toPage'[w][j].task, toPage'[w][i].query = toPage'[w][j].query,
             toPage'[w][i].kind = "sql", toPage'[w][j].kind = "sql"
      PROVE  i = j
  <2>u. Used(t) \in Nat /\ DOMAIN query[t] = 1..Used(t)
    BY <1>4 DEF Posted
  <2>o. ASSUME NEW x \in DOMAIN toPage[w], NEW y \in DOMAIN toPage'[w], y \notin DOMAIN toPage[w],
               toPage'[w][x].task = toPage'[w][y].task, toPage'[w][x].query = toPage'[w][y].query,
               toPage'[w][x].kind = "sql", toPage'[w][y].kind = "sql"
        PROVE  FALSE
    <3>1. toPage'[w][x] = toPage[w][x] /\ Told(w, x, toPage[w], script[toPage[w][x].task], worker, query)
      BY <1>1, <1>3, <2>o DEF Said, ToPagePlaced
    <3>2. toPage'[w][y].task = t /\ toPage'[w][y].query \in Used(t) + 1 .. Used(t) + n
      BY <1>7, <2>o
    <3>3. toPage[w][x].query \in DOMAIN query[t]
      BY <2>o, <3>1, <3>2 DEF Told
    <3>4. toPage'[w][x].query \in 1..Used(t)
      BY <2>u, <3>1, <3>3
    <3>5. \A k \in 1..Used(t) : k \notin Used(t) + 1 .. Used(t) + n
      BY <2>u
    <3> QED
      BY <2>o, <3>2, <3>4, <3>5
  <2>1. CASE i \in DOMAIN toPage[w] /\ j \in DOMAIN toPage[w]
    <3>1. toPage'[w][i] = toPage[w][i] /\ toPage'[w][j] = toPage[w][j]
      BY <1>3, <2>1 DEF Said
    <3> QED
      BY <1>1, <1>8, <2>1, <3>1 DEF ToPagePlaced
  <2>2. CASE i \notin DOMAIN toPage[w] /\ j \notin DOMAIN toPage[w]
    <3> DEFINE k == i - Len(toPage[w])
               l == j - Len(toPage[w])
    <3>1. /\ k \in DOMAIN u /\ toPage'[w][i] = u[k] /\ i \in Nat
          /\ l \in DOMAIN u /\ toPage'[w][j] = u[l] /\ j \in Nat
          /\ Len(toPage[w]) \in Nat
      BY <1>3, <2>2 DEF Said
    <3>2. k = l
      BY <1>4, <1>8, <3>1 DEF News
    <3> QED
      BY <3>1, <3>2
  <2>3. CASE i \in DOMAIN toPage[w] /\ j \notin DOMAIN toPage[w]
    BY <1>8, <2>3, <2>o
  <2>4. CASE i \notin DOMAIN toPage[w] /\ j \in DOMAIN toPage[w]
    BY <1>8, <2>4, <2>o
  <2> QED
    BY <2>1, <2>2, <2>3, <2>4
<1>s. ASSUME NEW v \in Workers
      PROVE  /\ \A i \in DOMAIN toPage'[v] :
                   Told(v, i, toPage'[v], script'[toPage'[v][i].task], worker', query')
             /\ \A i, j \in DOMAIN toPage'[v] :
                   /\ toPage'[v][i].task = toPage'[v][j].task
                   /\ toPage'[v][i].query = toPage'[v][j].query
                   /\ toPage'[v][i].kind = "sql" /\ toPage'[v][j].kind = "sql"
                   => i = j
  <2>1. CASE v # w
    <3>1. toPage'[v] = toPage[v]
      BY <1>3, <2>1 DEF Said
    <3>2. ASSUME NEW i \in DOMAIN toPage[v]
          PROVE  Told(v, i, toPage[v], script'[toPage[v][i].task], worker', query')
      <4>1. toPage[v][i].task \in Tasks /\ Told(v, i, toPage[v], script[toPage[v][i].task], worker, query)
        BY <1>1, MessageAt DEF ToPagePlaced
      <4>2. toPage[v][i].task # t
        BY <1>2, <2>1, <4>1, WorkerIds DEF Told
      <4>3. /\ script'[toPage[v][i].task] = script[toPage[v][i].task]
            /\ query'[toPage[v][i].task] = query[toPage[v][i].task]
        BY <1>4, <1>5, <4>1, <4>2 DEF Posted
      <4> QED
        BY <1>5, <4>1, <4>3 DEF Told
    <3> QED
      BY <1>1, <3>1, <3>2 DEF ToPagePlaced
  <2>2. CASE v = w
    BY <1>6, <1>7, <1>8, <2>2
  <2> QED
    BY <2>1, <2>2
<1> QED
  BY <1>s DEF ToPagePlaced, Told, Of

LEMMA TurnAsked ==
    ASSUME IInv, Links, NEW w \in Workers, NEW t, NEW n \in Nat, NEW u, NEW how, Turn(w, t, n, u, how)
    PROVE  PostedAsked(worker, toPage, query)'
<1>1. Typed(worker, refs, toWorker, toPage, query) /\ PostedAsked(worker, toPage, query)
  BY NowTyped DEF Links, Placed
<1>2. t \in Tasks /\ worker[t] = w /\ \A v \in Tasks : worker[v] = w => v = t
  BY TurnTask
<1>3. Said(w, toPage, u, toPage')
  <2>1. toPage \in [Workers -> Seq(ToPage)] /\ u \in Seq(ToPage)
    BY <1>1 DEF Typed, Turn, News
  <2>2. toPage' = [toPage EXCEPT ![w] = @ \o u]
    BY DEF Turn
  <2> QED
    BY <2>1, <2>2, SaidAt
<1>4. Posted(t, n, how) /\ News(t, n, u, how) /\ UNCHANGED worker
  BY <1>2, PostAt DEF Turn
<1> SUFFICES ASSUME NEW v \in Tasks, NEW q \in DOMAIN query'[v], query'[v][q] = "posted"
             PROVE  worker'[v] # None /\ AskedBy(toPage'[worker'[v]], v, q)
  BY DEF PostedAsked, AskedBy
<1>5. CASE v # t
  <2>1. q \in DOMAIN query[v] /\ query[v][q] = "posted"
    BY <1>4, <1>5 DEF Posted
  <2>2. worker[v] # None /\ AskedBy(toPage[worker[v]], v, q)
    BY <1>1, <2>1 DEF PostedAsked
  <2>3. worker[v] \in Workers /\ worker[v] # w
    BY <1>1, <1>2, <1>5, <2>2 DEF Typed
  <2> QED
    BY <1>3, <1>4, <2>2, <2>3 DEF Said
<1>6. CASE v = t
  <2>1. worker'[t] = w /\ w # None
    BY <1>2, <1>4, WorkerIds
  <2>2. CASE q \in 1..Used(t)
    <3>1. q \in DOMAIN query[t] /\ query[t][q] = "posted"
      BY <1>4, <1>6, <2>2 DEF Posted
    <3>2. AskedBy(toPage[w], t, q)
      BY <1>1, <1>2, <3>1 DEF PostedAsked
    <3>3. AskedBy(toPage'[w], t, q)
      BY <1>3, <3>2 DEF AskedBy, Said
    <3> QED
      BY <1>6, <2>1, <3>3
  <2>3. CASE q \notin 1..Used(t)
    <3>1. q \in Used(t) + 1 .. Used(t) + n
      <4>1. q \in 1 .. Used(t) + n /\ Used(t) \in Nat
        BY <1>4, <1>6 DEF Posted
      <4> QED
        BY <2>3, <4>1
    <3>2. AskedBy(u, t, q)
      BY <1>4, <3>1 DEF News
    <3>3. AskedBy(toPage'[w], t, q)
      BY <1>3, <3>2 DEF AskedBy, Said
    <3> QED
      BY <1>6, <2>1, <3>3
  <2> QED
    BY <2>2, <2>3
<1> QED
  BY <1>5, <1>6

LEMMA TurnExact ==
    ASSUME IInv, Links, NEW w \in Workers, NEW t, NEW n \in Nat, NEW u, NEW how, Turn(w, t, n, u, how)
    PROVE  Exact'
<1>1. Typed(worker, refs, toWorker, toPage, query)
  BY NowTyped
<1>2. t \in Tasks /\ worker[t] = w /\ t \in started /\ \A v \in Tasks : worker[v] = w => v = t
  BY TurnTask
<1>3. /\ toPage \in [Workers -> Seq(ToPage)] /\ u \in Seq(ToPage)
      /\ toWorker \in [Workers -> Seq(ToWorker)]
  BY <1>1 DEF Typed, Turn, News
<1>4. Posted(t, n, how)
  BY <1>2, PostAt DEF Turn
<1>5. /\ UNCHANGED <<worker, refs, started>>
      /\ \A v \in Tasks \ {t} : script'[v] = script[v]
      /\ Takes(w, toWorker, toWorker') /\ toPage' = [toPage EXCEPT ![w] = @ \o u]
  BY DEF Turn
<1>6. /\ \A v \in Workers : v # w => toWorker'[v] = toWorker[v]
      /\ \A v \in Workers : v # w => toPage'[v] = toPage[v]
  <2>1. \A v \in Workers : v # w => toWorker'[v] = toWorker[v]
    BY <1>3, <1>5 DEF Takes
  <2>2. \A v \in Workers : v # w => toPage'[v] = toPage[v]
    BY <1>3, <1>5
  <2> QED
    BY <2>1, <2>2
<1>7. ASSUME NEW v \in started \ {t} PROVE ExactFor(v, worker, refs, toWorker, toPage, query)'
  <2>1. ExactFor(v, worker, refs, toWorker, toPage, query) /\ v \in Tasks
    BY DEF Links, Exact, IInv, TypeOK
  <2>2. query'[v] = query[v] /\ script'[v] = script[v]
    BY <1>4, <1>5, <2>1 DEF Posted
  <2>3. CASE worker[v] = None
    BY <1>5, <2>1, <2>2, <2>3 DEF ExactFor
  <2>4. CASE worker[v] # None
    <3>1. worker[v] \in Workers /\ worker[v] # w
      BY <1>1, <1>2, <2>1, <2>4 DEF Typed
    <3>2. toWorker'[worker[v]] = toWorker[worker[v]] /\ toPage'[worker[v]] = toPage[worker[v]]
      BY <1>6, <3>1
    <3> QED
      BY <1>5, <2>1, <2>2, <2>4, <3>2 DEF ExactFor, References
  <2> QED
    BY <2>3, <2>4
<1>8. ExactFor(t, worker, refs, toWorker, toPage, query)'
  <2> DEFINE a == Count(toWorker[w], t, {"rows"})
             a2 == Count(toWorker'[w], t, {"rows"})
             b == Count(toPage[w], t, Finals)
             b2 == Count(toPage'[w], t, Finals)
             f == Count(u, t, Finals)
             c == Cardinality(Executed(query[t]))
             d == IF script[t] = "ended" THEN 0 ELSE 1
             d2 == IF script'[t] = "ended" THEN 0 ELSE 1
             e == IF toWorker[w][1].kind = "rows" THEN 1 ELSE 0
  <2>1. a \in Nat /\ b \in Nat /\ c \in Nat /\ d \in Nat
    BY <1>1, <1>2, ReferencesTyped
  <2>2. a2 \in Nat /\ a = a2 + e
    <3>1. Fewer(toWorker[w], toWorker'[w], t, {"rows"})
      BY <1>3, <1>5, TakenCount
    <3>2. Of(toWorker[w][1], t, {"rows"}) <=> toWorker[w][1].kind = "rows"
      BY DEF Of, Turn
    <3> QED
      BY <3>1, <3>2 DEF Fewer
  <2>3. b2 = b + f /\ f \in Nat
    <3>1. toPage'[w] = toPage[w] \o u /\ toPage[w] \in Seq(ToPage)
      BY <1>3, <1>5
    <3>2. Count(toPage[w] \o u, t, Finals) = Count(toPage[w], t, Finals) + Count(u, t, Finals)
      BY <1>3, <3>1, CountConcat
    <3>3. f \in Nat
      BY <1>3, PlacesFinite
    <3> QED
      BY <3>1, <3>2, <3>3
  <2>4. f + d2 = d + e
    BY DEF Turn
  <2>5. refs[t] = d + a + b + c
    BY <1>2, WorkerIds DEF Links, Exact, ExactFor, References
  <2>6. Cardinality(Executed(query'[t])) = c
    BY <1>4 DEF Posted
  <2>e. e \in Nat /\ d2 \in Nat
    OBVIOUS
  <2> HIDE DEF a, b, c, d, e, f, a2, b2, d2
  <2>7. refs[t] = d2 + a2 + b2 + c
    BY <2>1, <2>2, <2>3, <2>4, <2>5, <2>e
  <2>8. refs'[t] = References(t, w, toWorker, toPage, query)'
    BY <1>5, <2>6, <2>7 DEF References, a2, b2, d2
  <2> QED
    BY <1>2, <1>5, <2>8, WorkerIds DEF ExactFor
<1> QED
  BY <1>5, <1>7, <1>8 DEF Exact

LEMMA TurnFresh ==
    ASSUME IInv, Links, NEW w \in Workers, NEW t, NEW n \in Nat, NEW u, NEW how, Turn(w, t, n, u, how)
    PROVE  Fresh'
<1>1. t \in Tasks /\ t \in started
  BY TurnTask
<1>2. Posted(t, n, how)
  BY <1>1, PostAt DEF Turn
<1>3. /\ script'[t] # "none" /\ (waits'[t] # {} => script'[t] = "waits")
      /\ \A v \in Tasks \ {t} : /\ script'[v] = script[v] /\ waits'[v] = waits[v]
                                /\ slot'[v] = slot[v] /\ query'[v] = query[v]
      /\ UNCHANGED <<started, pending>>
  BY <1>2 DEF Turn, Posted
<1>4. ASSUME NEW v \in Tasks
      PROVE  /\ script'[v] = "none" => query'[v] = <<>> /\ waits'[v] = {} /\ slot'[v] = None
             /\ waits'[v] # {} => script'[v] = "waits"
             /\ v \notin started' => script'[v] = "none"
  BY <1>1, <1>3 DEF Links, Fresh
<1> QED
  BY <1>3, <1>4 DEF Links, Fresh

LEMMA TurnLinks ==
    ASSUME IInv, Links, NEW w \in Workers, NEW t, NEW n \in Nat, NEW u, NEW how, Turn(w, t, n, u, how)
    PROVE  Links'
  BY TurnToWorker, TurnToPage, TurnAsked, TurnExact, TurnFresh DEF Links, Placed

(* The messages of a script that runs on: final ones, its queries and      *)
(* again final ones.                                                       *)
LEMMA SqlsAt ==
    ASSUME IInv, NEW t \in Tasks, NEW n \in Nat
    PROVE  /\ Sqls(t, n) \in Seq(ToPage) /\ Len(Sqls(t, n)) = n /\ Used(t) \in Nat
           /\ DOMAIN Sqls(t, n) = 1..n
           /\ \A i \in 1..n : /\ Sqls(t, n)[i].task = t /\ Sqls(t, n)[i].kind = "sql"
                              /\ Sqls(t, n)[i].query = Used(t) + i
<1>1. Sqls(t, n) \in Seq(ToPage) /\ Used(t) \in Nat
  BY PostTyped DEF IInv
<1>2. DOMAIN Sqls(t, n) = 1..n
  BY DEF Sqls
<1>3. Len(Sqls(t, n)) = n
  BY <1>1, <1>2, LenProperties
<1>4. \A i \in 1..n : Sqls(t, n)[i] = Message(t, "sql", Used(t) + i)
  BY DEF Sqls
<1> QED
  BY <1>1, <1>2, <1>3, <1>4 DEF Message

(* Sequence r is s and then u.                                             *)
Joined(s, u, r) ==
    /\ Len(s) \in Nat /\ Len(u) \in Nat /\ Len(r) = Len(s) + Len(u)
    /\ DOMAIN s = 1..Len(s) /\ DOMAIN u = 1..Len(u) /\ DOMAIN r = 1 .. Len(s) + Len(u)
    /\ \A i \in DOMAIN s : i \in DOMAIN r /\ r[i] = s[i]
    /\ \A i \in DOMAIN u : Len(s) + i \in DOMAIN r /\ r[Len(s) + i] = u[i]
    /\ \A i \in DOMAIN r : i \in DOMAIN s \/ (i > Len(s) /\ i - Len(s) \in DOMAIN u)

LEMMA ConcatJoined ==
    ASSUME NEW M, NEW s \in Seq(M), NEW u \in Seq(M)
    PROVE  s \o u \in Seq(M) /\ Joined(s, u, s \o u)
<1>1. Len(s \o u) = Len(s) + Len(u)
  BY ConcatProperties
<1> QED
  BY <1>1, ConcatAt DEF Joined

FinalOnes(s, t) == s \in Seq(ToPage) /\ \A i \in DOMAIN s : Of(s[i], t, Finals)

Queries(t, n, first, last) == first \o Sqls(t, n) \o last

(* Final messages come last, unless the script goes on.                    *)
Concludes(t, n, last, how) ==
    /\ how = "posted" => script'[t] # "ended" \/ n = 0 \/ 1 \in DOMAIN last
    /\ script[t] # "ended" /\ script'[t] = "ended" => 1 \in DOMAIN last

LEMMA RunsOn ==
    ASSUME IInv, NEW t \in Tasks, NEW n \in Nat, NEW first, NEW last, NEW how,
           FinalOnes(first, t), FinalOnes(last, t), Concludes(t, n, last, how)
    PROVE  /\ News(t, n, Queries(t, n, first, last), how)
           /\ Count(Queries(t, n, first, last), t, Finals)
                = Count(first, t, Finals) + Count(last, t, Finals)
<1> DEFINE s == Sqls(t, n)
           p == first \o s
           k == Len(first)
           l == Len(p)
           u == Queries(t, n, first, last)
<1>1. /\ s \in Seq(ToPage) /\ Len(s) = n /\ Used(t) \in Nat /\ DOMAIN s = 1..n
      /\ \A i \in 1..n : s[i].task = t /\ s[i].kind = "sql" /\ s[i].query = Used(t) + i
  BY SqlsAt
<1>2. /\ first \in Seq(ToPage) /\ last \in Seq(ToPage)
      /\ \A i \in DOMAIN first : first[i].task = t /\ first[i].kind \in Finals
      /\ \A i \in DOMAIN last : last[i].task = t /\ last[i].kind \in Finals
  BY DEF FinalOnes, Of
<1> HIDE DEF s
<1>j. p \in Seq(ToPage) /\ Joined(first, s, p)
  BY <1>1, <1>2, ConcatJoined
<1>6. u = p \o last
  BY DEF s, Queries
<1>7. Count(p, t, Finals) = Count(first, t, Finals) + Count(s, t, Finals)
  BY <1>1, <1>2, CountConcat
<1> HIDE DEF p, u
<1>3. /\ k \in Nat /\ DOMAIN first = 1..k /\ DOMAIN p = 1 .. k + n /\ l = k + n
      /\ \A i \in DOMAIN first : i \in DOMAIN p /\ p[i] = first[i]
      /\ \A i \in DOMAIN s : k + i \in DOMAIN p /\ p[k + i] = s[i]
      /\ \A i \in DOMAIN p : i \in DOMAIN first \/ (i > k /\ i - k \in DOMAIN s)
  BY <1>1, <1>j DEF Joined
<1>8. u \in Seq(ToPage) /\ Joined(p, last, u)
  BY <1>2, <1>6, <1>j, ConcatJoined
<1>9. /\ DOMAIN last = 1..Len(last) /\ Len(last) \in Nat /\ l \in Nat
      /\ DOMAIN u = 1 .. l + Len(last)
      /\ \A i \in DOMAIN p : i \in DOMAIN u /\ u[i] = p[i]
      /\ \A i \in DOMAIN last : l + i \in DOMAIN u /\ u[l + i] = last[i]
      /\ \A i \in DOMAIN u : i \in DOMAIN p \/ (i > l /\ i - l \in DOMAIN last)
  BY <1>8 DEF Joined
<1> HIDE DEF k, l
<1>4. ASSUME NEW i \in DOMAIN p, i > k
      PROVE  i - k \in 1..n /\ p[i].task = t /\ p[i].kind = "sql" /\ p[i].query = Used(t) + (i - k)
  <2>1. i - k \in 1..n /\ k + (i - k) = i
    BY <1>3, <1>4
  <2>2. p[i] = s[i - k]
    BY <1>1, <1>3, <2>1
  <2> QED
    BY <1>1, <2>1, <2>2
<1>5. ASSUME NEW i \in DOMAIN p, ~(i > k) PROVE p[i].task = t /\ p[i].kind \in Finals
  BY <1>2, <1>3, <1>5
<1>n. Used(t) \in Nat /\ k \in Nat /\ l \in Nat /\ n \in Nat /\ l = k + n /\ DOMAIN p \subseteq 1..l
  BY <1>1, <1>3, <1>9
<1>10. ASSUME NEW i \in DOMAIN u
       PROVE  /\ u[i].task = t
              /\ \/ u[i].kind \in Finals
                 \/ i \in DOMAIN p /\ i > k /\ i - k \in 1..n /\ u[i].kind = "sql"
                    /\ u[i].query = Used(t) + (i - k)
  <2>1. CASE i \in DOMAIN p
    BY <1>4, <1>5, <1>9, <2>1
  <2>2. CASE i \notin DOMAIN p
    <3>1. i - l \in DOMAIN last /\ l + (i - l) = i
      BY <1>9, <2>2
    <3>2. u[i] = last[i - l]
      BY <1>9, <3>1
    <3> QED
      BY <1>2, <3>1, <3>2
  <2> QED
    BY <2>1, <2>2
<1>11. "sql" \notin Finals
  BY DEF Finals
<1>12. 1 \in DOMAIN last => /\ l + 1 \in DOMAIN u /\ u[l + 1].kind \in Finals
                            /\ \A i \in DOMAIN p : l + 1 > i
  <2>1. \A i \in DOMAIN p : l + 1 > i
    BY <1>n
  <2>2. 1 \in DOMAIN last => l + 1 \in DOMAIN u /\ u[l + 1] = last[1]
    BY <1>9
  <2> QED
    BY <1>2, <2>1, <2>2
<1>13. News(t, n, u, how)
  <2>1. \A i \in DOMAIN u : u[i].kind = "sql" =>
           /\ u[i].query \in Used(t) + 1 .. Used(t) + n
           /\ how = "posted" =>
                 script'[t] # "ended" \/ \E j \in DOMAIN u : j > i /\ u[j].kind \in Finals
    <3> SUFFICES ASSUME NEW i \in DOMAIN u, u[i].kind = "sql"
                 PROVE  /\ u[i].query \in Used(t) + 1 .. Used(t) + n
                        /\ how = "posted" =>
                              script'[t] # "ended" \/ \E j \in DOMAIN u : j > i /\ u[j].kind \in Finals
      OBVIOUS
    <3>1. i \in DOMAIN p /\ i - k \in 1..n /\ u[i].query = Used(t) + (i - k)
      BY <1>10, <1>11
    <3>2. u[i].query \in Used(t) + 1 .. Used(t) + n
      <4>1. Used(t) + (i - k) \in Used(t) + 1 .. Used(t) + n
        BY <1>n, <3>1
      <4> QED
        BY <3>1, <4>1
    <3>3. CASE 1 \in DOMAIN last
      BY <1>12, <3>1, <3>2, <3>3
    <3>4. CASE 1 \notin DOMAIN last
      BY <3>1, <3>2, <3>4 DEF Concludes
    <3> QED
      BY <3>3, <3>4
  <2>2. \A i, j \in DOMAIN u :
           u[i].kind = "sql" /\ u[j].kind = "sql" /\ u[i].query = u[j].query => i = j
    <3> SUFFICES ASSUME NEW i \in DOMAIN u, NEW j \in DOMAIN u, u[i].kind = "sql",
                        u[j].kind = "sql", u[i].query = u[j].query
                 PROVE  i = j
      OBVIOUS
    <3>1. /\ i \in DOMAIN p /\ u[i].query = Used(t) + (i - k)
          /\ j \in DOMAIN p /\ u[j].query = Used(t) + (j - k)
      BY <1>10, <1>11
    <3>2. i \in Nat /\ j \in Nat
      BY <1>3, <3>1
    <3>3. Used(t) + (i - k) = Used(t) + (j - k)
      BY <3>1
    <3> QED
      BY <1>n, <3>2, <3>3
  <2>3. \A q \in Used(t) + 1 .. Used(t) + n : AskedBy(u, t, q)
    <3> SUFFICES ASSUME NEW q \in Used(t) + 1 .. Used(t) + n PROVE AskedBy(u, t, q)
      OBVIOUS
    <3> DEFINE i == k + (q - Used(t))
    <3>1. q - Used(t) \in 1..n /\ i \in DOMAIN p /\ i > k /\ i - k = q - Used(t)
          /\ Used(t) + (i - k) = q
      BY <1>1, <1>3
    <3>2. i \in DOMAIN u /\ u[i] = p[i]
      BY <1>9, <3>1
    <3>3. u[i].task = t /\ u[i].kind = "sql" /\ u[i].query = q
      BY <1>4, <3>1, <3>2
    <3> QED
      BY <3>2, <3>3 DEF AskedBy
  <2>4. script[t] # "ended" /\ script'[t] = "ended" => \E j \in DOMAIN u : u[j].kind \in Finals
    BY <1>12 DEF Concludes
  <2> QED
    BY <1>8, <1>10, <2>1, <2>2, <2>3, <2>4 DEF News
<1>14. Count(u, t, Finals) = Count(p, t, Finals) + Count(last, t, Finals)
  BY <1>2, <1>6, <1>j, CountConcat
<1>15. Count(s, t, Finals) = 0
  <2>1. \A i \in DOMAIN s : ~Of(s[i], t, Finals)
    BY <1>1, <1>11 DEF Of
  <2> QED
    BY <1>1, <2>1, PlacesFinite
<1>16. Count(first, t, Finals) \in Nat /\ Count(last, t, Finals) \in Nat
  BY <1>2, PlacesFinite
<1>17. Count(u, t, Finals) = Count(first, t, Finals) + Count(last, t, Finals)
  BY <1>7, <1>14, <1>15, <1>16
<1> QED
  BY <1>13, <1>17 DEF u

Regroups(box, first, s, last) == box \o first \o s \o last = box \o (first \o s \o last)

LEMMA ConcatRegrouped ==
    ASSUME NEW M, NEW box \in Seq(M), NEW first \in Seq(M), NEW s \in Seq(M), NEW last \in Seq(M)
    PROVE  Regroups(box, first, s, last)
<1> DEFINE left  == box \o first \o s \o last
           right == box \o (first \o s \o last)
<1>1. left \in Seq(M) /\ right \in Seq(M) /\ Len(left) = Len(right)
  BY ConcatProperties, LenProperties
<1>2. \A i \in 1..Len(left) : left[i] = right[i]
  OBVIOUS
<1>3. left = right
  <2> HIDE DEF left, right
  <2> QED
    BY <1>1, <1>2, SeqEqual
<1> QED
  BY <1>3 DEF Regroups

LEMMA Regrouped ==
    ASSUME IInv, NEW t \in Tasks, NEW n \in Nat, NEW w \in Workers,
           NEW first \in Seq(ToPage), NEW last \in Seq(ToPage)
    PROVE  /\ toPage[w] \o first \o Sqls(t, n) \o last = toPage[w] \o Queries(t, n, first, last)
           /\ toPage[w] \o Sqls(t, n) \o last = toPage[w] \o Queries(t, n, <<>>, last)
           /\ toPage[w] \o first \o Sqls(t, n) = toPage[w] \o Queries(t, n, first, <<>>)
<1> DEFINE s == Sqls(t, n)
           box == toPage[w]
<1>1. s \in Seq(ToPage) /\ box \in Seq(ToPage)
  BY SqlsAt, NowTyped DEF Typed
<1> HIDE DEF s, box
<1>2. Regroups(box, first, s, last)
  BY <1>1, ConcatRegrouped
<1>3. <<>> \o s = s
  BY <1>1, ConcatEmptySeq
<1>4. (box \o s) \o last = box \o (s \o last)
  BY <1>1, ConcatAssociative
<1>5. (box \o first) \o s = box \o (first \o s)
  BY <1>1, ConcatAssociative
<1>6. (first \o s) \o <<>> = first \o s
  <2>1. first \o s \in Seq(ToPage)
    BY <1>1, ConcatProperties
  <2> QED
    BY <2>1, ConcatEmptySeq
<1> QED
  BY <1>2, <1>3, <1>4, <1>5, <1>6 DEF Queries, Regroups, s, box

LEMMA FinalOne ==
    ASSUME NEW t \in Tasks, NEW kind \in Finals, NEW s, s = <<Message(t, kind, None)>>
    PROVE  FinalOnes(s, t) /\ Count(s, t, Finals) = 1 /\ 1 \in DOMAIN s /\ s \in Seq(ToPage)
<1> DEFINE m == Message(t, kind, None)
<1>1. m \in ToPage
  <2>1. kind \in {"sql"} \cup Finals /\ None \in Nat
    BY DEF None
  <2> QED
    BY <2>1, MessageTyped DEF ToPage
<1>2. m.task = t /\ m.kind = kind
  BY DEF Message
<1>m. s = <<m>>
  OBVIOUS
<1> HIDE DEF m
<1>3. s \in Seq(ToPage) /\ DOMAIN s = {1} /\ s[1] = m
  BY <1>1, <1>m
<1>4. Of(m, t, Finals)
  BY <1>2 DEF Of
<1>5. Count(<<m>>, t, Finals) = IF Of(m, t, Finals) THEN 1 ELSE 0
  BY <1>1, CountOne
<1> QED
  BY <1>3, <1>4, <1>5, <1>m DEF FinalOnes

LEMMA FinalNone ==
    ASSUME NEW t PROVE FinalOnes(<<>>, t) /\ Count(<<>>, t, Finals) = 0 /\ <<>> \in Seq(ToPage)
<1>1. <<>> \in Seq(ToPage) /\ DOMAIN <<>> = {}
  OBVIOUS
<1> QED
  BY <1>1, PlacesFinite DEF FinalOnes

(* The listener of worker w takes the first message, of task t.            *)
Listens(w, t, kind) ==
    /\ Takes(w, toWorker, toWorker')
    /\ toWorker[w][1].task = t /\ toWorker[w][1].kind = kind
    /\ UNCHANGED <<worker, refs, started, pending>>

(* The script runs on until it waits or ends, when its reference goes to   *)
(* its result, or throws an error that is lost, when it keeps it.          *)
LEMMA RunScriptLinks ==
    ASSUME IInv, Links, NEW w \in Workers, NEW t \in Tasks, NEW n \in Nat,
           NEW awaited, NEW first, RunScript(t, w, n, awaited, first), FinalOnes(first, t),
           NEW kind \in {"code", "rows"}, Listens(w, t, kind), script[t] # "ended",
           Count(first, t, Finals) = IF kind = "rows" THEN 1 ELSE 0
    PROVE  Links'
<1>a. PICK state \in IF waits'[t] = {} THEN {"ended", "lost"} ELSE {"waits"} :
         /\ script' = [script EXCEPT ![t] = state]
         /\ toPage' = [toPage EXCEPT ![w] = @ \o first \o Sqls(t, n) \o
                (IF state = "ended" THEN <<Message(t, "result", None)>> ELSE <<>>)]
  BY DEF RunScript
<1> DEFINE last == IF state = "ended" THEN <<Message(t, "result", None)>> ELSE <<>>
           u == Queries(t, n, first, last)
           how == "posted"
<1>1. /\ FinalOnes(last, t) /\ last \in Seq(ToPage)
      /\ Count(last, t, Finals) = IF state = "ended" THEN 1 ELSE 0
      /\ state = "ended" => 1 \in DOMAIN last
  <2>1. CASE state = "ended"
    <3>1. "result" \in Finals /\ last = <<Message(t, "result", None)>>
      BY <2>1 DEF Finals
    <3> HIDE DEF last
    <3> QED
      BY <2>1, <3>1, FinalOne
  <2>2. CASE state # "ended"
    <3>1. last = <<>>
      BY <2>2
    <3> HIDE DEF last
    <3> QED
      BY <2>2, <3>1, FinalNone
  <2> QED
    BY <2>1, <2>2
<1>2. /\ Post(t, n, how) /\ how \in Hows
      /\ slot' = [slot EXCEPT ![t] = IF n > 0 THEN Used(t) + n ELSE None]
      /\ waits' = [waits EXCEPT ![t] = (@ \ {slot[t]}) \cup awaited]
      /\ script' = [script EXCEPT ![t] = state]
      /\ toPage' = [toPage EXCEPT ![w] = @ \o first \o Sqls(t, n) \o last]
  BY <1>a DEF RunScript, CallbackAt, Hows
<1> HIDE DEF last, u, how
<1>3. /\ script \in [Tasks -> {"none", "waits", "ended", "lost"}] /\ waits \in [Tasks -> SUBSET Nat]
      /\ slot \in [Tasks -> Nat] /\ toPage \in [Workers -> Seq(ToPage)]
  BY NowTyped DEF IInv, TypeOK, Typed
<1>4. /\ script'[t] = state /\ state \in {"ended", "lost", "waits"}
      /\ waits'[t] # {} => state = "waits"
      /\ \A v \in Tasks \ {t} : script'[v] = script[v] /\ waits'[v] = waits[v] /\ slot'[v] = slot[v]
  BY <1>2, <1>3
<1>5. Concludes(t, n, last, how)
  BY <1>1, <1>4 DEF Concludes
<1>6. /\ News(t, n, u, how)
      /\ Count(u, t, Finals) = Count(first, t, Finals) + Count(last, t, Finals)
  BY <1>1, <1>5, RunsOn DEF u
<1>7. toPage' = [toPage EXCEPT ![w] = @ \o u]
  <2>1. first \in Seq(ToPage)
    BY DEF FinalOnes
  <2>2. toPage[w] \o first \o Sqls(t, n) \o last = toPage[w] \o u
    BY <1>1, <2>1, Regrouped DEF u
  <2> QED
    BY <1>2, <2>2
<1>8. Turn(w, t, n, u, how)
  <2>1. Count(u, t, Finals) + (IF script'[t] = "ended" THEN 0 ELSE 1)
          = (IF script[t] = "ended" THEN 0 ELSE 1) + (IF toWorker[w][1].kind = "rows" THEN 1 ELSE 0)
    BY <1>1, <1>4, <1>6 DEF Listens
  <2>2. script'[t] # "none" /\ (waits'[t] # {} => script'[t] = "waits")
    BY <1>4
  <2> QED
    BY <1>2, <1>4, <1>6, <1>7, <2>1, <2>2 DEF Turn, Listens
<1> QED
  BY <1>8, TurnLinks

LEMMA OnCodeLinks == ASSUME IInv, Links, NEW w \in Workers, OnCode(w) PROVE Links'
<1> DEFINE t == toWorker[w][1].task
<1>1. toWorker \in [Workers -> Seq(ToWorker)] /\ Takes(w, toWorker, toWorker')
  BY NowTyped DEF Typed, OnCode, Received, Takes
<1>2. 1 \in DOMAIN toWorker[w] /\ Head(toWorker[w]) = toWorker[w][1]
  BY <1>1, TakenAt
<1>3. /\ toWorker[w][1].kind = "code" /\ UNCHANGED poolVars
      /\ \E n \in Free : \E awaited \in SUBSET (Used(t) + 1 .. Used(t) + n) :
            RunScript(t, w, n, awaited, <<>>)
  BY <1>2 DEF OnCode
<1>4. t \in Tasks /\ script[t] = "none"
  BY <1>2, <1>3, NowTyped, MessageAt DEF Links, Placed, ToWorkerPlaced
<1>5. Listens(w, t, "code")
  BY <1>1, <1>3 DEF Listens, poolVars
<1> HIDE DEF t
<1>6. PICK n \in Nat : \E awaited \in SUBSET (Used(t) + 1 .. Used(t) + n) :
            RunScript(t, w, n, awaited, <<>>)
  BY <1>3, FreeIsNat
<1>7. PICK awaited \in SUBSET (Used(t) + 1 .. Used(t) + n) : RunScript(t, w, n, awaited, <<>>)
  BY <1>6
<1> QED
  BY <1>4, <1>5, <1>7, FinalNone, RunScriptLinks

LEMMA RowsTaken ==
    ASSUME IInv, Links, NEW w \in Workers, toWorker[w] # <<>>, Head(toWorker[w]).kind = "rows",
           Received(w), UNCHANGED poolVars
    PROVE  /\ Head(toWorker[w]) = toWorker[w][1] /\ 1 \in DOMAIN toWorker[w]
           /\ toWorker[w][1].task \in Tasks /\ script[toWorker[w][1].task] # "none"
           /\ Listens(w, toWorker[w][1].task, "rows")
<1>1. toWorker \in [Workers -> Seq(ToWorker)] /\ Takes(w, toWorker, toWorker')
  BY NowTyped DEF Typed, Received, Takes
<1>2. 1 \in DOMAIN toWorker[w] /\ Head(toWorker[w]) = toWorker[w][1]
  BY <1>1, TakenAt
<1>3. toWorker[w][1].task \in Tasks /\ script[toWorker[w][1].task] # "none"
  BY <1>2, NowTyped, MessageAt DEF Links, Placed, ToWorkerPlaced
<1> QED
  BY <1>1, <1>2, <1>3 DEF Listens, poolVars

(* One final message follows the new queries, and the script is where it   *)
(* was: the reference of the rows goes to the message.                     *)
LEMMA SayLinks ==
    ASSUME IInv, Links, NEW w \in Workers, NEW t \in Tasks, NEW n \in Nat,
           Listens(w, t, "rows"), NEW kind \in Finals, script[t] # "none", Post(t, n, "posted"),
           toPage' = [toPage EXCEPT ![w] = @ \o Sqls(t, n) \o <<Message(t, kind, None)>>],
           UNCHANGED script, waits'[t] \subseteq waits[t],
           \A v \in Tasks \ {t} : waits'[v] = waits[v] /\ slot'[v] = slot[v]
    PROVE  Links'
<1> DEFINE last == <<Message(t, kind, None)>>
           u == Queries(t, n, <<>>, last)
           how == "posted"
<1>l. last = <<Message(t, kind, None)>>
  OBVIOUS
<1>h. how \in Hows /\ Post(t, n, how)
  BY DEF Hows
<1> HIDE DEF last, u, how
<1>1. /\ FinalOnes(last, t) /\ Count(last, t, Finals) = 1 /\ 1 \in DOMAIN last /\ last \in Seq(ToPage)
      /\ FinalOnes(<<>>, t) /\ Count(<<>>, t, Finals) = 0 /\ <<>> \in Seq(ToPage)
  BY <1>l, FinalOne, FinalNone
<1>2. /\ News(t, n, u, how)
      /\ Count(u, t, Finals) = Count(<<>>, t, Finals) + Count(last, t, Finals)
  <2>1. Concludes(t, n, last, how)
    BY <1>1 DEF Concludes
  <2> QED
    BY <1>1, <2>1, RunsOn DEF u
<1>3. toPage' = [toPage EXCEPT ![w] = @ \o u]
  <2>1. toPage[w] \o Sqls(t, n) \o last = toPage[w] \o u
    BY <1>1, Regrouped DEF u
  <2> QED
    BY <1>l, <2>1
<1>4. waits'[t] # {} => script'[t] = "waits"
  BY DEF Links, Fresh
<1>5. Turn(w, t, n, u, how)
  <2>1. Count(u, t, Finals) + (IF script'[t] = "ended" THEN 0 ELSE 1)
          = (IF script[t] = "ended" THEN 0 ELSE 1) + (IF toWorker[w][1].kind = "rows" THEN 1 ELSE 0)
    BY <1>1, <1>2 DEF Listens
  <2> QED
    BY <1>2, <1>3, <1>4, <1>h, <2>1 DEF Turn, Listens
<1> QED
  BY <1>5, TurnLinks

(* The queries of code that the script does not wait for follow the last   *)
(* message of the listener: they hold no reference.                        *)
LEMMA FloatLinks ==
    ASSUME IInv, Links, NEW w \in Workers, NEW t \in Tasks, NEW n \in Nat,
           Listens(w, t, "rows"), script[t] # "none", Post(t, n, "floated"),
           toPage' = [toPage EXCEPT ![w] = @ \o <<Message(t, "done", None)>> \o Sqls(t, n)],
           UNCHANGED <<script, waits>>, \A v \in Tasks \ {t} : slot'[v] = slot[v]
    PROVE  Links'
<1> DEFINE first == <<Message(t, "done", None)>>
           u == Queries(t, n, first, <<>>)
           how == "floated"
<1>l. first = <<Message(t, "done", None)>> /\ "done" \in Finals
  BY DEF Finals
<1>h. how \in Hows /\ how # "posted" /\ Post(t, n, how)
  BY DEF Hows
<1> HIDE DEF first, u, how
<1>1. /\ FinalOnes(first, t) /\ Count(first, t, Finals) = 1 /\ first \in Seq(ToPage)
      /\ FinalOnes(<<>>, t) /\ Count(<<>>, t, Finals) = 0 /\ <<>> \in Seq(ToPage)
  BY <1>l, FinalOne, FinalNone
<1>2. /\ News(t, n, u, how)
      /\ Count(u, t, Finals) = Count(first, t, Finals) + Count(<<>>, t, Finals)
  <2>1. Concludes(t, n, <<>>, how)
    BY <1>h DEF Concludes
  <2> QED
    BY <1>1, <2>1, RunsOn DEF u
<1>3. toPage' = [toPage EXCEPT ![w] = @ \o u]
  <2>1. toPage[w] \o first \o Sqls(t, n) = toPage[w] \o u
    BY <1>1, Regrouped DEF u
  <2> QED
    BY <1>l, <2>1
<1>4. waits'[t] # {} => script'[t] = "waits"
  BY DEF Links, Fresh
<1>5. Turn(w, t, n, u, how)
  <2>1. Count(u, t, Finals) + (IF script'[t] = "ended" THEN 0 ELSE 1)
          = (IF script[t] = "ended" THEN 0 ELSE 1) + (IF toWorker[w][1].kind = "rows" THEN 1 ELSE 0)
    BY <1>1, <1>2 DEF Listens
  <2> QED
    BY <1>2, <1>3, <1>4, <1>h, <2>1 DEF Turn, Listens
<1> QED
  BY <1>5, TurnLinks

(* Nothing is posted.                                                      *)
LEMMA PostNothing ==
    ASSUME IInv, NEW t \in Tasks, NEW w \in Workers, NEW u
    PROVE  /\ UNCHANGED query => Post(t, 0, "posted")
           /\ toPage[w] \o Sqls(t, 0) \o u = toPage[w] \o u
<1>1. query \in [Tasks -> Seq(QueryStates)] /\ toPage[w] \in Seq(ToPage)
  BY NowTyped DEF Typed
<1>2. [i \in 1..0 |-> "posted"] = <<>>
  OBVIOUS
<1>3. query[t] \o <<>> = query[t]
  BY <1>1, ConcatEmptySeq
<1>4. Sqls(t, 0) = <<>>
  BY DEF Sqls
<1>5. toPage[w] \o <<>> = toPage[w]
  BY <1>1, ConcatEmptySeq
<1> QED
  BY <1>1, <1>2, <1>3, <1>4, <1>5 DEF Post

LEMMA OnRowsLinks == ASSUME IInv, Links, NEW w \in Workers, OnRows(w) PROVE Links'
<1> DEFINE t == toWorker[w][1].task
<1>1. /\ Head(toWorker[w]) = toWorker[w][1] /\ t \in Tasks /\ script[t] # "none"
      /\ Listens(w, t, "rows")
  BY RowsTaken DEF OnRows
<1>2. /\ toPage' = [toPage EXCEPT ![w] = Append(@, Message(t, "print", None))]
      /\ UNCHANGED <<script, waits, slot, query>>
  BY <1>1 DEF OnRows, scriptVars
<1> HIDE DEF t
<1>3. Post(t, 0, "posted") /\ toPage[w] \o Sqls(t, 0) \o <<Message(t, "print", None)>>
                      = toPage[w] \o <<Message(t, "print", None)>>
  BY <1>1, <1>2, PostNothing
<1>4. "print" \in Finals
  BY DEF Finals
<1>5. toPage' = [toPage EXCEPT ![w] = @ \o Sqls(t, 0) \o <<Message(t, "print", None)>>]
  <2>1. toPage[w] \in Seq(ToPage) /\ Message(t, "print", None) \in ToPage
    <3>1. "print" \in {"sql"} \cup Finals /\ None \in Nat
      BY <1>4 DEF None
    <3> QED
      BY <1>1, <3>1, MessageTyped, NowTyped DEF ToPage, Typed
  <2>2. Append(toPage[w], Message(t, "print", None)) = toPage[w] \o <<Message(t, "print", None)>>
    BY <2>1, AppendIsConcat
  <2> QED
    BY <1>2, <1>3, <2>2
<1> QED
  BY <1>1, <1>2, <1>3, <1>4, <1>5, SayLinks

(* A callback that the script does not wait for.                           *)
LEMMA OnFloatingLinks == ASSUME IInv, Links, NEW w \in Workers, OnFloating(w) PROVE Links'
<1> DEFINE t == toWorker[w][1].task
<1>1. /\ Head(toWorker[w]) = toWorker[w][1] /\ t \in Tasks /\ script[t] # "none"
      /\ Listens(w, t, "rows")
  BY RowsTaken DEF OnFloating, Called
<1>2. /\ UNCHANGED <<script, waits>>
      /\ \E n \in Free :
            /\ Post(t, n, "floated") /\ CallbackAt(t, n, None)
            /\ toPage' = [toPage EXCEPT ![w] = @ \o <<Message(t, "done", None)>> \o Sqls(t, n)]
  BY <1>1 DEF OnFloating
<1> HIDE DEF t
<1>3. PICK n \in Nat :
         /\ Post(t, n, "floated") /\ CallbackAt(t, n, None)
         /\ toPage' = [toPage EXCEPT ![w] = @ \o <<Message(t, "done", None)>> \o Sqls(t, n)]
  BY <1>2, FreeIsNat
<1>4. \A v \in Tasks \ {t} : slot'[v] = slot[v]
  BY <1>3 DEF CallbackAt, IInv, TypeOK
<1> QED
  BY <1>1, <1>2, <1>3, <1>4, FloatLinks

LEMMA OnCallbackLinks ==
    ASSUME IInv, Links, NEW w \in Workers, OnCallback(w) \/ OnThrow(w) PROVE Links'
<1> DEFINE t == toWorker[w][1].task
           says(n, k) == toPage' = [toPage EXCEPT ![w] = @ \o Sqls(t, n) \o <<Message(t, k, None)>>]
<1>1. /\ Head(toWorker[w]) = toWorker[w][1] /\ t \in Tasks /\ script[t] # "none"
      /\ Listens(w, t, "rows")
  BY RowsTaken DEF OnCallback, OnThrow, Called
<1>2. /\ UNCHANGED <<script, waits>>
      /\ \E n \in Free : \E k \in {"done", "result"} :
            /\ Post(t, n, "posted") /\ (CallbackAt(t, 0, None) \/ CallbackAt(t, n, slot[t]))
            /\ says(n, k)
  BY <1>1 DEF OnCallback, OnThrow
<1> HIDE DEF t
<1>3. PICK n \in Nat, kind \in {"done", "result"} :
         /\ Post(t, n, "posted") /\ (CallbackAt(t, 0, None) \/ CallbackAt(t, n, slot[t]))
         /\ says(n, kind)
  <2> HIDE DEF says
  <2> QED
    BY <1>2, FreeIsNat
<1>4. kind \in Finals /\ \A v \in Tasks \ {t} : slot'[v] = slot[v]
  BY <1>3 DEF Finals, CallbackAt, IInv, TypeOK
<1> QED
  BY <1>1, <1>2, <1>3, <1>4, SayLinks

LEMMA OnAwaitedLinks == ASSUME IInv, Links, NEW w \in Workers, OnAwaited(w) PROVE Links'
<1> DEFINE t == toWorker[w][1].task
           done == <<Message(t, "done", None)>>
<1>1. /\ Head(toWorker[w]) = toWorker[w][1] /\ t \in Tasks /\ Listens(w, t, "rows")
  BY RowsTaken DEF OnAwaited, Called
<1>2. /\ slot[t] \in waits[t]
      /\ \E n \in Free : \E awaited \in SUBSET (Used(t) + 1 .. Used(t) + n) :
            RunScript(t, w, n, awaited, done)
  BY <1>1 DEF OnAwaited
<1>3. script[t] = "waits"
  BY <1>1, <1>2 DEF Links, Fresh
<1>d. done = <<Message(t, "done", None)>> /\ "done" \in Finals
  BY DEF Finals
<1> HIDE DEF t, done
<1>4. FinalOnes(done, t) /\ Count(done, t, Finals) = 1
  BY <1>1, <1>d, FinalOne
<1>5. PICK n \in Nat : \E awaited \in SUBSET (Used(t) + 1 .. Used(t) + n) :
            RunScript(t, w, n, awaited, done)
  BY <1>2, FreeIsNat
<1>6. PICK awaited \in SUBSET (Used(t) + 1 .. Used(t) + n) : RunScript(t, w, n, awaited, done)
  BY <1>5
<1> QED
  BY <1>1, <1>3, <1>4, <1>6, RunScriptLinks

(* A message to clean up is ignored.                                       *)
LEMMA OnCleanupLinks == ASSUME IInv, Links, NEW w \in Workers, OnCleanup(w) PROVE Links'
<1>1. Typed(worker, refs, toWorker, toPage, query) /\ Placed(worker, toWorker, toPage, query)
  BY NowTyped DEF Links
<1>2. /\ toWorker \in [Workers -> Seq(ToWorker)] /\ Takes(w, toWorker, toWorker')
      /\ UNCHANGED <<worker, refs, started, pending, toPage, query, script, waits, slot>>
  BY <1>1 DEF Typed, OnCleanup, Received, Takes, poolVars, scriptVars
<1>3. \A v \in Workers : v # w => toWorker'[v] = toWorker[v]
  BY <1>2 DEF Takes
<1>4. /\ Head(toWorker[w]) = toWorker[w][1]
      /\ \A i \in DOMAIN toWorker'[w] :
            i \in Nat \ {0} /\ i + 1 \in DOMAIN toWorker[w] /\ toWorker'[w][i] = toWorker[w][i + 1]
  BY <1>2, TakenAt
<1>5. toWorker[w][1].kind = "cleanup"
  BY <1>4 DEF OnCleanup
<1>6. ToWorkerPlaced(worker, toWorker', query)
  <2> SUFFICES ASSUME NEW v \in Workers
               PROVE  /\ \A i \in DOMAIN toWorker'[v] :
                            LET n == toWorker'[v][i] IN
                            /\ n.kind = "code" => worker[n.task] = v /\ script[n.task] = "none"
                                                  /\ n.query = None
                            /\ n.kind = "rows" => /\ worker[n.task] = v /\ script[n.task] # "none"
                                                  /\ n.query \in DOMAIN query[n.task]
                                                  /\ query[n.task][n.query] = "answered"
                      /\ \A i, j \in DOMAIN toWorker'[v] :
                            /\ toWorker'[v][i].task = toWorker'[v][j].task
                            /\ toWorker'[v][i].query = toWorker'[v][j].query
                            /\ toWorker'[v][i].kind = toWorker'[v][j].kind
                            /\ toWorker'[v][i].kind # "cleanup"
                            => i = j
    BY DEF ToWorkerPlaced
  <2>1. CASE v # w
    BY <1>1, <1>3, <2>1 DEF Placed, ToWorkerPlaced
  <2>2. CASE v = w
    <3>1. ASSUME NEW i \in DOMAIN toWorker'[w]
          PROVE  LET n == toWorker'[w][i] IN
                 /\ n.kind = "code" => worker[n.task] = w /\ script[n.task] = "none" /\ n.query = None
                 /\ n.kind = "rows" => /\ worker[n.task] = w /\ script[n.task] # "none"
                                       /\ n.query \in DOMAIN query[n.task]
                                       /\ query[n.task][n.query] = "answered"
      BY <1>1, <1>4 DEF Placed, ToWorkerPlaced
    <3>2. ASSUME NEW i \in DOMAIN toWorker'[w], NEW j \in DOMAIN toWorker'[w],
                 toWorker'[w][i].task = toWorker'[w][j].task,
                 toWorker'[w][i].query = toWorker'[w][j].query,
                 toWorker'[w][i].kind = toWorker'[w][j].kind, toWorker'[w][i].kind # "cleanup"
          PROVE  i = j
      <4>1. i + 1 = j + 1
        BY <1>1, <1>4, <3>2 DEF Placed, ToWorkerPlaced
      <4> QED
        BY <1>4, <4>1
    <3> QED
      BY <2>2, <3>1, <3>2
  <2> QED
    BY <2>1, <2>2
<1>7. Placed(worker, toWorker, toPage, query)'
  <2>1. Placed(worker', toWorker', toPage', query')
    BY <1>1, <1>2, <1>6 DEF Placed
  <2> QED
    BY <1>2, <2>1, ScriptsStill
<1>8. ASSUME NEW v \in started PROVE ExactFor(v, worker, refs, toWorker, toPage, query)'
  <2>1. ExactFor(v, worker, refs, toWorker, toPage, query) /\ v \in Tasks
    BY DEF Links, Exact, IInv, TypeOK
  <2>2. CASE worker[v] = None
    BY <1>2, <2>1, <2>2 DEF ExactFor
  <2>3. CASE worker[v] # None
    <3>1. worker[v] \in Workers
      BY <1>1, <2>1, <2>3 DEF Typed
    <3>2. Count(toWorker'[worker[v]], v, {"rows"}) = Count(toWorker[worker[v]], v, {"rows"})
      <4>1. CASE worker[v] = w
        <5>1. Fewer(toWorker[w], toWorker'[w], v, {"rows"})
          BY <1>2, TakenCount
        <5>2. ~Of(toWorker[w][1], v, {"rows"})
          BY <1>5 DEF Of
        <5> QED
          BY <4>1, <5>1, <5>2 DEF Fewer
      <4>2. CASE worker[v] # w
        BY <1>3, <3>1, <4>2
      <4> QED
        BY <4>1, <4>2
    <3> QED
      BY <1>2, <2>1, <2>3, <3>2 DEF ExactFor, References
  <2> QED
    BY <2>2, <2>3
<1>9. Exact' /\ Fresh'
  BY <1>2, <1>8 DEF Exact, Fresh, Links
<1> QED
  BY <1>7, <1>9 DEF Links

-----------------------------------------------------------------------------
LEMMA NextLinks == IInv /\ Links /\ [Next]_vars => Links'
<1> SUFFICES ASSUME IInv, Links, [Next]_vars PROVE Links'
  OBVIOUS
<1>1. CASE SettingsChanged
  BY <1>1, SettingsLinks
<1>2. CASE RemoveIdle
  BY <1>2, RemoveIdleLinks
<1>3. ASSUME NEW t \in Tasks, RunOnIdle(t) \/ RunOnNew(t) \/ RunLater(t) PROVE Links'
  BY <1>3, RunOnIdleLinks, RunOnNewLinks, RunLaterLinks
<1>4. ASSUME NEW t \in Tasks, QueryEnds(t) PROVE Links'
  BY <1>4, AnswerLinks, FailQueryLinks DEF QueryEnds
<1>5. ASSUME NEW w \in Workers, PageStep(w) PROVE Links'
  BY <1>5, OnQueryLinks, OnFinalLinks DEF PageStep
<1>6. ASSUME NEW w \in Workers, WorkerStep(w) PROVE Links'
  BY <1>6, OnCodeLinks, OnAwaitedLinks, OnFloatingLinks, OnCallbackLinks, OnRowsLinks,
     OnCleanupLinks DEF WorkerStep
<1>7. CASE UNCHANGED vars
  BY <1>7, StillLinks DEF vars, poolVars, scriptVars, linkVars, Links, Fresh
<1> QED
  BY <1>1, <1>2, <1>3, <1>4, <1>5, <1>6, <1>7 DEF Next

THEOREM LinksKept == Spec => [](IInv /\ Links)
<1>1. Init => IInv /\ Links
  BY InitIInv, LinksInit
<1>2. IInv /\ Links /\ [Next]_vars => (IInv /\ Links)'
  BY NextIInv, NextLinks
<1> QED
  BY <1>1, <1>2, PTL DEF Spec

(* However the user, the timer, the page, the workers and the queries take *)
(* turns (scheduleTask, retainTask, releaseTask of WorkerPool.ts): a task  *)
(* has as many references as there are queries of its script in execution, *)
(* answers and final messages on their way, and one for a script that did  *)
(* not end; it is released with the last of them, never sooner or later.   *)
THEOREM ReferencesExact == Spec => []RefsExact
<1>1. IInv /\ Links => RefsExact
  BY ExactRefs DEF Links
<1> QED
  BY <1>1, LinksKept, PTL

-----------------------------------------------------------------------------
(* The callbacks                                                             *)

(* The answer of query q of task t is on its way.                          *)
RowsFor(tw, t, q) ==
    \E w \in Workers : \E i \in DOMAIN tw[w] : Of(tw[w][i], t, {"rows"}) /\ tw[w][i].query = q

(* A query of a script whose answer did not come.                          *)
Open == {"posted", "floated", "running"}

(* The scripts whose callbacks get into each other's way.                  *)
Apart == overlapped \cup nested

(* The callback that is there (cb) is that of the only query whose answer  *)
(* did not come yet, and each answer is on its way or was given to its own *)
(* callback.                                                               *)
OwnFor(t, cb, got, states, tw) ==
    /\ \A pair \in got : pair[1] = pair[2]
    /\ \A q \in DOMAIN states : states[q] \in Open => cb = q
    /\ \A q \in Nat : RowsFor(tw, t, q) => cb = q
    /\ \A q \in DOMAIN states : states[q] = "answered" => <<q, q>> \in got \/ RowsFor(tw, t, q)

Callbacks == \A t \in Tasks \ Apart : OwnFor(t, slot[t], given[t], query[t], toWorker)

(* The answers of the tasks but those of except are the same.              *)
RowsKept(tw, tw2, except) ==
    \A t \in Tasks \ except : \A q \in Nat : RowsFor(tw2, t, q) <=> RowsFor(tw, t, q)

LEMMA QueryNumbers ==
    ASSUME IInv, NEW t \in Tasks PROVE DOMAIN query[t] = 1..Used(t) /\ Used(t) \in Nat
<1>1. query[t] \in Seq(QueryStates)
  BY NowTyped DEF Typed
<1> QED
  BY <1>1, LenProperties DEF Used

(* The tasks whose queries, callback and answers a step leaves alone.      *)
LEMMA OthersOwn ==
    ASSUME IInv, Callbacks, NEW except, RowsKept(toWorker, toWorker', except),
           \A t \in Tasks \ except : /\ slot'[t] = slot[t] /\ given'[t] = given[t]
                                     /\ query'[t] = query[t] /\ (t \in Apart => t \in Apart')
    PROVE  \A t \in (Tasks \ except) \ Apart' :
              OwnFor(t, slot'[t], given'[t], query'[t], toWorker')
<1> SUFFICES ASSUME NEW t \in (Tasks \ except) \ Apart'
             PROVE  OwnFor(t, slot'[t], given'[t], query'[t], toWorker')
  OBVIOUS
<1>1. /\ slot'[t] = slot[t] /\ given'[t] = given[t] /\ query'[t] = query[t]
      /\ OwnFor(t, slot[t], given[t], query[t], toWorker)
  BY DEF Callbacks
<1>2. \A q \in Nat : RowsFor(toWorker', t, q) <=> RowsFor(toWorker, t, q)
  BY DEF RowsKept
<1>3. DOMAIN query[t] \subseteq Nat
  BY QueryNumbers
<1> QED
  BY <1>1, <1>2, <1>3 DEF OwnFor

LEMMA StillCallbacks ==
    ASSUME IInv, Callbacks, UNCHANGED <<slot, given, query, overlapped, nested>>,
           RowsKept(toWorker, toWorker', {})
    PROVE  Callbacks'
<1>1. \A t \in Tasks \ Apart' : OwnFor(t, slot'[t], given'[t], query'[t], toWorker')
  <2>1. /\ \A t \in Tasks \ {} : /\ slot'[t] = slot[t] /\ given'[t] = given[t]
                                 /\ query'[t] = query[t] /\ (t \in Apart => t \in Apart')
        /\ Tasks \ {} = Tasks
    BY DEF Apart
  <2>2. \A t \in (Tasks \ {}) \ Apart' : OwnFor(t, slot'[t], given'[t], query'[t], toWorker')
    BY <2>1, OthersOwn
  <2> QED
    BY <2>1, <2>2
<1> QED
  BY <1>1 DEF Callbacks, Apart, OwnFor, RowsFor

(* Callbacks in the next state, from the task of a message.                *)
LEMMA OneOwn ==
    ASSUME IInv, Callbacks, NEW t \in Tasks, RowsKept(toWorker, toWorker', {t}),
           \A v \in Tasks \ {t} : /\ slot'[v] = slot[v] /\ given'[v] = given[v]
                                  /\ query'[v] = query[v] /\ (v \in Apart => v \in Apart'),
           t \notin Apart' => OwnFor(t, slot'[t], given'[t], query'[t], toWorker')
    PROVE  Callbacks'
<1>1. \A v \in (Tasks \ {t}) \ Apart' : OwnFor(v, slot'[v], given'[v], query'[v], toWorker')
  BY OthersOwn
<1>2. \A v \in Tasks \ Apart' : OwnFor(v, slot'[v], given'[v], query'[v], toWorker')
  BY <1>1
<1> QED
  BY <1>2 DEF Callbacks, Apart, OwnFor, RowsFor

(* How the answers on their way change with the messages to a worker.      *)
LEMMA RowsAppended ==
    ASSUME NEW tw \in [Workers -> Seq(ToWorker)], NEW w \in Workers, NEW u \in Seq(ToWorker),
           NEW tw2, tw2 = [tw EXCEPT ![w] = @ \o u], \A i \in DOMAIN u : u[i].kind # "rows"
    PROVE  RowsKept(tw, tw2, {})
<1>1. Said(w, tw, u, tw2)
  BY SaidAt
<1> SUFFICES ASSUME NEW t \in Tasks, NEW q \in Nat PROVE RowsFor(tw2, t, q) <=> RowsFor(tw, t, q)
  BY DEF RowsKept
<1>2. ASSUME RowsFor(tw, t, q) PROVE RowsFor(tw2, t, q)
  <2>a. PICK v \in Workers : \E i \in DOMAIN tw[v] : Of(tw[v][i], t, {"rows"}) /\ tw[v][i].query = q
    BY <1>2 DEF RowsFor
  <2>1. PICK i \in DOMAIN tw[v] : Of(tw[v][i], t, {"rows"}) /\ tw[v][i].query = q
    BY <2>a
  <2>2. i \in DOMAIN tw2[v] /\ tw2[v][i] = tw[v][i]
    BY <1>1, <2>1 DEF Said
  <2> QED
    BY <2>1, <2>2 DEF RowsFor
<1>3. ASSUME RowsFor(tw2, t, q) PROVE RowsFor(tw, t, q)
  <2>a. PICK v \in Workers : \E i \in DOMAIN tw2[v] : Of(tw2[v][i], t, {"rows"}) /\ tw2[v][i].query = q
    BY <1>3 DEF RowsFor
  <2>1. PICK i \in DOMAIN tw2[v] : Of(tw2[v][i], t, {"rows"}) /\ tw2[v][i].query = q
    BY <2>a
  <2>2. i \in DOMAIN tw[v] /\ tw2[v][i] = tw[v][i]
    BY <1>1, <2>1 DEF Said, Of
  <2> QED
    BY <2>1, <2>2 DEF RowsFor
<1> QED
  BY <1>2, <1>3

LEMMA RowsNotSent ==
    ASSUME NEW tw \in [Workers -> Seq(ToWorker)], NEW w \in Workers, NEW m \in ToWorker,
           NEW tw2, tw2 = [tw EXCEPT ![w] = Append(@, m)], m.kind # "rows"
    PROVE  RowsKept(tw, tw2, {})
<1>1. tw[w] \in Seq(ToWorker) /\ <<m>> \in Seq(ToWorker)
  OBVIOUS
<1>2. Append(tw[w], m) = tw[w] \o <<m>>
  BY <1>1, AppendIsConcat
<1>3. tw2 = [tw EXCEPT ![w] = @ \o <<m>>]
  BY <1>2
<1>4. \A i \in DOMAIN <<m>> : <<m>>[i].kind # "rows"
  OBVIOUS
<1> QED
  BY <1>1, <1>3, <1>4, RowsAppended

LEMMA RowsSent ==
    ASSUME NEW t \in Tasks, NEW q \in Nat, NEW w \in Workers,
           NEW tw \in [Workers -> Seq(ToWorker)], NEW tw2, Answers(t, q, w, tw, tw2)
    PROVE  /\ RowsKept(tw, tw2, {t})
           /\ \A r \in Nat : RowsFor(tw2, t, r) <=> RowsFor(tw, t, r) \/ r = q
<1> DEFINE m == Message(t, "rows", q)
           k == Len(tw[w]) + 1
<1>1. m \in ToWorker /\ m.task = t /\ m.kind = "rows" /\ m.query = q
  BY DEF Message, ToWorker, Messages
<1> HIDE DEF m
<1>2. /\ \A v \in Workers : v # w => tw2[v] = tw[v]
      /\ \A i \in DOMAIN tw[w] : i \in DOMAIN tw2[w] /\ tw2[w][i] = tw[w][i]
      /\ \A i \in DOMAIN tw2[w] : i \in DOMAIN tw[w] \/ (i = k /\ tw2[w][i] = m)
      /\ k \in DOMAIN tw2[w] /\ tw2[w][k] = m
  <2>1. tw2 = [tw EXCEPT ![w] = Append(@, m)]
    BY DEF Answers, m
  <2> QED
    BY <1>1, <2>1, SentAt
<1> HIDE DEF k
<1>3. \A u \in Tasks, r \in Nat : RowsFor(tw, u, r) => RowsFor(tw2, u, r)
  BY <1>2 DEF RowsFor
<1>4. RowsFor(tw2, t, q)
  BY <1>1, <1>2 DEF RowsFor, Of
<1>5. ASSUME NEW u \in Tasks, NEW r \in Nat, RowsFor(tw2, u, r)
      PROVE  RowsFor(tw, u, r) \/ (u = t /\ r = q)
  <2>a. PICK v \in Workers : \E i \in DOMAIN tw2[v] : Of(tw2[v][i], u, {"rows"}) /\ tw2[v][i].query = r
    BY <1>5 DEF RowsFor
  <2>1. PICK i \in DOMAIN tw2[v] : Of(tw2[v][i], u, {"rows"}) /\ tw2[v][i].query = r
    BY <2>a
  <2>2. CASE tw2[v][i] = m
    BY <1>1, <2>1, <2>2 DEF Of
  <2>3. CASE tw2[v][i] # m
    <3>1. i \in DOMAIN tw[v] /\ tw2[v][i] = tw[v][i]
      BY <1>2, <2>1, <2>3
    <3> QED
      BY <2>1, <3>1 DEF RowsFor
  <2> QED
    BY <2>2, <2>3
<1> QED
  BY <1>3, <1>4, <1>5 DEF RowsKept

(* The worker takes its first message.                                     *)
LEMMA FirstRows ==
    ASSUME NEW tw \in [Workers -> Seq(ToWorker)], NEW w \in Workers, NEW tw2, Takes(w, tw, tw2)
    PROVE  /\ RowsKept(tw, tw2, {tw[w][1].task})
           /\ tw[w][1].kind # "rows" => RowsKept(tw, tw2, {})
           /\ \A t \in Tasks, q \in Nat : RowsFor(tw2, t, q) => RowsFor(tw, t, q)
           /\ \A t \in Tasks, q \in Nat : RowsFor(tw, t, q) /\ tw[w][1].query # q => RowsFor(tw2, t, q)
<1> DEFINE m == tw[w][1]
<1>1. /\ \A v \in Workers : v # w => tw2[v] = tw[v]
      /\ \A i \in DOMAIN tw2[w] : i + 1 \in DOMAIN tw[w] /\ tw2[w][i] = tw[w][i + 1]
      /\ \A i \in DOMAIN tw[w] : i # 1 => i - 1 \in DOMAIN tw2[w] /\ tw2[w][i - 1] = tw[w][i]
  BY TakenAt
<1>2. ASSUME NEW t \in Tasks, NEW q \in Nat, RowsFor(tw2, t, q) PROVE RowsFor(tw, t, q)
  <2>a. PICK v \in Workers : \E i \in DOMAIN tw2[v] : Of(tw2[v][i], t, {"rows"}) /\ tw2[v][i].query = q
    BY <1>2 DEF RowsFor
  <2>1. PICK i \in DOMAIN tw2[v] : Of(tw2[v][i], t, {"rows"}) /\ tw2[v][i].query = q
    BY <2>a
  <2>2. PICK j \in DOMAIN tw[v] : tw2[v][i] = tw[v][j]
    BY <1>1, <2>1
  <2> QED
    BY <2>1, <2>2 DEF RowsFor
<1>3. ASSUME NEW t \in Tasks, NEW q \in Nat, RowsFor(tw, t, q),
             ~(Of(m, t, {"rows"}) /\ m.query = q)
      PROVE  RowsFor(tw2, t, q)
  <2>a. PICK v \in Workers : \E i \in DOMAIN tw[v] : Of(tw[v][i], t, {"rows"}) /\ tw[v][i].query = q
    BY <1>3 DEF RowsFor
  <2>1. PICK i \in DOMAIN tw[v] : Of(tw[v][i], t, {"rows"}) /\ tw[v][i].query = q
    BY <2>a
  <2>2. v # w \/ i # 1
    BY <1>3, <2>1
  <2>3. PICK j \in DOMAIN tw2[v] : tw2[v][j] = tw[v][i]
    BY <1>1, <2>1, <2>2
  <2> QED
    BY <2>1, <2>3 DEF RowsFor
<1> HIDE DEF m
<1>4. /\ \A t \in Tasks : t # m.task => ~Of(m, t, {"rows"})
      /\ m.kind # "rows" => \A t \in Tasks : ~Of(m, t, {"rows"})
  BY DEF Of
<1> QED
  BY <1>2, <1>3, <1>4 DEF RowsKept, m

(* Who gives a worker code or tells it to clean up takes no answer away.   *)
LEMMA ReleaseRows ==
    ASSUME IInv, NEW t \in Tasks, Release(t) PROVE RowsKept(toWorker, toWorker', {})
<1>1. toWorker \in [Workers -> Seq(ToWorker)] /\ pending \in Seq(Tasks)
  BY NowTyped DEF Typed, IInv, TypeOK
<1>2. CASE toWorker' = toWorker
  BY <1>2 DEF RowsKept
<1>3. CASE toWorker' # toWorker
  <2> DEFINE w == worker[t]
             c == Message(t, "cleanup", None)
             h == Message(Head(pending), "code", None)
  <2>1. Running(t) /\ w \in Workers
    BY <1>3 DEF Release, Running, IInv, TypeOK
  <2>2. c \in ToWorker /\ c.kind # "rows"
    BY DEF Message, ToWorker, Messages, None
  <2>3. CASE pending = <<>>
    <3>1. toWorker' = [toWorker EXCEPT ![w] = Append(@, c)]
      BY <1>3, <2>3 DEF Release
    <3> HIDE DEF w, c
    <3> QED
      BY <1>1, <2>1, <2>2, <3>1, RowsNotSent
  <2>4. CASE pending # <<>>
    <3>1. toWorker' = [toWorker EXCEPT ![w] = @ \o <<c, h>>]
      BY <1>3, <2>4 DEF Release
    <3>2. h \in ToWorker /\ h.kind # "rows"
      <4>1. Head(pending) \in Tasks
        BY <1>1, <2>4, HeadTailTyped
      <4> QED
        BY <4>1 DEF Message, ToWorker, Messages, None
    <3> HIDE DEF w, c, h
    <3>3. <<c, h>> \in Seq(ToWorker) /\ \A i \in DOMAIN <<c, h>> : <<c, h>>[i].kind # "rows"
      BY <2>2, <3>2
    <3> QED
      BY <1>1, <2>1, <3>1, <3>3, RowsAppended
  <2> QED
    BY <2>3, <2>4
<1> QED
  BY <1>2, <1>3

LEMMA AssignRows ==
    ASSUME IInv, NEW t \in Tasks, NEW w \in Workers, Assign(t, w)
    PROVE  RowsKept(toWorker, toWorker', {})
<1> DEFINE m == Message(t, "code", None)
<1>1. toWorker \in [Workers -> Seq(ToWorker)]
  BY NowTyped DEF Typed
<1>2. m \in ToWorker /\ m.kind # "rows" /\ toWorker' = [toWorker EXCEPT ![w] = Append(@, m)]
  BY DEF Message, ToWorker, Messages, None, Assign
<1> HIDE DEF m
<1> QED
  BY <1>1, <1>2, RowsNotSent

(* No answer waits for an idle worker.                                     *)
LEMMA RemoveIdleRows ==
    ASSUME IInv, Links, RemoveIdle PROVE RowsKept(toWorker, toWorker', {})
<1> DEFINE h == Head(idle)
<1>1. toWorker' = [toWorker EXCEPT ![h] = <<>>] /\ toWorker \in [Workers -> Seq(ToWorker)]
  BY NowTyped DEF RemoveIdle, Typed
<1>2. \A t \in Tasks : worker[t] # None => worker[t] # h
  <2>1. idle # <<>> /\ idle \in Seq(Workers) /\ IsInjective(idle)
    <3>1. Len(idle) > config.min /\ config.min \in Nat
      BY DEF RemoveIdle, IInv, TypeOK, Configs
    <3>2. idle \in Seq(Workers) /\ IsInjective(idle)
      BY DEF IInv, TypeOK, OneOwner
    <3>3. idle = <<>> => Len(idle) = 0
      OBVIOUS
    <3> QED
      BY <3>1, <3>2, <3>3
  <2>2. h \in Range(idle)
    BY <2>1, TailOfInjective
  <2> QED
    BY <2>2 DEF IInv, OneOwner, Active, Running
<1> HIDE DEF h
<1>3. \A w \in Workers : IF w = h THEN DOMAIN toWorker'[w] = {} ELSE toWorker'[w] = toWorker[w]
  BY <1>1
<1>4. ASSUME NEW t \in Tasks, NEW w \in Workers, NEW i \in DOMAIN toWorker[w],
             Of(toWorker[w][i], t, {"rows"})
      PROVE  w # h
  <2>1. worker[t] = w
    BY <1>4 DEF Links, Placed, ToWorkerPlaced, Of
  <2> QED
    BY <1>2, <2>1, WorkerIds
<1> QED
  BY <1>3, <1>4 DEF RowsKept, RowsFor

-----------------------------------------------------------------------------
(* The pool and the page                                                     *)

LEMMA CallbacksInit == Init => Callbacks
<1> SUFFICES ASSUME Init PROVE Callbacks
  OBVIOUS
<1>1. /\ \A w \in Workers : DOMAIN toWorker[w] = {}
      /\ \A t \in Tasks : given[t] = {} /\ DOMAIN query[t] = {}
  BY DEF Init
<1> QED
  BY <1>1 DEF Callbacks, OwnFor, RowsFor

LEMMA PoolCallbacks ==
    ASSUME IInv, Links, Callbacks, NEW t \in Tasks,
           SettingsChanged \/ RemoveIdle \/ RunOnIdle(t) \/ RunOnNew(t) \/ RunLater(t)
    PROVE  Callbacks'
<1>1. UNCHANGED <<slot, given, query, overlapped, nested>>
  BY DEF SettingsChanged, RemoveIdle, RunOnIdle, RunOnNew, RunLater, scriptVars
<1>2. RowsKept(toWorker, toWorker', {})
  <2>1. CASE SettingsChanged \/ RunLater(t)
    BY <2>1 DEF SettingsChanged, RunLater, RowsKept
  <2>2. CASE RemoveIdle
    BY <2>2, RemoveIdleRows
  <2>3. CASE RunOnIdle(t)
    <3>1. Assign(t, Head(idle)) /\ idle # <<>> /\ idle \in Seq(Workers)
      BY <2>3 DEF RunOnIdle, IInv, TypeOK
    <3>2. Head(idle) \in Workers
      BY <3>1, HeadTailTyped
    <3> QED
      BY <3>1, <3>2, AssignRows
  <2>4. CASE RunOnNew(t)
    <3>1. Assign(t, created') /\ created < MaxWorkers /\ created' = created + 1
      BY <2>4 DEF RunOnNew
    <3>2. created' \in Workers
      BY <3>1, PoolAssumption DEF IInv, TypeOK, Workers
    <3> QED
      BY <3>1, <3>2, AssignRows
  <2> QED
    BY <2>1, <2>2, <2>3, <2>4
<1> QED
  BY <1>1, <1>2, StillCallbacks

LEMMA OnFinalCallbacks == ASSUME IInv, Links, Callbacks, NEW w \in Workers, OnFinal(w) PROVE Callbacks'
<1>1. toPage[w] # <<>> /\ Release(Head(toPage[w]).task) /\ UNCHANGED <<slot, given, query, overlapped, nested>>
  BY DEF OnFinal, scriptVars
<1>2. Head(toPage[w]).task \in Tasks
  <2>1. toPage[w] \in Seq(ToPage)
    BY NowTyped DEF Typed
  <2>2. Head(toPage[w]) \in ToPage
    BY <1>1, <2>1, HeadTailTyped
  <2> QED
    BY <2>2 DEF ToPage, Messages
<1> QED
  BY <1>1, <1>2, ReleaseRows, StillCallbacks

(* A posted query is executed, or an executed one fails: it has no answer. *)
LEMMA UnansweredCallbacks ==
    ASSUME IInv, Callbacks, NEW t \in Tasks, NEW q \in DOMAIN query[t],
           query[t][q] \in Open, NEW state \in {"running", "failed"},
           NowIs(t, q, state, query, query'), UNCHANGED <<slot, given, overlapped, nested>>,
           RowsKept(toWorker, toWorker', {})
    PROVE  Callbacks'
<1>1. RowsKept(toWorker, toWorker', {t}) /\ \A r \in Nat : RowsFor(toWorker', t, r) <=> RowsFor(toWorker, t, r)
  BY DEF RowsKept
<1>2. /\ DOMAIN query'[t] = DOMAIN query[t] /\ \A v \in Tasks \ {t} : query'[v] = query[v]
      /\ \A r \in DOMAIN query[t] : query'[t][r] = IF r = q THEN state ELSE query[t][r]
      /\ DOMAIN query[t] \subseteq Nat
  BY QueryNumbers DEF NowIs
<1>3. ASSUME t \notin Apart' PROVE OwnFor(t, slot'[t], given'[t], query'[t], toWorker')
  <2>1. OwnFor(t, slot[t], given[t], query[t], toWorker)
    BY <1>3 DEF Callbacks, Apart
  <2> QED
    BY <1>1, <1>2, <2>1 DEF OwnFor, Open
<1>4. \A v \in Tasks \ {t} : v \in Apart => v \in Apart'
  BY DEF Apart
<1> QED
  BY <1>1, <1>2, <1>3, <1>4, OneOwn

LEMMA FailQueryCallbacks ==
    ASSUME IInv, Links, Callbacks, NEW t \in Tasks, NEW q \in 1..Used(t), FailQuery(t, q)
    PROVE  Callbacks'
<1>1. q \in DOMAIN query[t] /\ query[t][q] = "running"
  BY QueryNumbers DEF FailQuery
<1>2. /\ Becomes(t, q, "failed", query, query') /\ Release(t)
      /\ UNCHANGED <<slot, given, overlapped, nested>>
  BY DEF FailQuery, Becomes, scriptVars
<1>3. query \in [Tasks -> Seq(QueryStates)] /\ "failed" \in QueryStates
  BY NowTyped DEF Typed, QueryStates
<1>4. NowIs(t, q, "failed", query, query')
  BY <1>1, <1>2, <1>3, BecomesAt
<1> QED
  BY <1>1, <1>2, <1>4, ReleaseRows, UnansweredCallbacks DEF Open

LEMMA OnQueryCallbacks == ASSUME IInv, Links, Callbacks, NEW w \in Workers, OnQuery(w) PROVE Callbacks'
<1> DEFINE m == toPage[w][1]
           t == m.task
           q == m.query
<1>1. /\ toPage \in [Workers -> Seq(ToPage)] /\ Takes(w, toPage, toPage')
      /\ query \in [Tasks -> Seq(QueryStates)] /\ "running" \in QueryStates
  BY NowTyped DEF Typed, OnQuery, Takes, QueryStates
<1>2. 1 \in DOMAIN toPage[w] /\ Head(toPage[w]) = m
  BY <1>1, TakenAt
<1>3. m.kind = "sql" /\ UNCHANGED <<slot, given, overlapped, nested, toWorker>>
  BY <1>2 DEF OnQuery, scriptVars
<1>4. t \in Tasks /\ q \in DOMAIN query[t] /\ query[t][q] \in Open
  BY <1>2, <1>3, NowTyped, MessageAt DEF Links, Placed, ToPagePlaced, Told, Open
<1>5. Becomes(t, q, "running", query, query') \/ UNCHANGED query
  BY <1>2 DEF OnQuery, Becomes
<1> HIDE DEF m
<1>7. RowsKept(toWorker, toWorker', {})
  BY <1>3 DEF RowsKept
<1>8. CASE Becomes(t, q, "running", query, query')
  <2>1. NowIs(t, q, "running", query, query')
    BY <1>1, <1>4, <1>8, BecomesAt
  <2> QED
    BY <1>3, <1>4, <1>7, <2>1, UnansweredCallbacks
<1>9. CASE UNCHANGED query
  BY <1>3, <1>7, <1>9, StillCallbacks
<1> QED
  BY <1>5, <1>8, <1>9

LEMMA AnswerCallbacks ==
    ASSUME IInv, Links, Callbacks, NEW t \in Tasks, NEW q \in 1..Used(t), Answer(t, q)
    PROVE  Callbacks'
<1> DEFINE w == worker[t]
<1>1. q \in DOMAIN query[t] /\ query[t][q] = "running" /\ DOMAIN query[t] \subseteq Nat /\ q \in Nat
  BY QueryNumbers DEF Answer
<1>2. Running(t) /\ w \in Workers
  BY <1>1, ExecutedRuns
<1>3. /\ Becomes(t, q, "answered", query, query') /\ Answers(t, q, w, toWorker, toWorker')
      /\ UNCHANGED <<slot, given, overlapped, nested>>
  BY <1>2 DEF Answer, Becomes, Answers, scriptVars
<1> HIDE DEF w
<1>4. /\ query \in [Tasks -> Seq(QueryStates)] /\ "answered" \in QueryStates
      /\ toWorker \in [Workers -> Seq(ToWorker)]
  BY NowTyped DEF Typed, QueryStates
<1>5. NowIs(t, q, "answered", query, query')
  BY <1>1, <1>3, <1>4, BecomesAt
<1>6. /\ RowsKept(toWorker, toWorker', {t})
      /\ \A r \in Nat : RowsFor(toWorker', t, r) <=> RowsFor(toWorker, t, r) \/ r = q
  BY <1>1, <1>2, <1>3, <1>4, RowsSent
<1>7. /\ DOMAIN query'[t] = DOMAIN query[t] /\ \A v \in Tasks \ {t} : query'[v] = query[v]
      /\ \A r \in DOMAIN query[t] : query'[t][r] = IF r = q THEN "answered" ELSE query[t][r]
  BY <1>5 DEF NowIs
<1>8. ASSUME t \notin Apart' PROVE OwnFor(t, slot'[t], given'[t], query'[t], toWorker')
  <2>1. OwnFor(t, slot[t], given[t], query[t], toWorker)
    BY <1>3, <1>8 DEF Callbacks, Apart
  <2> QED
    BY <1>1, <1>3, <1>6, <1>7, <2>1 DEF OwnFor, Open
<1>9. \A v \in Tasks \ {t} : v \in Apart => v \in Apart'
  BY <1>3 DEF Apart
<1> QED
  BY <1>3, <1>6, <1>7, <1>8, <1>9, OneOwn

-----------------------------------------------------------------------------
(* The workers                                                               *)

(* Task t, of which the worker took the rows of query q, waits for nothing *)
(* else: whatever it asked for before was answered to its own callback.    *)
Served(t, q) ==
    /\ q \in DOMAIN query[t] /\ query[t][q] = "answered" /\ q # None
    /\ t \notin Apart =>
          /\ slot[t] = q /\ \A r \in Nat : ~RowsFor(toWorker', t, r)
          /\ \A pair \in given[t] : pair[1] = pair[2]
          /\ \A r \in DOMAIN query[t] : /\ query[t][r] \notin Open
                                        /\ query[t][r] = "answered" => r = q \/ <<r, r>> \in given[t]

LEMMA RowsServed ==
    ASSUME IInv, Links, Callbacks, NEW w \in Workers, NEW t \in Tasks, Listens(w, t, "rows")
    PROVE  Served(t, toWorker[w][1].query) /\ RowsKept(toWorker, toWorker', {t})
<1> DEFINE q == toWorker[w][1].query
<1>1. toWorker \in [Workers -> Seq(ToWorker)] /\ Takes(w, toWorker, toWorker')
  BY NowTyped DEF Typed, Listens
<1>2. /\ 1 \in DOMAIN toWorker[w]
      /\ \A v \in Workers : v # w => toWorker'[v] = toWorker[v]
      /\ \A i \in DOMAIN toWorker'[w] :
            i \in Nat \ {0} /\ i + 1 \in DOMAIN toWorker[w] /\ toWorker'[w][i] = toWorker[w][i + 1]
  BY <1>1, TakenAt
<1>3. /\ RowsKept(toWorker, toWorker', {t})
      /\ \A r \in Nat : RowsFor(toWorker', t, r) => RowsFor(toWorker, t, r)
      /\ \A r \in Nat : RowsFor(toWorker, t, r) /\ q # r => RowsFor(toWorker', t, r)
  BY <1>1, FirstRows DEF Listens
<1>4. ToWorkerPlaced(worker, toWorker, query) /\ DOMAIN query[t] = 1..Used(t) /\ Used(t) \in Nat
  BY QueryNumbers DEF Links, Placed
<1>5. Of(toWorker[w][1], t, {"rows"})
  BY DEF Of, Listens
<1>6. q \in DOMAIN query[t] /\ query[t][q] = "answered" /\ worker[t] = w
  BY <1>2, <1>4 DEF ToWorkerPlaced, Listens
<1>7. ~RowsFor(toWorker', t, q)
  <2> SUFFICES ASSUME NEW v \in Workers, NEW i \in DOMAIN toWorker'[v],
                      Of(toWorker'[v][i], t, {"rows"}), toWorker'[v][i].query = q
               PROVE  FALSE
    BY DEF RowsFor
  <2>1. CASE v = w
    <3>1. i \in Nat \ {0} /\ i + 1 \in DOMAIN toWorker[w] /\ toWorker'[w][i] = toWorker[w][i + 1]
      BY <1>2, <2>1
    <3>2. i + 1 = 1
      BY <1>2, <1>4, <1>5, <2>1, <3>1 DEF ToWorkerPlaced, Of
    <3> QED
      BY <3>1, <3>2
  <2>2. CASE v # w
    <3>1. worker[t] = v
      BY <1>2, <1>4, <2>2 DEF ToWorkerPlaced, Of
    <3> QED
      BY <1>6, <2>2, <3>1
  <2> QED
    BY <2>1, <2>2
<1>8. RowsFor(toWorker, t, q)
  BY <1>2, <1>5 DEF RowsFor
<1> HIDE DEF q
<1>9. q # None /\ q \in Nat
  BY <1>4, <1>6 DEF None
<1>10. ASSUME t \notin Apart
       PROVE  /\ slot[t] = q /\ \A r \in Nat : ~RowsFor(toWorker', t, r)
              /\ \A pair \in given[t] : pair[1] = pair[2]
              /\ \A r \in DOMAIN query[t] :
                    /\ query[t][r] \notin Open
                    /\ query[t][r] = "answered" => r = q \/ <<r, r>> \in given[t]
  <2>1. OwnFor(t, slot[t], given[t], query[t], toWorker)
    BY <1>10 DEF Callbacks
  <2>2. slot[t] = q
    BY <1>8, <1>9, <2>1 DEF OwnFor
  <2>3. \A r \in Nat : ~RowsFor(toWorker', t, r)
    BY <1>3, <1>7, <2>1, <2>2 DEF OwnFor
  <2>4. \A r \in DOMAIN query[t] : query[t][r] \notin Open
    BY <1>6, <2>1, <2>2 DEF OwnFor, Open
  <2>5. ASSUME NEW r \in DOMAIN query[t], query[t][r] = "answered", r # q
        PROVE  <<r, r>> \in given[t]
    <3>1. r \in Nat
      BY <1>4
    <3>2. ~RowsFor(toWorker, t, r)
      BY <1>3, <2>3, <2>5, <3>1
    <3> QED
      BY <2>1, <2>5, <3>2 DEF OwnFor
  <2> QED
    BY <2>1, <2>2, <2>3, <2>4, <2>5 DEF OwnFor
<1> QED
  BY <1>3, <1>6, <1>9, <1>10 DEF Served, q

(* At most one query is posted, and its callback takes the place.          *)
LEMMA PostedOwn ==
    ASSUME IInv, NEW t \in Tasks, NEW n \in Nat, NEW how \in Hows, Posted(t, n, how), n <= 1,
           n = 1 => slot'[t] = Used(t) + 1,
           \A r \in Nat : ~RowsFor(toWorker', t, r),
           \A pair \in given'[t] : pair[1] = pair[2],
           \A r \in DOMAIN query[t] : /\ query[t][r] \notin Open
                                      /\ query[t][r] = "answered" => <<r, r>> \in given'[t]
    PROVE  OwnFor(t, slot'[t], given'[t], query'[t], toWorker')
<1>1. /\ Used(t) \in Nat /\ DOMAIN query[t] = 1..Used(t) /\ DOMAIN query'[t] = 1 .. Used(t) + n
      /\ \A q \in 1..Used(t) : query'[t][q] = query[t][q]
      /\ \A q \in Used(t) + 1 .. Used(t) + n : query'[t][q] = how
  BY DEF Posted
<1>2. ASSUME NEW q \in DOMAIN query'[t]
      PROVE  \/ q \in DOMAIN query[t] /\ query'[t][q] = query[t][q]
             \/ n = 1 /\ q = Used(t) + 1 /\ query'[t][q] = how
  <2>1. CASE q \in 1..Used(t)
    BY <1>1, <2>1
  <2>2. CASE q \notin 1..Used(t)
    <3>1. n = 1 /\ q = Used(t) + 1
      BY <1>1, <1>2, <2>2
    <3>2. q \in Used(t) + 1 .. Used(t) + n
      BY <1>1, <3>1
    <3> QED
      BY <1>1, <3>1, <3>2
  <2> QED
    BY <2>1, <2>2
<1>3. how # "answered" /\ how \in Open
  BY DEF Hows, Open
<1> QED
  BY <1>2, <1>3 DEF OwnFor

(* At most one callback takes the place of one that was called.            *)
LEMMA NotApart ==
    ASSUME NEW t \in Tasks, NEW n \in Nat, Overlap(t, n), nested \subseteq nested'
    PROVE  /\ \A v \in Tasks : v \in Apart => v \in Apart'
           /\ t \notin Apart' => t \notin Apart /\ n <= 1
BY DEF Overlap, Apart

(* New queries of a script that waits for no other.                        *)
LEMMA PostedCallbacks ==
    ASSUME IInv, Callbacks, NEW t \in Tasks, NEW n \in Nat, NEW how \in Hows, NEW place,
           Posted(t, n, how), Overlap(t, n), nested \subseteq nested',
           slot' = [slot EXCEPT ![t] = IF n > 0 THEN Used(t) + n ELSE place],
           RowsKept(toWorker, toWorker', {t}), \A v \in Tasks \ {t} : given'[v] = given[v],
           t \notin Apart =>
              /\ \A r \in Nat : ~RowsFor(toWorker', t, r)
              /\ \A pair \in given'[t] : pair[1] = pair[2]
              /\ \A r \in DOMAIN query[t] : /\ query[t][r] \notin Open
                                            /\ query[t][r] = "answered" => <<r, r>> \in given'[t]
    PROVE  Callbacks'
<1>1. slot \in [Tasks -> Nat]
  BY DEF IInv, TypeOK
<1>2. /\ \A v \in Tasks : v \in Apart => v \in Apart'
      /\ t \notin Apart' => t \notin Apart /\ n <= 1
  BY NotApart
<1>3. \A v \in Tasks \ {t} : /\ slot'[v] = slot[v] /\ given'[v] = given[v] /\ query'[v] = query[v]
                             /\ (v \in Apart => v \in Apart')
  BY <1>1, <1>2 DEF Posted
<1>4. ASSUME t \notin Apart' PROVE OwnFor(t, slot'[t], given'[t], query'[t], toWorker')
  <2>1. t \notin Apart /\ n <= 1
    BY <1>2, <1>4
  <2>2. n = 1 => slot'[t] = Used(t) + 1
    BY <1>1
  <2> QED
    BY <2>1, <2>2, PostedOwn
<1> QED
  BY <1>3, <1>4, OneOwn

(* The script runs on.                                                     *)
LEMMA RunScriptCallbacks ==
    ASSUME IInv, Callbacks, NEW w \in Workers, NEW t \in Tasks, NEW n \in Nat,
           NEW awaited, NEW first, RunScript(t, w, n, awaited, first), UNCHANGED nested,
           RowsKept(toWorker, toWorker', {t}), \A v \in Tasks \ {t} : given'[v] = given[v],
           t \notin Apart =>
              /\ \A r \in Nat : ~RowsFor(toWorker', t, r)
              /\ \A pair \in given'[t] : pair[1] = pair[2]
              /\ \A r \in DOMAIN query[t] : /\ query[t][r] \notin Open
                                            /\ query[t][r] = "answered" => <<r, r>> \in given'[t]
    PROVE  Callbacks'
<1>1. /\ Posted(t, n, "posted") /\ Overlap(t, n) /\ "posted" \in Hows
      /\ slot' = [slot EXCEPT ![t] = IF n > 0 THEN Used(t) + n ELSE None]
  BY PostAt DEF RunScript, CallbackAt, Hows
<1> QED
  BY <1>1, PostedCallbacks

LEMMA OnCodeCallbacks == ASSUME IInv, Links, Callbacks, NEW w \in Workers, OnCode(w) PROVE Callbacks'
<1> DEFINE t == toWorker[w][1].task
<1>1. toWorker \in [Workers -> Seq(ToWorker)] /\ Takes(w, toWorker, toWorker')
  BY NowTyped DEF Typed, OnCode, Received, Takes
<1>2. 1 \in DOMAIN toWorker[w] /\ Head(toWorker[w]) = toWorker[w][1]
  BY <1>1, TakenAt
<1>3. /\ toWorker[w][1].kind = "code" /\ UNCHANGED <<given, nested>>
      /\ \E n \in Free : \E awaited \in SUBSET (Used(t) + 1 .. Used(t) + n) :
            RunScript(t, w, n, awaited, <<>>)
  BY <1>2 DEF OnCode
<1>4. t \in Tasks /\ script[t] = "none"
  BY <1>2, <1>3, NowTyped, MessageAt DEF Links, Placed, ToWorkerPlaced
<1>5. RowsKept(toWorker, toWorker', {}) /\ RowsKept(toWorker, toWorker', {t})
  BY <1>1, <1>3, FirstRows
<1> HIDE DEF t
<1>6. PICK n \in Nat : \E awaited \in SUBSET (Used(t) + 1 .. Used(t) + n) :
            RunScript(t, w, n, awaited, <<>>)
  BY <1>3, FreeIsNat
<1>7. PICK awaited \in SUBSET (Used(t) + 1 .. Used(t) + n) : RunScript(t, w, n, awaited, <<>>)
  BY <1>6
<1>10. \A r \in Nat : ~RowsFor(toWorker', t, r)
  <2>1. \A r \in Nat : ~RowsFor(toWorker, t, r)
    BY <1>4 DEF Links, Placed, ToWorkerPlaced, RowsFor, Of
  <2> QED
    BY <1>4, <1>5, <2>1 DEF RowsKept
<1>8. DOMAIN query[t] = {}
  BY <1>4 DEF Links, Fresh
<1>9. t \notin Apart => \A pair \in given'[t] : pair[1] = pair[2]
  BY <1>3, <1>4 DEF Callbacks, OwnFor
<1> QED
  BY <1>3, <1>4, <1>5, <1>7, <1>8, <1>9, <1>10, RunScriptCallbacks

(* The answer is given to the callback that is there.                      *)
Taken(t, q) == given' = [given EXCEPT ![t] = @ \cup {<<slot[t], q>>}]

LEMMA TakenOwn ==
    ASSUME IInv, NEW t \in Tasks, NEW q, Taken(t, q), Served(t, q)
    PROVE  /\ \A v \in Tasks \ {t} : given'[v] = given[v]
           /\ t \notin Apart =>
                 /\ \A r \in Nat : ~RowsFor(toWorker', t, r)
                 /\ \A pair \in given'[t] : pair[1] = pair[2]
                 /\ \A r \in DOMAIN query[t] : /\ query[t][r] \notin Open
                                               /\ query[t][r] = "answered" => <<r, r>> \in given'[t]
<1>1. given \in [Tasks -> SUBSET (Nat \X Nat)]
  BY DEF IInv, TypeOK
<1>2. given'[t] = given[t] \cup {<<slot[t], q>>} /\ \A v \in Tasks \ {t} : given'[v] = given[v]
  BY <1>1 DEF Taken
<1> QED
  BY <1>2 DEF Served

(* The callback is called: nothing else of its script is left.             *)
LEMMA CalledAlone ==
    ASSUME IInv, Links, Callbacks, NEW w \in Workers, Called(w), UNCHANGED poolVars
    PROVE  /\ Head(toWorker[w]) = toWorker[w][1] /\ toWorker[w][1].task \in Tasks
           /\ RowsKept(toWorker, toWorker', {toWorker[w][1].task})
           /\ \A v \in Tasks \ {toWorker[w][1].task} : given'[v] = given[v]
           /\ toWorker[w][1].task \notin Apart => LET t == toWorker[w][1].task IN
                 /\ \A r \in Nat : ~RowsFor(toWorker', t, r)
                 /\ \A pair \in given'[t] : pair[1] = pair[2]
                 /\ \A r \in DOMAIN query[t] : /\ query[t][r] \notin Open
                                               /\ query[t][r] = "answered" => <<r, r>> \in given'[t]
<1> DEFINE t == toWorker[w][1].task
           q == toWorker[w][1].query
<1>1. Head(toWorker[w]) = toWorker[w][1] /\ t \in Tasks /\ Listens(w, t, "rows")
  BY RowsTaken DEF Called
<1>2. Taken(t, q)
  BY <1>1 DEF Called, Taken
<1>3. Served(t, q) /\ RowsKept(toWorker, toWorker', {t})
  BY <1>1, RowsServed
<1> HIDE DEF t, q
<1>4. /\ \A v \in Tasks \ {t} : given'[v] = given[v]
      /\ t \notin Apart =>
            /\ \A r \in Nat : ~RowsFor(toWorker', t, r)
            /\ \A pair \in given'[t] : pair[1] = pair[2]
            /\ \A r \in DOMAIN query[t] : /\ query[t][r] \notin Open
                                          /\ query[t][r] = "answered" => <<r, r>> \in given'[t]
  BY <1>1, <1>2, <1>3, TakenOwn
<1> QED
  BY <1>1, <1>3, <1>4 DEF t

LEMMA OnAwaitedCallbacks ==
    ASSUME IInv, Links, Callbacks, NEW w \in Workers, OnAwaited(w) PROVE Callbacks'
<1> DEFINE t == toWorker[w][1].task
           done == <<Message(t, "done", None)>>
<1>1. Called(w) /\ UNCHANGED poolVars /\ UNCHANGED nested
  BY DEF OnAwaited
<1>2. /\ Head(toWorker[w]) = toWorker[w][1] /\ t \in Tasks
      /\ RowsKept(toWorker, toWorker', {t}) /\ \A v \in Tasks \ {t} : given'[v] = given[v]
      /\ t \notin Apart =>
            /\ \A r \in Nat : ~RowsFor(toWorker', t, r)
            /\ \A pair \in given'[t] : pair[1] = pair[2]
            /\ \A r \in DOMAIN query[t] : /\ query[t][r] \notin Open
                                          /\ query[t][r] = "answered" => <<r, r>> \in given'[t]
  BY <1>1, CalledAlone
<1>3. \E n \in Free : \E awaited \in SUBSET (Used(t) + 1 .. Used(t) + n) :
         RunScript(t, w, n, awaited, done)
  BY <1>2 DEF OnAwaited
<1> HIDE DEF t, done
<1>4. PICK n \in Nat : \E awaited \in SUBSET (Used(t) + 1 .. Used(t) + n) :
            RunScript(t, w, n, awaited, done)
  BY <1>3, FreeIsNat
<1>5. PICK awaited \in SUBSET (Used(t) + 1 .. Used(t) + n) : RunScript(t, w, n, awaited, done)
  BY <1>4
<1> QED
  BY <1>1, <1>2, <1>5, RunScriptCallbacks

LEMMA OnFloatingCallbacks ==
    ASSUME IInv, Links, Callbacks, NEW w \in Workers, OnFloating(w) \/ OnThrow(w)
    PROVE  Callbacks'
<1> DEFINE t == toWorker[w][1].task
<1>1. Called(w) /\ UNCHANGED poolVars /\ UNCHANGED nested
  BY DEF OnFloating, OnThrow
<1>2. /\ Head(toWorker[w]) = toWorker[w][1] /\ t \in Tasks
      /\ RowsKept(toWorker, toWorker', {t}) /\ \A v \in Tasks \ {t} : given'[v] = given[v]
      /\ t \notin Apart =>
            /\ \A r \in Nat : ~RowsFor(toWorker', t, r)
            /\ \A pair \in given'[t] : pair[1] = pair[2]
            /\ \A r \in DOMAIN query[t] : /\ query[t][r] \notin Open
                                          /\ query[t][r] = "answered" => <<r, r>> \in given'[t]
  BY <1>1, CalledAlone
<1>3. \E n \in Free : \E how \in Hows : \E place \in {None, slot[t]} :
         Post(t, n, how) /\ Overlap(t, n) /\ CallbackAt(t, n, place)
  BY <1>2 DEF OnFloating, OnThrow, Hows
<1> HIDE DEF t
<1>4. PICK n \in Nat, how \in Hows, place \in {None, slot[t]} :
         Post(t, n, how) /\ Overlap(t, n) /\ CallbackAt(t, n, place)
  BY <1>3, FreeIsNat
<1>5. Posted(t, n, how) /\ slot' = [slot EXCEPT ![t] = IF n > 0 THEN Used(t) + n ELSE place]
  BY <1>2, <1>4, PostAt DEF CallbackAt
<1> QED
  BY <1>1, <1>2, <1>4, <1>5, PostedCallbacks

(* What a function asks for loses its callback: its script is nested.      *)
LEMMA OnCallbackCallbacks ==
    ASSUME IInv, Links, Callbacks, NEW w \in Workers, OnCallback(w) PROVE Callbacks'
<1> DEFINE t == toWorker[w][1].task
<1>1. Called(w) /\ UNCHANGED poolVars
  BY DEF OnCallback
<1>2. /\ Head(toWorker[w]) = toWorker[w][1] /\ t \in Tasks
      /\ RowsKept(toWorker, toWorker', {t}) /\ \A v \in Tasks \ {t} : given'[v] = given[v]
      /\ t \notin Apart =>
            /\ \A r \in Nat : ~RowsFor(toWorker', t, r)
            /\ \A pair \in given'[t] : pair[1] = pair[2]
            /\ \A r \in DOMAIN query[t] : /\ query[t][r] \notin Open
                                          /\ query[t][r] = "answered" => <<r, r>> \in given'[t]
  BY <1>1, CalledAlone
<1>3. \E n \in Free : /\ Post(t, n, "posted") /\ Overlap(t, n) /\ CallbackAt(t, 0, None)
                     /\ nested' = IF n > 0 THEN nested \cup {t} ELSE nested
  BY <1>2 DEF OnCallback
<1> HIDE DEF t
<1>4. PICK n \in Nat : /\ Post(t, n, "posted") /\ Overlap(t, n) /\ CallbackAt(t, 0, None)
                     /\ nested' = IF n > 0 THEN nested \cup {t} ELSE nested
  BY <1>3, FreeIsNat
<1>5. /\ Posted(t, n, "posted") /\ "posted" \in Hows /\ nested \subseteq nested'
      /\ slot' = [slot EXCEPT ![t] = None]
  BY <1>2, <1>4, PostAt DEF CallbackAt, Hows
<1>6. CASE n = 0
  <2>1. slot' = [slot EXCEPT ![t] = IF n > 0 THEN Used(t) + n ELSE None]
    BY <1>5, <1>6
  <2> QED
    BY <1>2, <1>4, <1>5, <2>1, PostedCallbacks
<1>7. CASE n # 0
  <2>1. t \in Apart' /\ \A v \in Tasks : v \in Apart => v \in Apart'
    BY <1>2, <1>4, <1>5, <1>7, NotApart DEF Apart
  <2>2. \A v \in Tasks \ {t} : slot'[v] = slot[v] /\ query'[v] = query[v]
    BY <1>5 DEF Posted, IInv, TypeOK
  <2> QED
    BY <1>2, <2>1, <2>2, OneOwn
<1> QED
  BY <1>6, <1>7

LEMMA OnRowsCallbacks == ASSUME IInv, Links, Callbacks, NEW w \in Workers, OnRows(w) PROVE Callbacks'
<1> DEFINE t == toWorker[w][1].task
<1>1. Head(toWorker[w]) = toWorker[w][1] /\ t \in Tasks /\ Listens(w, t, "rows")
  BY RowsTaken DEF OnRows
<1>2. slot[t] = None /\ UNCHANGED <<slot, given, query, overlapped, nested>>
  BY <1>1 DEF OnRows, scriptVars
<1>3. Served(t, toWorker[w][1].query) /\ RowsKept(toWorker, toWorker', {t})
  BY <1>1, RowsServed
<1> HIDE DEF t
<1>4. t \in Apart' /\ \A v \in Tasks : v \in Apart => v \in Apart'
  BY <1>2, <1>3 DEF Served, Apart
<1> QED
  BY <1>1, <1>2, <1>3, <1>4, OneOwn

LEMMA OnCleanupCallbacks ==
    ASSUME IInv, Links, Callbacks, NEW w \in Workers, OnCleanup(w) PROVE Callbacks'
<1>1. /\ toWorker \in [Workers -> Seq(ToWorker)] /\ Takes(w, toWorker, toWorker')
      /\ UNCHANGED <<slot, given, query, overlapped, nested>>
  BY NowTyped DEF Typed, OnCleanup, Received, Takes, scriptVars
<1>2. Head(toWorker[w]) = toWorker[w][1]
  BY <1>1, TakenAt
<1>3. RowsKept(toWorker, toWorker', {})
  <2>1. toWorker[w][1].kind # "rows"
    BY <1>2 DEF OnCleanup
  <2> QED
    BY <1>1, <2>1, FirstRows
<1> QED
  BY <1>1, <1>3, StillCallbacks

LEMMA NextCallbacks == IInv /\ Links /\ Callbacks /\ [Next]_vars => Callbacks'
<1> SUFFICES ASSUME IInv, Links, Callbacks, [Next]_vars PROVE Callbacks'
  OBVIOUS
<1>1. CASE SettingsChanged \/ RemoveIdle
  <2>1. CASE Tasks = {}
    <3>1. Tasks \ Apart' = {}
      BY <2>1
    <3> QED
      BY <3>1 DEF Callbacks
  <2>2. CASE Tasks # {}
    <3>1. PICK t \in Tasks : TRUE
      BY <2>2
    <3> QED
      BY <1>1, PoolCallbacks
  <2> QED
    BY <2>1, <2>2
<1>3. ASSUME NEW t \in Tasks, RunOnIdle(t) \/ RunOnNew(t) \/ RunLater(t) PROVE Callbacks'
  BY <1>3, PoolCallbacks
<1>4. ASSUME NEW t \in Tasks, QueryEnds(t) PROVE Callbacks'
  BY <1>4, AnswerCallbacks, FailQueryCallbacks DEF QueryEnds
<1>5. ASSUME NEW w \in Workers, PageStep(w) PROVE Callbacks'
  BY <1>5, OnQueryCallbacks, OnFinalCallbacks DEF PageStep
<1>6. ASSUME NEW w \in Workers, WorkerStep(w) PROVE Callbacks'
  BY <1>6, OnCodeCallbacks, OnAwaitedCallbacks, OnFloatingCallbacks, OnCallbackCallbacks,
     OnRowsCallbacks, OnCleanupCallbacks DEF WorkerStep
<1>7. CASE UNCHANGED vars
  <2>1. UNCHANGED <<slot, given, query, overlapped, nested, toWorker>>
    BY <1>7 DEF vars, scriptVars
  <2>2. RowsKept(toWorker, toWorker', {})
    BY <2>1 DEF RowsKept
  <2> QED
    BY <2>1, <2>2, StillCallbacks
<1> QED
  BY <1>1, <1>3, <1>4, <1>5, <1>6, <1>7 DEF Next

(* A script that runs one query at a time, and none in a function that is  *)
(* called with an answer (runQuery of runtime/query.ts, the listener of    *)
(* console.worker.ts): the callback in the one place of pendingRequests is *)
(* that of the query that is answered, whatever the user, the timer and    *)
(* the other scripts do in between, and none of its answers is left when   *)
(* it gives its worker back.                                               *)
THEOREM AnswersTheirOwn == Spec => []OwnAnswer
<1>1. IInv /\ Links /\ Callbacks => OwnAnswer
  <2> SUFFICES ASSUME IInv, Links, Callbacks, NEW t \in started \ (overlapped \cup nested)
               PROVE  /\ \A pair \in given[t] : pair[1] = pair[2]
                      /\ ~Running(t) =>
                            \A q \in DOMAIN query[t] : query[t][q] = "answered" => <<q, q>> \in given[t]
    BY DEF OwnAnswer
  <2>1. t \in Tasks /\ OwnFor(t, slot[t], given[t], query[t], toWorker)
    BY DEF Callbacks, Apart, IInv, TypeOK
  <2>2. ASSUME ~Running(t), NEW q PROVE ~RowsFor(toWorker, t, q)
    BY <2>1, <2>2, WorkerIds DEF Links, Placed, ToWorkerPlaced, RowsFor, Of, Running
  <2> QED
    BY <2>1, <2>2 DEF OwnFor
<1>2. Init => Callbacks
  BY CallbacksInit
<1>3. IInv /\ Links /\ Callbacks /\ [Next]_vars => Callbacks'
  BY NextCallbacks
<1> QED
  BY <1>1, <1>2, <1>3, LinksKept, PTL DEF Spec
=============================================================================
