------------------------ MODULE ScriptExecution_proofs ------------------------
(* The proofs about ScriptExecution: its values have the types that are      *)
(* declared, and no statement passes silently, whatever runs, fails, is      *)
(* asked for again or is hidden meanwhile; what is shown is what is stored.  *)
EXTENDS ScriptExecution, FunctionTheorems, SequenceTheorems, TLAPS

-----------------------------------------------------------------------------
(* The inductive invariant                                                   *)

Modes == {"new", "clear", "history", "clear again", "prepare", "execute", "done"}
JobTypes == [script : Seq(Kinds), stop : BOOLEAN, text : BOOLEAN, old : Ids \cup {NoId}]

(* A run produces results of its own; the variables of the executor are    *)
(* functions of the processes.                                             *)
JobsTyped ==
    /\ job \in [Procs -> JobTypes] /\ \A r \in Runs : job[r].old = NoId
    /\ pos \in [Procs -> Nat] /\ DOMAIN sub = Procs

(* The requests at the backend are those of the processes that wait for it.*)
Serving ==
    /\ IsInjective(queue)
    /\ \A p \in Procs : p \in Range(queue) <=> pc[p] = "execute"
    /\ queue = <<>> => answer = NoAnswer
    /\ answer.done \/ answer.n < MaxPackets
    /\ \A p \in Procs :
          /\ pc[p] # "new" => pos[p] >= 1
          /\ pc[p] \in {"clear", "history", "clear again"} => p \in Runs /\ pos[p] = 1

IsServed(p) == queue # <<>> /\ Head(queue) = p

(* The only last packet that waits for meta data: it has no rows, and a    *)
(* select from one table has one result.                                   *)
LastOf(p, k) == [proc |-> p, pos |-> k, set |-> 0, n |-> 1, last |-> TRUE, some |-> FALSE]

(* A packet that waits for meta data is one of a statement that is or was  *)
(* executed.                                                               *)
HeldKnown ==
    \A d \in held :
       /\ pc[d.proc] # "new" /\ d.pos \in 1..pos[d.proc]
       /\ d.last => d = LastOf(d.proc, d.pos)

(* The results a statement finished, and the one of which the last packet  *)
(* waits for meta data, are not more than the backend sent.                *)
Owed(p, k) == IF LastOf(p, k) \in held THEN 1 ELSE 0
Sent(p) == IF IsServed(p) THEN answer.set + (IF answer.done THEN 1 ELSE 0) ELSE 0

Counted ==
    /\ \A p \in Procs : IsServed(p) /\ job[p].script[pos[p]] # "call" => answer.set = 0
    /\ \A p \in Procs : \A k \in 1..Len(job[p].script) :
          /\ sub[p][k] + Owed(p, k) <= MaxSets
          /\ k = pos[p] /\ pc[p] # "done" => sub[p][k] + Owed(p, k) <= Sent(p)
          /\ k > pos[p] => sub[p][k] + Owed(p, k) = 0

(* A timed result knows its id.                                            *)
PendingOwn == \A id \in DOMAIN pending : \A i \in DOMAIN pending[id] : pending[id][i].id = id

(* While the tab is hidden or loads, its results are marked to be loaded.  *)
(* Result sets are only there when they are shown.                         *)
Marked ==
    /\ ~(frozen /\ loading)
    /\ type # "sets" => sets = <<>>
    /\ frozen \/ loading => DOMAIN sets \subseteq cached \cup cut

(* The page that is replaced is one that was asked for.                    *)
Replacing == \A p \in replace : pc[p] # "new" /\ job[p].old # NoId

IInv ==
    /\ TypeOK /\ JobsTyped /\ Serving /\ HeldKnown /\ Counted
    /\ PendingOwn /\ Marked /\ Replacing

(* Statement k of run r is shown, or will be.                              *)
Heard(r, k) == \E id \in Shown \ {SummaryId} : id[1] = r /\ id[2] = k

Alone(r) == \A q \in Runs \ {r} : pc[q] = "new"

(* Statement k of process p is done, or the backend has sent all there is. *)
Passed(p, k) ==
    k < pos[p] \/ (k = pos[p] /\ (pc[p] = "done" \/ (IsServed(p) /\ answer.done)))

AllHeard == \A r \in Runs : Alone(r) => \A k \in 1..Len(job[r].script) : Passed(r, k) => Heard(r, k)

-----------------------------------------------------------------------------
(* Sequences and functions                                                   *)

LEMMA FirstLeaves ==
    ASSUME NEW S, NEW s \in Seq(S), s # <<>>, IsInjective(s)
    PROVE  /\ Tail(s) \in Seq(S) /\ IsInjective(Tail(s))
           /\ Head(s) \in Range(s) /\ Range(Tail(s)) = Range(s) \ {Head(s)}
           /\ Tail(s) # <<>> => Head(Tail(s)) \in Range(Tail(s))
<1>1. Len(s) \in Nat \ {0} /\ DOMAIN s = 1 .. Len(s) /\ Head(s) = s[1]
  BY EmptySeq, LenProperties
<1>2. /\ Tail(s) \in Seq(S) /\ Len(Tail(s)) = Len(s) - 1
      /\ \A i \in 1 .. Len(Tail(s)) : Tail(s)[i] = s[i + 1]
  BY HeadTailProperties
<1>3. DOMAIN Tail(s) = 1 .. Len(s) - 1
  BY <1>2, LenProperties
<1>4. IsInjective(Tail(s))
  BY <1>1, <1>2, <1>3 DEF IsInjective
<1>5. Head(s) \in Range(s)
  BY <1>1 DEF Range
<1>6. ASSUME NEW x \in Range(Tail(s)) PROVE x \in Range(s) \ {Head(s)}
  <2>1. PICK i \in 1 .. Len(s) - 1 : x = Tail(s)[i]
    BY <1>3, <1>6 DEF Range
  <2>2. x = s[i + 1] /\ i + 1 \in DOMAIN s /\ i + 1 # 1
    BY <2>1, <1>1, <1>2
  <2> QED
    BY <2>2, <1>1 DEF Range, IsInjective
<1>7. ASSUME NEW x \in Range(s) \ {Head(s)} PROVE x \in Range(Tail(s))
  <2>1. PICK i \in 1 .. Len(s) : x = s[i]
    BY <1>1, <1>7 DEF Range
  <2>2. i # 1
    BY <2>1, <1>1, <1>7
  <2>3. i - 1 \in 1 .. Len(s) - 1 /\ Tail(s)[i - 1] = s[i]
    BY <2>1, <2>2, <1>1, <1>2
  <2> QED
    BY <2>1, <2>3, <1>3 DEF Range
<1>8. ASSUME Tail(s) # <<>> PROVE Head(Tail(s)) \in Range(Tail(s))
  <2>1. Len(Tail(s)) # 0
    BY <1>2, <1>8, EmptySeq
  <2>2. 1 \in DOMAIN Tail(s) /\ Head(Tail(s)) = Tail(s)[1]
    BY <1>1, <1>2, <1>3, <2>1
  <2> QED
    BY <2>2 DEF Range
<1> QED
  BY <1>2, <1>4, <1>5, <1>6, <1>7, <1>8

LEMMA LastComes ==
    ASSUME NEW S, NEW s \in Seq(S), NEW e \in S, e \notin Range(s), IsInjective(s)
    PROVE  /\ Append(s, e) \in Seq(S) /\ IsInjective(Append(s, e))
           /\ Range(Append(s, e)) = Range(s) \cup {e}
           /\ Append(s, e) # <<>> /\ Head(Append(s, e)) = IF s = <<>> THEN e ELSE Head(s)
<1> DEFINE r == Append(s, e)
           k == Len(s) + 1
<1>1. /\ r \in Seq(S) /\ Len(r) = k /\ Len(s) \in Nat /\ DOMAIN s = 1 .. Len(s)
      /\ \A i \in 1 .. Len(s) : r[i] = s[i]
      /\ r[k] = e
  BY AppendProperties, LenProperties
<1>2. DOMAIN r = 1..k /\ k \in Nat
  BY <1>1, LenProperties
<1> HIDE DEF r, k
<1>3. \A i \in DOMAIN r : i = k \/ (i \in DOMAIN s /\ r[i] = s[i])
  BY <1>1, <1>2 DEF k
<1>4. \A i \in DOMAIN s : i # k /\ i \in DOMAIN r
  BY <1>1, <1>2 DEF k
<1>5. \A i \in DOMAIN s : s[i] # e
  BY DEF Range
<1>6. IsInjective(r)
  BY <1>1, <1>3, <1>4, <1>5 DEF IsInjective
<1>7. Range(r) = Range(s) \cup {e}
  <2>1. k \in DOMAIN r
    BY <1>1, <1>2 DEF k
  <2> QED
    BY <1>1, <1>3, <1>4, <2>1 DEF Range
<1>8. Head(r) = r[1] /\ r # <<>>
  BY <1>1, EmptySeq DEF k
<1>9. CASE s = <<>>
  <2>1. Len(s) = 0
    BY <1>9
  <2> QED
    BY <1>1, <1>6, <1>7, <1>8, <1>9, <2>1 DEF k, r
<1>10. CASE s # <<>>
  <2>1. Len(s) # 0 /\ Head(s) = s[1]
    BY <1>1, <1>10, EmptySeq
  <2> QED
    BY <1>1, <1>6, <1>7, <1>8, <1>10, <2>1 DEF r
<1> QED
  BY <1>9, <1>10

(* Function g is f with value v at id.                                     *)
SetAt(f, id, v, g) ==
    /\ DOMAIN g = DOMAIN f \cup {id} /\ g[id] = v
    /\ \A x \in DOMAIN f : x # id => g[x] = f[x]

LEMMA WithAt == ASSUME NEW f, NEW id, NEW v PROVE SetAt(f, id, v, With(f, id, v))
  BY DEF SetAt, With

LEMMA Restricts ==
    ASSUME NEW f, NEW S
    PROVE  DOMAIN Restrict(f, S) = S /\ \A x \in S : Restrict(f, S)[x] = f[x]
  BY DEF Restrict

-----------------------------------------------------------------------------
(* The executor and the requests                                             *)

ExecTyped ==
    /\ pc \in [Procs -> Modes]
    /\ \A p \in Procs :
          /\ job[p].script \in Seq(Kinds) /\ job[p].old \in Ids \cup {NoId}
          /\ pos[p] \in 0..Len(job[p].script)
          /\ sub[p] \in [1..Len(job[p].script) -> 0..MaxSets]
    /\ replace \subseteq Pages
    /\ queue \in Seq(Procs)
    /\ answer \in [set : 0..MaxSets - 1, n : 0..MaxPackets, done : BOOLEAN]
    /\ held \subseteq [proc : Procs, pos : Nat, set : Nat, n : 1..MaxPackets,
                       last : BOOLEAN, some : BOOLEAN]

ViewTyped ==
    /\ \A id \in DOMAIN pending : pending[id] \in Seq(Notes) \ {<<>>}
    /\ state \in {"idle", "pending", "waiting", "loading"}
    /\ waitTimer \in BOOLEAN /\ type \in {"none", "text", "sets"}
    /\ IsResults(sets) /\ IsResults(copy) /\ IsResults(stored)
    /\ texts \subseteq Ids /\ notes \subseteq Notes
    /\ cached \subseteq Ids /\ cut \subseteq Ids \cup {SummaryId}
    /\ frozen \in BOOLEAN /\ loading \in BOOLEAN

ExecInv == ExecTyped /\ JobsTyped /\ Serving /\ HeldKnown /\ Counted
MixedTyped == mixed \subseteq {"packets", "pages"} \X (Ids \cup {NoId})

ViewInv == ViewTyped /\ PendingOwn /\ Marked /\ Replacing /\ MixedTyped

execVars == <<procVars, backendVars, held>>

LEMMA TwoParts == IInv <=> ExecInv /\ ViewInv
<1>1. TypeOK <=> ExecTyped /\ ViewTyped /\ MixedTyped
  BY DEF TypeOK, ExecTyped, ViewTyped, MixedTyped, Modes
<1> QED
  BY <1>1 DEF IInv, ExecInv, ViewInv

LEMMA StillExec == ASSUME ExecInv, UNCHANGED execVars PROVE ExecInv'
<1>1. UNCHANGED <<pc, job, pos, sub, replace, queue, answer, held>>
  BY DEF execVars, procVars, backendVars
<1>2. ExecTyped'
  BY <1>1 DEF ExecInv, ExecTyped
<1>3. JobsTyped' /\ Serving' /\ HeldKnown'
  BY <1>1 DEF ExecInv, JobsTyped, Serving, HeldKnown
<1>4. Counted'
  BY <1>1 DEF ExecInv, Counted, Owed, Sent, IsServed
<1> QED
  BY <1>2, <1>3, <1>4 DEF ExecInv

(* What the parts of ExecInv say of one process.                           *)
LEMMA ProcTyped ==
    ASSUME ExecInv, NEW p \in Procs
    PROVE  /\ pc[p] \in Modes /\ job[p] \in JobTypes /\ pos[p] \in 0..Len(job[p].script)
           /\ job[p].script \in Seq(Kinds) /\ Len(job[p].script) \in Nat
           /\ DOMAIN job[p].script = 1..Len(job[p].script)
           /\ 1..Len(job[p].script) \subseteq Nat
           /\ sub[p] \in [1..Len(job[p].script) -> 0..MaxSets]
           /\ MaxSets \in Nat \ {0} /\ MaxPackets \in Nat \ {0}
<1>1. /\ pc[p] \in Modes /\ job[p] \in JobTypes /\ pos[p] \in 0..Len(job[p].script)
      /\ sub[p] \in [1..Len(job[p].script) -> 0..MaxSets]
      /\ job[p].script \in Seq(Kinds)
  BY DEF ExecInv, ExecTyped, JobsTyped
<1>2. Len(job[p].script) \in Nat /\ DOMAIN job[p].script = 1..Len(job[p].script)
  BY <1>1, LenProperties
<1>3. 1..Len(job[p].script) \subseteq Nat
  BY <1>2
<1> QED
  BY <1>1, <1>2, <1>3, ExecutionAssumption

(* The next await of a run that clears its results.                        *)
LEMMA ClearsExec ==
    ASSUME ExecInv, NEW r \in Runs, pc[r] \in {"clear", "history", "clear again"},
           NEW m \in {"history", "clear again", "prepare"}, pc' = [pc EXCEPT ![r] = m],
           UNCHANGED <<job, pos, sub, replace, queue, answer, held>>
    PROVE  ExecInv'
<1>1. r \in Procs /\ pc \in [Procs -> Modes]
  BY DEF Procs, ExecInv, ExecTyped
<1>2. /\ pc' \in [Procs -> Modes] /\ pc'[r] = m /\ \A p \in Procs : p # r => pc'[p] = pc[p]
      /\ m \in Modes
  BY <1>1 DEF Modes
<1>3. ExecTyped'
  BY <1>2 DEF ExecInv, ExecTyped
<1>4. JobsTyped'
  BY DEF ExecInv, JobsTyped
<1>5. Serving'
  BY <1>1, <1>2 DEF ExecInv, Serving
<1>6. HeldKnown'
  BY <1>1, <1>2 DEF ExecInv, HeldKnown, ExecTyped
<1>7. Counted'
  <2>1. \A p \in Procs : /\ IsServed(p)' = IsServed(p) /\ Sent(p)' = Sent(p)
                         /\ pc'[p] # "done" => pc[p] # "done"
    BY <1>2 DEF IsServed, Sent
  <2>2. \A p \in Procs, k \in Nat : Owed(p, k)' = Owed(p, k)
    BY DEF Owed
  <2>3. ASSUME NEW p \in Procs PROVE 1..Len(job[p].script) \subseteq Nat
    BY ProcTyped
  <2> QED
    BY <2>1, <2>2, <2>3 DEF ExecInv, Counted
<1> QED
  BY <1>3, <1>4, <1>5, <1>6, <1>7 DEF ExecInv

(* A process begins.                                                       *)
LEMMA BeginsExec ==
    ASSUME ExecInv, NEW p \in Procs, pc[p] = "new", NEW j \in JobTypes, j.script # <<>>,
           p \in Runs => j.old = NoId, job' = [job EXCEPT ![p] = j],
           NEW s \in [1..Len(j.script) -> {0}], sub' = [sub EXCEPT ![p] = s],
           pos' = [pos EXCEPT ![p] = 1],
           NEW m \in {"clear", "history", "prepare"}, m # "prepare" => p \in Runs,
           pc' = [pc EXCEPT ![p] = m], UNCHANGED <<replace, queue, answer, held>>
    PROVE  ExecInv'
<1>1. /\ pc \in [Procs -> Modes] /\ job \in [Procs -> JobTypes] /\ pos \in [Procs -> Nat]
      /\ DOMAIN sub = Procs
  BY DEF ExecInv, ExecTyped, JobsTyped
<1>2. /\ pc' \in [Procs -> Modes] /\ pc'[p] = m /\ \A q \in Procs : q # p => pc'[q] = pc[q]
      /\ m \in Modes
  BY <1>1 DEF Modes
<1>3. /\ job' \in [Procs -> JobTypes] /\ job'[p] = j /\ \A q \in Procs : q # p => job'[q] = job[q]
      /\ pos' \in [Procs -> Nat] /\ pos'[p] = 1 /\ \A q \in Procs : q # p => pos'[q] = pos[q]
      /\ DOMAIN sub' = Procs /\ sub'[p] = s /\ \A q \in Procs : q # p => sub'[q] = sub[q]
  BY <1>1
<1>4. /\ j.script \in Seq(Kinds) /\ Len(j.script) \in Nat \ {0} /\ j.old \in Ids \cup {NoId}
      /\ s \in [1..Len(j.script) -> 0..MaxSets]
  <2>1. j.script \in Seq(Kinds) /\ j.old \in Ids \cup {NoId}
    BY DEF JobTypes
  <2>2. Len(j.script) \in Nat \ {0}
    BY <2>1, EmptySeq, LenProperties
  <2>3. 0 \in 0..MaxSets
    BY ExecutionAssumption
  <2> QED
    BY <2>1, <2>2, <2>3
<1>5. ExecTyped'
  <2>1. ASSUME NEW q \in Procs
        PROVE  /\ job'[q].script \in Seq(Kinds) /\ job'[q].old \in Ids \cup {NoId}
               /\ pos'[q] \in 0..Len(job'[q].script)
               /\ sub'[q] \in [1..Len(job'[q].script) -> 0..MaxSets]
    BY <1>3, <1>4 DEF ExecInv, ExecTyped
  <2> QED
    BY <1>2, <2>1 DEF ExecInv, ExecTyped
<1>6. JobsTyped'
  BY <1>3 DEF ExecInv, JobsTyped, Procs
<1>7. Serving'
  <2>1. pc[p] # "execute" /\ m # "execute" /\ 1 >= 1
    OBVIOUS
  <2>2. \A q \in Procs : q \in Range(queue) <=> pc'[q] = "execute"
    BY <1>2, <2>1 DEF ExecInv, Serving
  <2>3. ASSUME NEW q \in Procs
        PROVE  /\ pc'[q] # "new" => pos'[q] >= 1
               /\ pc'[q] \in {"clear", "history", "clear again"} => q \in Runs /\ pos'[q] = 1
    <3>1. CASE q = p
      <4>1. pc'[q] = m /\ pos'[q] = 1
        BY <1>2, <1>3, <3>1
      <4>2. m \in {"clear", "history", "clear again"} => p \in Runs
        OBVIOUS
      <4> QED
        BY <2>1, <3>1, <4>1, <4>2, Zenon
    <3>2. CASE q # p
      BY <1>2, <1>3, <3>2 DEF ExecInv, Serving
    <3> QED
      BY <3>1, <3>2
  <2> QED
    BY <2>2, <2>3 DEF ExecInv, Serving
<1>8. HeldKnown'
  BY <1>2, <1>3 DEF ExecInv, HeldKnown, ExecTyped
<1>9. Counted'
  <2>1. ~IsServed(p)
    <3>1. ASSUME IsServed(p) PROVE p \in Range(queue)
      <4>1. queue \in Seq(Procs) /\ queue # <<>> /\ Head(queue) = p /\ IsInjective(queue)
        BY <3>1 DEF ExecInv, ExecTyped, IsServed, Serving
      <4> QED
        BY <4>1, FirstLeaves
    <3> QED
      BY <3>1 DEF ExecInv, Serving
  <2>2. \A q \in Procs : IsServed(q)' = IsServed(q) /\ Sent(q)' = Sent(q)
    BY DEF IsServed, Sent
  <2>3. \A q \in Procs, k \in Nat : Owed(q, k)' = Owed(q, k)
    BY DEF Owed
  <2>4. \A k \in Nat : Owed(p, k) = 0
    BY DEF Owed, LastOf, ExecInv, HeldKnown
  <2>5. \A q \in Procs : 1..Len(job[q].script) \subseteq Nat
    BY ProcTyped
  <2>6. \A k \in 1..Len(j.script) : k \in Nat /\ s[k] = 0
    BY <1>4
  <2>7. MaxSets \in Nat /\ Sent(p) = 0
    BY <2>1, ExecutionAssumption DEF Sent
  <2>8. ASSUME NEW q \in Procs PROVE IsServed(q)' /\ job'[q].script[pos'[q]] # "call" => answer'.set = 0
    BY <1>3, <2>1, <2>2 DEF ExecInv, Counted
  <2>9. ASSUME NEW q \in Procs, NEW k \in 1..Len(job'[q].script)
        PROVE  /\ sub'[q][k] + Owed(q, k)' <= MaxSets
               /\ k = pos'[q] /\ pc'[q] # "done" => sub'[q][k] + Owed(q, k)' <= Sent(q)'
               /\ k > pos'[q] => sub'[q][k] + Owed(q, k)' = 0
    <3>1. CASE q = p
      BY <1>3, <2>2, <2>3, <2>4, <2>6, <2>7, <2>9, <3>1
    <3>2. CASE q # p
      BY <1>2, <1>3, <2>2, <2>3, <2>5, <2>9, <3>2 DEF ExecInv, Counted
    <3> QED
      BY <3>1, <3>2
  <2> QED
    BY <2>8, <2>9 DEF Counted
<1> QED
  BY <1>5, <1>6, <1>7, <1>8, <1>9 DEF ExecInv

(* The process that is served waits for its answer.                        *)
LEMMA ServedWaits ==
    ASSUME ExecInv, NEW p, IsServed(p)
    PROVE  /\ p \in Procs /\ p \in Range(queue) /\ pc[p] = "execute"
           /\ pos[p] \in 1..Len(job[p].script) /\ job[p].script[pos[p]] \in Kinds
<1>1. queue \in Seq(Procs) /\ queue # <<>> /\ Head(queue) = p /\ IsInjective(queue)
  BY DEF ExecInv, ExecTyped, IsServed, Serving
<1>2. p \in Range(queue) /\ p \in Procs
  BY <1>1, FirstLeaves, HeadTailProperties
<1>3. pc[p] = "execute" /\ pos[p] >= 1
  BY <1>2 DEF ExecInv, Serving
<1>4. pos[p] \in 1..Len(job[p].script)
  BY <1>2, <1>3, ProcTyped
<1> QED
  BY <1>2, <1>3, <1>4, ProcTyped

(* A request is sent.                                                      *)
LEMMA ExecuteExec == ASSUME ExecInv, NEW p \in Procs, Execute(p) PROVE ExecInv'
<1>1. /\ pc[p] = "prepare" /\ pc' = [pc EXCEPT ![p] = "execute"] /\ queue' = Append(queue, p)
      /\ replace' = replace \/ (job[p].old # NoId /\ replace' = replace \cup {p})
      /\ UNCHANGED <<job, pos, sub, answer, held>>
  BY DEF Execute
<1>2. /\ pc \in [Procs -> Modes] /\ queue \in Seq(Procs) /\ IsInjective(queue) /\ p \notin Range(queue)
      /\ replace \subseteq Pages
  BY <1>1 DEF ExecInv, ExecTyped, Serving
<1>3. /\ queue' \in Seq(Procs) /\ IsInjective(queue') /\ Range(queue') = Range(queue) \cup {p}
      /\ queue' # <<>> /\ Head(queue') = IF queue = <<>> THEN p ELSE Head(queue)
  BY <1>1, <1>2, LastComes
<1>4. /\ pc' \in [Procs -> Modes] /\ pc'[p] = "execute" /\ \A q \in Procs : q # p => pc'[q] = pc[q]
  BY <1>1, <1>2 DEF Modes
<1>5. replace' \subseteq Pages
  <2>1. job[p].old # NoId => p \in Pages
    BY DEF ExecInv, JobsTyped, Procs
  <2> QED
    BY <1>1, <1>2, <2>1
<1>6. ExecTyped'
  BY <1>1, <1>3, <1>4, <1>5 DEF ExecInv, ExecTyped
<1>7. JobsTyped'
  BY <1>1 DEF ExecInv, JobsTyped
<1>8. Serving'
  <2>1. \A q \in Procs : q \in Range(queue') <=> pc'[q] = "execute"
    BY <1>3, <1>4 DEF ExecInv, Serving
  <2>2. \A q \in Procs : /\ pc'[q] # "new" => pc[q] # "new"
                         /\ pc'[q] \in {"clear", "history", "clear again"} => pc'[q] = pc[q]
    BY <1>1, <1>4
  <2> QED
    BY <1>1, <1>3, <2>1, <2>2 DEF ExecInv, Serving
<1>9. HeldKnown'
  BY <1>1, <1>4 DEF ExecInv, HeldKnown, ExecTyped
<1>10. Counted'
  <2>1. answer.set \in Nat /\ answer.done \in BOOLEAN /\ (queue = <<>> => answer.set = 0 /\ answer.done = FALSE)
    <3>1. answer \in [set : 0..MaxSets - 1, n : 0..MaxPackets, done : BOOLEAN] /\ MaxSets \in Nat
      BY ExecutionAssumption DEF ExecInv, ExecTyped
    <3>2. answer.set \in 0..MaxSets - 1 /\ answer.done \in BOOLEAN
      BY <3>1
    <3>3. answer.set \in Nat
      BY <3>1, <3>2
    <3>4. NoAnswer.set = 0 /\ NoAnswer.done = FALSE
      BY DEF NoAnswer
    <3>5. queue = <<>> => answer = NoAnswer
      BY DEF ExecInv, Serving
    <3> QED
      BY <3>2, <3>3, <3>4, <3>5
  <2>2. \A q \in Procs : IsServed(q) => IsServed(q)'
    BY <1>3 DEF IsServed
  <2>3. \A q \in Procs : IsServed(q)' => IsServed(q) \/ (answer.set = 0 /\ answer.done = FALSE)
    BY <1>3, <2>1 DEF IsServed
  <2>4. \A q \in Procs : Sent(q)' = Sent(q)
    BY <1>1, <2>1, <2>2, <2>3 DEF Sent
  <2>5. \A q \in Procs, k \in Nat : Owed(q, k)' = Owed(q, k)
    BY <1>1 DEF Owed
  <2>6. ASSUME NEW q \in Procs PROVE 1..Len(job[q].script) \subseteq Nat /\ (pc'[q] # "done" => pc[q] # "done")
    BY <1>1, <1>4, ProcTyped
  <2>7. \A q \in Procs : IsServed(q)' /\ job'[q].script[pos'[q]] # "call" => answer'.set = 0
    BY <1>1, <2>3 DEF ExecInv, Counted
  <2>8. ASSUME NEW q \in Procs, NEW k \in 1..Len(job'[q].script)
        PROVE  /\ sub'[q][k] + Owed(q, k)' <= MaxSets
               /\ k = pos'[q] /\ pc'[q] # "done" => sub'[q][k] + Owed(q, k)' <= Sent(q)'
               /\ k > pos'[q] => sub'[q][k] + Owed(q, k)' = 0
    BY <1>1, <2>4, <2>5, <2>6, <2>8 DEF ExecInv, Counted
  <2> QED
    BY <2>7, <2>8 DEF Counted
<1> QED
  BY <1>6, <1>7, <1>8, <1>9, <1>10 DEF ExecInv

(* The request that is served is resolved or rejected.                     *)
LEMMA LeavesExec ==
    ASSUME ExecInv, NEW p \in Procs, queue # <<>>, p = Head(queue), Dequeue, NEW stops,
           NextStatement(p, stops), replace' \subseteq replace, UNCHANGED <<job, sub, held>>
    PROVE  ExecInv'
<1>1. IsServed(p) /\ p \in Range(queue) /\ pc[p] = "execute" /\ pos[p] \in 1..Len(job[p].script)
  <2>1. IsServed(p)
    BY DEF IsServed
  <2> QED
    BY <2>1, ServedWaits
<1>2. /\ pc \in [Procs -> Modes] /\ pos \in [Procs -> Nat]
      /\ queue \in Seq(Procs) /\ IsInjective(queue) /\ Len(job[p].script) \in Nat
  BY ProcTyped DEF ExecInv, ExecTyped, Serving, JobsTyped
<1>3. /\ queue' \in Seq(Procs) /\ IsInjective(queue') /\ Range(queue') = Range(queue) \ {p}
      /\ answer' = NoAnswer
  BY <1>2, FirstLeaves DEF Dequeue
<1>4. /\ pc'[p] \in {"prepare", "done"} /\ \A q \in Procs : q # p => pc'[q] = pc[q] /\ pos'[q] = pos[q]
      /\ pc' \in [Procs -> Modes] /\ pos' \in [Procs -> Nat]
      /\ pos'[p] \in 1..Len(job[p].script)
      /\ pc'[p] = "done" => pos'[p] = pos[p]
      /\ pc'[p] = "prepare" => pos'[p] = pos[p] + 1
  <2>1. CASE pos[p] < Len(job[p].script) /\ ~stops
    <3>1. pos' = [pos EXCEPT ![p] = @ + 1] /\ pc' = [pc EXCEPT ![p] = "prepare"]
      BY <2>1 DEF NextStatement
    <3>2. pc' \in [Procs -> Modes] /\ pc'[p] = "prepare" /\ \A q \in Procs : q # p => pc'[q] = pc[q]
      BY <1>2, <3>1 DEF Modes
    <3>3. pos[p] \in Nat /\ pos[p] + 1 \in Nat
      BY <1>2
    <3>4. /\ pos' \in [Procs -> Nat] /\ pos'[p] = pos[p] + 1
          /\ \A q \in Procs : q # p => pos'[q] = pos[q]
      BY <1>2, <3>1, <3>3
    <3>5. pos'[p] \in 1..Len(job[p].script)
      BY <1>1, <1>2, <2>1, <3>3, <3>4
    <3> QED
      BY <3>2, <3>4, <3>5
  <2>2. CASE ~(pos[p] < Len(job[p].script) /\ ~stops)
    <3>1. pos' = pos /\ pc' = [pc EXCEPT ![p] = "done"]
      BY <2>2 DEF NextStatement
    <3> QED
      BY <1>1, <1>2, <3>1 DEF Modes
  <2> QED
    BY <2>1, <2>2
<1>5. MaxSets \in Nat \ {0} /\ MaxPackets \in Nat \ {0}
  BY ExecutionAssumption
<1>6. ExecTyped'
  <2>1. answer' \in [set : 0..MaxSets - 1, n : 0..MaxPackets, done : BOOLEAN]
    BY <1>3, <1>5 DEF NoAnswer
  <2>2. ASSUME NEW q \in Procs PROVE pos'[q] \in 0..Len(job[q].script)
    <3>1. CASE q = p
      BY <1>2, <1>4, <3>1
    <3>2. CASE q # p
      BY <1>4, <3>2 DEF ExecInv, ExecTyped
    <3> QED
      BY <3>1, <3>2
  <2> QED
    BY <1>3, <1>4, <2>1, <2>2 DEF ExecInv, ExecTyped
<1>7. JobsTyped'
  BY <1>4 DEF ExecInv, JobsTyped
<1>8. Serving'
  <2>1. \A q \in Procs : q \in Range(queue') <=> pc'[q] = "execute"
    BY <1>3, <1>4 DEF ExecInv, Serving
  <2>2. ASSUME NEW q \in Procs
        PROVE  /\ pc'[q] # "new" => pos'[q] >= 1
               /\ pc'[q] \in {"clear", "history", "clear again"} => q \in Runs /\ pos'[q] = 1
    <3>1. CASE q = p
      <4>1. pos'[p] \in 1..Len(job[p].script) /\ Len(job[p].script) \in Nat
        BY <1>2, <1>4
      <4>2. pos'[p] >= 1
        BY <4>1
      <4>3. pc'[p] \notin {"clear", "history", "clear again"}
        BY <1>4
      <4> QED
        BY <3>1, <4>2, <4>3, Zenon
    <3>2. CASE q # p
      BY <1>4, <3>2 DEF ExecInv, Serving
    <3> QED
      BY <3>1, <3>2
  <2>3. answer'.done \/ answer'.n < MaxPackets
    BY <1>3, <1>5 DEF NoAnswer
  <2> QED
    BY <1>3, <2>1, <2>2, <2>3 DEF Serving
<1>9. HeldKnown'
  <2> SUFFICES ASSUME NEW d \in held
               PROVE  /\ pc'[d.proc] # "new" /\ d.pos \in 1..pos'[d.proc]
                      /\ d.last => d = LastOf(d.proc, d.pos)
    BY DEF HeldKnown
  <2>1. /\ pc[d.proc] # "new" /\ d.pos \in 1..pos[d.proc] /\ d.proc \in Procs
        /\ d.last => d = LastOf(d.proc, d.pos)
    BY DEF ExecInv, HeldKnown, ExecTyped
  <2>2. CASE d.proc = p
    <3>1. pc'[p] # "new" /\ (pos'[p] = pos[p] \/ pos'[p] = pos[p] + 1) /\ pos[p] \in Nat
      BY <1>2, <1>4
    <3>2. d.pos \in 1..pos'[p]
      BY <2>1, <2>2, <3>1
    <3> QED
      BY <2>1, <2>2, <3>1, <3>2
  <2>3. CASE d.proc # p
    BY <1>4, <2>1, <2>3
  <2> QED
    BY <2>2, <2>3
<1>10. Counted'
  <2>1. \A q \in Procs, k \in Nat : Owed(q, k)' = Owed(q, k)
    BY DEF Owed
  <2>2. \A q \in Procs : Sent(q)' = 0 /\ (q # p => Sent(q) = 0)
    BY <1>3 DEF Sent, NoAnswer, IsServed
  <2>3. \A q \in Procs : IsServed(q)' /\ job'[q].script[pos'[q]] # "call" => answer'.set = 0
    BY <1>3 DEF NoAnswer
  <2>4. ASSUME NEW q \in Procs, NEW k \in 1..Len(job'[q].script)
        PROVE  /\ sub'[q][k] + Owed(q, k)' <= MaxSets
               /\ k = pos'[q] /\ pc'[q] # "done" => sub'[q][k] + Owed(q, k)' <= Sent(q)'
               /\ k > pos'[q] => sub'[q][k] + Owed(q, k)' = 0
    <3>1. k \in Nat /\ k \in 1..Len(job[q].script) /\ sub[q][k] \in Nat /\ Owed(q, k)' = Owed(q, k)
          /\ Owed(q, k) \in Nat
      <4>1. 1..Len(job[q].script) \subseteq Nat /\ sub[q] \in [1..Len(job[q].script) -> 0..MaxSets]
        BY ProcTyped
      <4> QED
        BY <2>1, <2>4, <4>1 DEF Owed
    <3>2. /\ sub[q][k] + Owed(q, k) <= MaxSets
          /\ k = pos[q] /\ pc[q] # "done" => sub[q][k] + Owed(q, k) <= Sent(q)
          /\ k > pos[q] => sub[q][k] + Owed(q, k) = 0
      BY <3>1 DEF ExecInv, Counted
    <3>3. CASE q # p
      BY <1>4, <2>2, <3>1, <3>2, <3>3
    <3>4. CASE q = p
      <4>1. pc'[p] = "prepare" => pos'[p] = pos[p] + 1 /\ pos[p] \in Nat
        BY <1>2, <1>4
      <4>2. k >= pos'[p] /\ pc'[p] # "done" => k > pos[p]
        BY <1>4, <3>1, <4>1
      <4>3. k > pos'[p] => k > pos[p]
        BY <1>2, <1>4, <3>1
      <4> QED
        BY <1>2, <1>4, <2>2, <3>1, <3>2, <3>4, <4>2, <4>3
    <3> QED
      BY <3>3, <3>4
  <2> QED
    BY <2>3, <2>4 DEF Counted
<1> QED
  BY <1>6, <1>7, <1>8, <1>9, <1>10 DEF ExecInv

(* A process finishes a result of its statement k, or does not.            *)
LEMMA SubGrows ==
    ASSUME ExecInv, NEW p \in Procs, NEW k \in 1..Len(job[p].script), NEW last \in BOOLEAN,
           last => sub[p][k] < MaxSets,
           sub' = IF last THEN [sub EXCEPT ![p][k] = @ + 1] ELSE sub, UNCHANGED job
    PROVE  /\ DOMAIN sub' = Procs
           /\ \A q \in Procs : sub'[q] \in [1..Len(job[q].script) -> 0..MaxSets]
           /\ last => sub'[p][k] = sub[p][k] + 1
           /\ \A q \in Procs : \A i \in 1..Len(job[q].script) :
                 ~(last /\ q = p /\ i = k) => sub'[q][i] = sub[q][i]
<1>1. /\ DOMAIN sub = Procs /\ MaxSets \in Nat
      /\ \A q \in Procs : sub[q] \in [1..Len(job[q].script) -> 0..MaxSets]
  BY ExecutionAssumption DEF ExecInv, ExecTyped, JobsTyped
<1>2. CASE ~last
  BY <1>1, <1>2
<1>3. CASE last
  <2>1. sub' = [sub EXCEPT ![p] = [sub[p] EXCEPT ![k] = sub[p][k] + 1]]
    BY <1>3
  <2>2. sub[p][k] \in 0..MaxSets /\ sub[p][k] < MaxSets
    BY <1>1, <1>3
  <2>3. sub[p][k] + 1 \in 0..MaxSets
    BY <1>1, <2>2
  <2>4. DOMAIN sub' = Procs /\ \A q \in Procs : q # p => sub'[q] = sub[q]
    BY <1>1, <2>1
  <2>5. sub'[p] = [sub[p] EXCEPT ![k] = sub[p][k] + 1]
    BY <1>1, <2>1
  <2>6. /\ sub'[p] \in [1..Len(job[p].script) -> 0..MaxSets] /\ sub'[p][k] = sub[p][k] + 1
        /\ \A i \in 1..Len(job[p].script) : i # k => sub'[p][i] = sub[p][i]
    BY <1>1, <2>3, <2>5
  <2>7. \A q \in Procs : sub'[q] \in [1..Len(job[q].script) -> 0..MaxSets]
    BY <1>1, <2>4, <2>6
  <2> QED
    BY <1>3, <2>4, <2>6, <2>7
<1> QED
  BY <1>2, <1>3

(* What Present does to the executor.                                      *)
LEMMA PresentExec ==
    ASSUME NEW d, Present(d)
    PROVE  /\ sub' = IF d.last THEN [sub EXCEPT ![d.proc][d.pos] = @ + 1] ELSE sub
           /\ replace' \subseteq replace
  BY DEF Present

(* The meta data of a packet come.                                         *)
LEMMA MetaExec == ASSUME ExecInv, NEW d \in held, MetaDataCome(d) PROVE ExecInv'
<1> DEFINE p == d.proc
           k == d.pos
<1>1. /\ held' = held \ {d} /\ UNCHANGED <<pc, job, pos, queue, answer>>
      /\ sub' = IF d.last THEN [sub EXCEPT ![p][k] = @ + 1] ELSE sub
      /\ replace' \subseteq replace
  BY PresentExec DEF MetaDataCome, backendVars
<1>2. /\ p \in Procs /\ pc[p] # "new" /\ k \in 1..pos[p] /\ (d.last => d = LastOf(p, k))
      /\ d.last \in BOOLEAN
  BY DEF ExecInv, ExecTyped, HeldKnown
<1>3. pos[p] \in Nat /\ Len(job[p].script) \in Nat /\ pos[p] <= Len(job[p].script)
  BY <1>2, ProcTyped DEF ExecInv, JobsTyped
<1>4. k \in 1..Len(job[p].script) /\ k \in Nat
  BY <1>2, <1>3
<1> HIDE DEF p, k
<1>5. d.last => Owed(p, k) = 1 /\ Owed(p, k)' = 0
  BY <1>1, <1>2 DEF Owed
<1>6. ASSUME NEW q, NEW i, ~(d.last /\ q = p /\ i = k) PROVE Owed(q, i)' = Owed(q, i)
  <2>1. d # LastOf(q, i)
    <3>1. CASE ~d.last
      BY <3>1 DEF LastOf
    <3>2. CASE d.last
      BY <1>2, <1>6, <3>2 DEF LastOf, p, k
    <3> QED
      BY <3>1, <3>2
  <2> QED
    BY <1>1, <2>1 DEF Owed
<1>7. MaxSets \in Nat /\ sub[p] \in [1..Len(job[p].script) -> 0..MaxSets]
  BY <1>2, ProcTyped
<1>8. d.last => sub[p][k] < MaxSets
  <2>1. sub[p][k] + Owed(p, k) <= MaxSets
    BY <1>2, <1>4 DEF ExecInv, Counted
  <2>2. sub[p][k] \in 0..MaxSets
    BY <1>4, <1>7
  <2> QED
    BY <1>5, <1>7, <2>1, <2>2
<1>9. /\ DOMAIN sub' = Procs
      /\ \A q \in Procs : sub'[q] \in [1..Len(job[q].script) -> 0..MaxSets]
      /\ d.last => sub'[p][k] = sub[p][k] + 1
      /\ \A q \in Procs : \A i \in 1..Len(job[q].script) :
            ~(d.last /\ q = p /\ i = k) => sub'[q][i] = sub[q][i]
  BY <1>1, <1>2, <1>4, <1>8, SubGrows
<1>10. ExecTyped'
  BY <1>1, <1>9 DEF ExecInv, ExecTyped
<1>11. JobsTyped' /\ Serving' /\ HeldKnown'
  BY <1>1, <1>9 DEF ExecInv, JobsTyped, Serving, HeldKnown
<1>12. Counted'
  <2>1. \A q \in Procs : IsServed(q)' = IsServed(q) /\ Sent(q)' = Sent(q)
    BY <1>1 DEF IsServed, Sent
  <2>2. ASSUME NEW q \in Procs, NEW i \in 1..Len(job[q].script)
        PROVE  sub'[q][i] + Owed(q, i)' = sub[q][i] + Owed(q, i)
    <3>1. CASE d.last /\ q = p /\ i = k
      <4>1. sub[p][k] \in Int
        BY <1>4, <1>7
      <4>2. (sub[p][k] + 1) + 0 = sub[p][k] + 1
        BY <4>1
      <4> QED
        BY <1>5, <1>9, <3>1, <4>2
    <3>2. CASE ~(d.last /\ q = p /\ i = k)
      BY <1>6, <1>9, <3>2
    <3> QED
      BY <3>1, <3>2
  <2> QED
    BY <1>1, <2>1, <2>2 DEF ExecInv, Counted
<1> QED
  BY <1>10, <1>11, <1>12 DEF ExecInv

(* The packet that comes, the answer with it, and whether it waits for     *)
(* meta data.                                                              *)
NextAnswer(last) ==
    IF answer.done THEN [set |-> answer.set + 1, n |-> 1, done |-> last]
    ELSE [answer EXCEPT !.n = @ + 1, !.done = last]

PacketOf(p, last, some) ==
    [proc |-> p, pos |-> pos[p], set |-> NextAnswer(last).set, n |-> NextAnswer(last).n,
     last |-> last, some |-> some]

Waits(p, last, some) ==
    /\ LooksEmpty(PacketOf(p, last, some)) /\ job[p].script[pos[p]] # "call"
    /\ NeedsMetaData(PacketOf(p, last, some))

LEMMA OnDataDoes ==
    ASSUME NEW p, NEW last, NEW some, OnData(p, last, some)
    PROVE  /\ IsServed(p) /\ answer' = NextAnswer(last)
           /\ answer.done => job[p].script[pos[p]] = "call" /\ NextAnswer(last).set < MaxSets
           /\ ~last => NextAnswer(last).n < MaxPackets
           /\ UNCHANGED <<pc, job, pos, queue, frozen, loading, copy, budget>>
           /\ \/ /\ Waits(p, last, some) /\ held' = held \cup {PacketOf(p, last, some)}
                 /\ UNCHANGED <<mixed, pending, sub, replace, viewVars, cached, stored, cut>>
              \/ /\ ~Waits(p, last, some) /\ held' = held /\ Present(PacketOf(p, last, some))
<1> DEFINE d == PacketOf(p, last, some)
<1>1. d.proc = p /\ d.pos = pos[p]
  BY DEF PacketOf
<1>2. NeedsMetaData(d) => LooksEmpty(d) /\ job[p].script[pos[p]] # "call"
  BY <1>1 DEF NeedsMetaData
<1>3. Waits(p, last, some) <=> NeedsMetaData(d)
  BY <1>2 DEF Waits
<1>4. /\ IsServed(p) /\ answer' = NextAnswer(last)
      /\ answer.done => job[p].script[pos[p]] = "call" /\ NextAnswer(last).set < MaxSets
      /\ ~last => NextAnswer(last).n < MaxPackets
      /\ UNCHANGED <<pc, job, pos, queue, frozen, loading, copy, budget>>
      /\ IF NeedsMetaData(d)
         THEN /\ held' = held \cup {d}
              /\ UNCHANGED <<mixed, pending, sub, replace, viewVars, cached, stored, cut>>
         ELSE held' = held /\ Present(d)
  BY DEF OnData, IsServed, NextAnswer, PacketOf, tabVars
<1> HIDE DEF d
<1> QED
  BY <1>3, <1>4 DEF d

(* The next packet of the request that is served.                          *)
LEMMA NextAnswerTyped ==
    ASSUME ExecInv, NEW p, IsServed(p), NEW last \in BOOLEAN,
           answer.done => job[p].script[pos[p]] = "call" /\ NextAnswer(last).set < MaxSets
    PROVE  /\ NextAnswer(last) \in [set : 0..MaxSets - 1, n : 1..MaxPackets, done : BOOLEAN]
           /\ NextAnswer(last).done = last
           /\ NextAnswer(last).set = Sent(p)
           /\ Sent(p) \in 0..MaxSets - 1
           /\ job[p].script[pos[p]] # "call" => NextAnswer(last).set = 0
<1>1. /\ answer \in [set : 0..MaxSets - 1, n : 0..MaxPackets, done : BOOLEAN]
      /\ MaxSets \in Nat \ {0} /\ MaxPackets \in Nat \ {0}
      /\ answer.done \/ answer.n < MaxPackets
      /\ p \in Procs
  BY ServedWaits, ExecutionAssumption DEF ExecInv, ExecTyped, Serving
<1>2. answer.set \in 0..MaxSets - 1 /\ answer.n \in 0..MaxPackets /\ answer.done \in BOOLEAN
  BY <1>1
<1>3. job[p].script[pos[p]] # "call" => answer.set = 0
  BY <1>1 DEF ExecInv, Counted
<1>4. CASE answer.done
  <2>1. NextAnswer(last) = [set |-> answer.set + 1, n |-> 1, done |-> last]
    BY <1>4 DEF NextAnswer
  <2>2. /\ NextAnswer(last).set = answer.set + 1 /\ NextAnswer(last).n = 1
        /\ NextAnswer(last).done = last
    BY <2>1
  <2>3. answer.set + 1 \in 0..MaxSets - 1 /\ 1 \in 1..MaxPackets
    BY <1>1, <1>2, <1>4, <2>2
  <2>4. Sent(p) = answer.set + 1
    BY <1>4 DEF Sent
  <2> QED
    BY <1>4, <2>1, <2>2, <2>3, <2>4
<1>5. CASE ~answer.done
  <2>1. NextAnswer(last) = [set |-> answer.set, n |-> answer.n + 1, done |-> last]
    BY <1>1, <1>5 DEF NextAnswer
  <2>2. /\ NextAnswer(last).set = answer.set /\ NextAnswer(last).n = answer.n + 1
        /\ NextAnswer(last).done = last
    BY <2>1
  <2>3. answer.n + 1 \in 1..MaxPackets
    BY <1>1, <1>2, <1>5
  <2>4. Sent(p) = answer.set
    BY <1>2, <1>5 DEF Sent
  <2> QED
    BY <1>2, <1>3, <2>1, <2>2, <2>3, <2>4
<1> QED
  BY <1>4, <1>5

LEMMA PacketTyped ==
    ASSUME NEW p, NEW last, NEW some
    PROVE  LET d == PacketOf(p, last, some)
           IN  d.proc = p /\ d.pos = pos[p] /\ d.last = last /\ d.some = some
               /\ d.set = NextAnswer(last).set /\ d.n = NextAnswer(last).n
  BY DEF PacketOf

(* Of the last packets only one without rows waits for meta data.          *)
LEMMA LastWaits ==
    ASSUME ExecInv, NEW p, IsServed(p), NEW some \in BOOLEAN, Waits(p, TRUE, some),
           answer.done => job[p].script[pos[p]] = "call" /\ NextAnswer(TRUE).set < MaxSets
    PROVE  PacketOf(p, TRUE, some) = LastOf(p, pos[p])
<1>1. job[p].script[pos[p]] # "call" /\ LooksEmpty(PacketOf(p, TRUE, some))
  BY DEF Waits
<1>2. NextAnswer(TRUE).set = 0
  BY <1>1, NextAnswerTyped
<1>3. NextAnswer(TRUE).n = 1 /\ some = FALSE
  <2> DEFINE d == PacketOf(p, TRUE, some)
  <2>1. d.last = TRUE /\ d.some = some /\ d.n = NextAnswer(TRUE).n
    BY DEF PacketOf
  <2>2. IF d.n = 1 THEN ~d.some ELSE ~d.last
    BY <1>1 DEF LooksEmpty
  <2> HIDE DEF d
  <2>3. d.n = 1 /\ ~some
    BY <2>1, <2>2, Zenon
  <2> QED
    BY <2>1, <2>3
<1> QED
  BY <1>2, <1>3 DEF PacketOf, LastOf

LEMMA OnDataExec ==
    ASSUME ExecInv, NEW p \in Procs, NEW last \in BOOLEAN, NEW some \in BOOLEAN,
           OnData(p, last, some)
    PROVE  ExecInv'
<1>0. PICK k : k = pos[p]
  OBVIOUS
<1> DEFINE d == PacketOf(p, last, some)
           next == NextAnswer(last)
<1>1. /\ IsServed(p) /\ answer' = next
      /\ answer.done => job[p].script[k] = "call" /\ next.set < MaxSets
      /\ ~last => next.n < MaxPackets
      /\ UNCHANGED <<pc, job, pos, queue>>
      /\ \/ Waits(p, last, some) /\ held' = held \cup {d} /\ UNCHANGED <<sub, replace>>
         \/ ~Waits(p, last, some) /\ held' = held /\ Present(d)
  BY <1>0, OnDataDoes
<1>2. /\ next \in [set : 0..MaxSets - 1, n : 1..MaxPackets, done : BOOLEAN]
      /\ next.done = last /\ next.set = Sent(p) /\ Sent(p) \in 0..MaxSets - 1
      /\ job[p].script[k] # "call" => next.set = 0
  BY <1>0, <1>1, NextAnswerTyped
<1>3. pc[p] = "execute" /\ k \in 1..Len(job[p].script) /\ Len(job[p].script) \in Nat
      /\ sub[p] \in [1..Len(job[p].script) -> 0..MaxSets] /\ MaxSets \in Nat \ {0}
      /\ MaxPackets \in Nat \ {0} /\ queue # <<>>
  BY <1>0, <1>1, ServedWaits, ProcTyped DEF IsServed
<1>4. d.proc = p /\ d.pos = k /\ d.last = last
  BY <1>0, PacketTyped
<1>5. last /\ Waits(p, last, some) => d = LastOf(p, k)
  BY <1>0, <1>1, LastWaits
<1>6. d \in [proc : Procs, pos : Nat, set : Nat, n : 1..MaxPackets, last : BOOLEAN, some : BOOLEAN]
  <2>1. k \in Nat /\ next.set \in Nat /\ next.n \in 1..MaxPackets
    BY <1>2, <1>3
  <2> QED
    BY <1>0, <2>1 DEF PacketOf
<1> HIDE DEF d, next
<1>7. sub[p][k] + Owed(p, k) <= Sent(p) /\ sub[p][k] \in 0..MaxSets /\ Owed(p, k) \in {0, 1}
  BY <1>0, <1>3 DEF ExecInv, Counted, Owed
<1>8. Sent(p)' = Sent(p) + (IF last THEN 1 ELSE 0)
  BY <1>1, <1>2 DEF Sent, IsServed
<1>9. held' = held \cup {d} \/ held' = held
  BY <1>1
<1>10. ASSUME NEW q, NEW i, ~(last /\ q = p /\ i = k) PROVE Owed(q, i)' = Owed(q, i)
  <2>1. CASE Waits(p, last, some)
    <3>1. d # LastOf(q, i)
      <4>1. CASE ~last
        BY <1>4, <4>1 DEF LastOf
      <4>2. CASE last
        BY <1>5, <1>10, <2>1, <4>2 DEF LastOf
      <4> QED
        BY <4>1, <4>2
    <3> QED
      BY <1>9, <3>1 DEF Owed
  <2>2. CASE ~Waits(p, last, some)
    BY <1>1, <2>2 DEF Owed
  <2> QED
    BY <2>1, <2>2
<1>11. /\ DOMAIN sub' = Procs
       /\ \A q \in Procs : sub'[q] \in [1..Len(job[q].script) -> 0..MaxSets]
       /\ \A q \in Procs : \A i \in 1..Len(job[q].script) :
             ~(last /\ q = p /\ i = k) => sub'[q][i] = sub[q][i]
       /\ last => sub'[p][k] + Owed(p, k)' <= sub[p][k] + Owed(p, k) + 1
       /\ replace' \subseteq replace
  <2>1. CASE Waits(p, last, some)
    <3>1. sub' = sub /\ replace' = replace /\ Owed(p, k)' \in {0, 1}
      BY <1>1, <2>1 DEF Owed
    <3>2. sub'[p][k] + Owed(p, k)' <= sub[p][k] + Owed(p, k) + 1
      BY <1>7, <3>1
    <3> QED
      BY <3>1, <3>2 DEF ExecInv, ExecTyped, JobsTyped
  <2>2. CASE ~Waits(p, last, some)
    <3>1. /\ sub' = IF last THEN [sub EXCEPT ![p][k] = @ + 1] ELSE sub
          /\ replace' \subseteq replace
      BY <1>1, <1>4, <2>2, PresentExec
    <3>2. last => sub[p][k] < MaxSets
      BY <1>2, <1>3, <1>7
    <3>3. k \in 1..Len(job[p].script)
      BY <1>0, <1>3
    <3>4. /\ DOMAIN sub' = Procs
          /\ \A q \in Procs : sub'[q] \in [1..Len(job[q].script) -> 0..MaxSets]
          /\ last => sub'[p][k] = sub[p][k] + 1
          /\ \A q \in Procs : \A i \in 1..Len(job[q].script) :
                ~(last /\ q = p /\ i = k) => sub'[q][i] = sub[q][i]
      BY <1>1, <3>1, <3>2, <3>3, SubGrows
    <3>5. Owed(p, k)' = Owed(p, k)
      BY <1>1, <2>2 DEF Owed
    <3>6. sub[p][k] + 1 + Owed(p, k) <= sub[p][k] + Owed(p, k) + 1
      BY <1>7
    <3> QED
      BY <3>1, <3>4, <3>5, <3>6
  <2> QED
    BY <2>1, <2>2
<1>12. ExecTyped'
  <2>1. answer' \in [set : 0..MaxSets - 1, n : 0..MaxPackets, done : BOOLEAN]
    BY <1>1, <1>2, <1>3
  <2>2. held' \subseteq [proc : Procs, pos : Nat, set : Nat, n : 1..MaxPackets,
                         last : BOOLEAN, some : BOOLEAN]
    BY <1>6, <1>9 DEF ExecInv, ExecTyped
  <2> QED
    BY <1>1, <1>11, <2>1, <2>2 DEF ExecInv, ExecTyped
<1>13. JobsTyped'
  BY <1>1, <1>11 DEF ExecInv, JobsTyped
<1>14. Serving'
  <2>1. queue' # <<>> /\ (answer'.done \/ answer'.n < MaxPackets)
    BY <1>1, <1>2, <1>3
  <2> QED
    BY <1>1, <2>1 DEF ExecInv, Serving
<1>15. HeldKnown'
  <2>1. \A e \in held' : e \in held \/ (e = d /\ Waits(p, last, some))
    BY <1>1
  <2>2. d.pos \in 1..pos[p] /\ pc[p] # "new"
    BY <1>0, <1>3, <1>4
  <2>3. d.last /\ Waits(p, last, some) => d = LastOf(d.proc, d.pos)
    BY <1>4, <1>5
  <2> QED
    BY <1>1, <1>4, <2>1, <2>2, <2>3 DEF ExecInv, HeldKnown
<1>16. Counted'
  <2>1. \A q \in Procs : IsServed(q)' = IsServed(q) /\ (IsServed(q) => q = p)
    BY <1>1 DEF IsServed
  <2>2. \A q \in Procs : q # p => Sent(q)' = Sent(q)
    BY <1>1, <2>1 DEF Sent
  <2>3. ASSUME NEW q \in Procs, IsServed(q)', job'[q].script[pos'[q]] # "call" PROVE answer'.set = 0
    BY <1>0, <1>1, <1>2, <2>1, <2>3
  <2>4. ASSUME NEW q \in Procs, NEW i \in 1..Len(job'[q].script)
        PROVE  /\ sub'[q][i] + Owed(q, i)' <= MaxSets
               /\ i = pos'[q] /\ pc'[q] # "done" => sub'[q][i] + Owed(q, i)' <= Sent(q)'
               /\ i > pos'[q] => sub'[q][i] + Owed(q, i)' = 0
    <3>1. /\ i \in 1..Len(job[q].script) /\ sub[q][i] \in Nat /\ Owed(q, i) \in Nat
          /\ sub[q][i] + Owed(q, i) <= MaxSets
          /\ i = pos[q] /\ pc[q] # "done" => sub[q][i] + Owed(q, i) <= Sent(q)
          /\ i > pos[q] => sub[q][i] + Owed(q, i) = 0
      <4>1. i \in 1..Len(job[q].script)
        BY <1>1, <2>4
      <4>2. sub[q] \in [1..Len(job[q].script) -> 0..MaxSets]
        BY ProcTyped
      <4> QED
        BY <4>1, <4>2 DEF ExecInv, Counted, Owed
    <3>2. CASE last /\ q = p /\ i = k
      <4>1. sub'[p][k] + Owed(p, k)' <= Sent(p) + 1
        <5>1. sub'[p][k] \in 0..MaxSets /\ Owed(p, k)' \in {0, 1}
          BY <1>0, <1>3, <1>11 DEF Owed
        <5> QED
          BY <1>2, <1>3, <1>7, <1>11, <3>2, <5>1, SMTT(30)
      <4>2. Sent(p)' = Sent(p) + 1 /\ Sent(p) + 1 <= MaxSets
        BY <1>2, <1>3, <1>8, <3>2
      <4>3. sub'[p][k] + Owed(p, k)' <= MaxSets
        <5>1. sub'[p][k] \in 0..MaxSets /\ Owed(p, k)' \in {0, 1}
          BY <1>0, <1>3, <1>11 DEF Owed
        <5> QED
          BY <1>2, <1>3, <4>1, <4>2, <5>1
      <4>4. ~(k > pos'[p])
        BY <1>0, <1>1, <1>3
      <4> QED
        BY <3>2, <4>1, <4>2, <4>3, <4>4
    <3>3. CASE ~(last /\ q = p /\ i = k)
      <4>1. sub'[q][i] + Owed(q, i)' = sub[q][i] + Owed(q, i)
        BY <1>10, <1>11, <3>1, <3>3
      <4>2. q = p /\ i = k => Sent(q)' = Sent(q)
        BY <1>2, <1>8, <3>3
      <4> QED
        BY <1>0, <1>1, <2>2, <3>1, <4>1, <4>2
    <3> QED
      BY <3>2, <3>3
  <2> QED
    BY <2>3, <2>4 DEF Counted
<1> QED
  BY <1>12, <1>13, <1>14, <1>15, <1>16 DEF ExecInv

LEMMA RunExec == ASSUME ExecInv, NEW r \in Runs, Run(r) PROVE ExecInv'
<1>1. PICK j \in Jobs : /\ job' = [job EXCEPT ![r] = j]
                        /\ sub' = [sub EXCEPT ![r] = [k \in 1..Len(j.script) |-> 0]]
  BY DEF Run
<1>2. j \in JobTypes /\ j.script # <<>> /\ j.old = NoId /\ r \in Procs
  BY ExecutionAssumption DEF JobTypes, Procs
<1>3. PICK m \in {"clear", "history"} : pc' = [pc EXCEPT ![r] = m]
  BY DEF Run, Clear
<1>4. /\ pc[r] = "new" /\ pos' = [pos EXCEPT ![r] = 1]
      /\ UNCHANGED <<replace, queue, answer, held>>
  BY DEF Run, backendVars
<1>5. [k \in 1..Len(j.script) |-> 0] \in [1..Len(j.script) -> {0}]
  OBVIOUS
<1> QED
  BY <1>1, <1>2, <1>3, <1>4, <1>5, BeginsExec

LEMMA OneStatement ==
    ASSUME NEW kind \in Kinds
    PROVE  <<kind>> \in Seq(Kinds) /\ Len(<<kind>>) = 1 /\ <<kind>> # <<>> /\ <<kind>>[1] = kind
  OBVIOUS

LEMMA ShowPageExec == ASSUME IInv, NEW p \in Pages, ShowPage(p) PROVE ExecInv'
<1>1. PICK id \in DOMAIN sets :
         /\ job[id[1]].script[id[2]] \in Selects
         /\ job' = [job EXCEPT ![p] =
                      [@ EXCEPT !.script = <<job[id[1]].script[id[2]]>>, !.old = id]]
  BY DEF ShowPage
<1>2. ExecInv /\ id \in Ids /\ p \in Procs /\ p \notin Runs
  <2>1. ExecInv /\ ViewInv
    BY TwoParts
  <2>2. id \in Ids
    BY <2>1 DEF ViewInv, ViewTyped, IsResults
  <2>3. p \in Procs /\ p \notin Runs
    BY ExecutionAssumption DEF Procs, Pages, Runs
  <2> QED
    BY <2>1, <2>2, <2>3
<1> DEFINE kind == job[id[1]].script[id[2]]
           j == [job[p] EXCEPT !.script = <<kind>>, !.old = id]
<1>3. kind \in Kinds
  BY <1>1 DEF Kinds
<1>4. <<kind>> \in Seq(Kinds) /\ Len(<<kind>>) = 1 /\ <<kind>> # <<>>
  BY <1>3, OneStatement
<1>5. job[p] \in JobTypes
  BY <1>2, ProcTyped
<1>6. job' = [job EXCEPT ![p] = j]
  BY <1>1, <1>2 DEF ExecInv, JobsTyped
<1> HIDE DEF kind
<1>7. j \in JobTypes /\ j.script = <<kind>>
  BY <1>2, <1>4, <1>5 DEF JobTypes
<1>8. j.script # <<>> /\ <<0>> \in [1..Len(j.script) -> {0}]
  BY <1>4, <1>7
<1> HIDE DEF j
<1>9. /\ pc[p] = "new" /\ sub' = [sub EXCEPT ![p] = <<0>>] /\ pos' = [pos EXCEPT ![p] = 1]
      /\ pc' = [pc EXCEPT ![p] = "prepare"] /\ UNCHANGED <<replace, queue, answer, held>>
  BY DEF ShowPage, backendVars
<1> QED
  BY <1>2, <1>6, <1>7, <1>8, <1>9, BeginsExec

(* Every step keeps what is said of the executor.                          *)
LEMMA ExecKept == ASSUME IInv, [Next]_vars PROVE ExecInv'
<1>0. ExecInv
  BY TwoParts
<1>1. CASE UNCHANGED vars
  BY <1>0, <1>1, StillExec DEF vars, execVars
<1>2. ASSUME NEW r \in Runs, Run(r) \/ HistoryStored(r) \/ ClearEnds(r) PROVE ExecInv'
  <2>1. CASE Run(r)
    BY <1>0, <2>1, RunExec
  <2>2. CASE HistoryStored(r)
    <3>1. PICK m \in {"clear again", "prepare"} : pc' = [pc EXCEPT ![r] = m]
      BY <2>2 DEF HistoryStored, Clear
    <3>2. pc[r] = "history" /\ UNCHANGED <<job, pos, sub, replace, queue, answer, held>>
      BY <2>2 DEF HistoryStored, backendVars
    <3> QED
      BY <1>0, <3>1, <3>2, ClearsExec
  <2>3. CASE ClearEnds(r)
    <3>1. PICK m \in {"history", "prepare"} : pc' = [pc EXCEPT ![r] = m]
      BY <2>3 DEF ClearEnds
    <3>2. /\ pc[r] \in {"clear", "clear again"}
          /\ UNCHANGED <<job, pos, sub, replace, queue, answer, held>>
      BY <2>3 DEF ClearEnds, backendVars
    <3> QED
      BY <1>0, <3>1, <3>2, ClearsExec
  <2> QED
    BY <1>2, <2>1, <2>2, <2>3
<1>3. ASSUME NEW p \in Pages, ShowPage(p) PROVE ExecInv'
  BY <1>3, ShowPageExec
<1>4. ASSUME NEW p \in Procs, Execute(p) PROVE ExecInv'
  BY <1>0, <1>4, ExecuteExec
<1>5. ASSUME NEW p \in Procs, NEW last \in BOOLEAN, NEW some \in BOOLEAN, OnData(p, last, some)
      PROVE  ExecInv'
  BY <1>0, <1>5, OnDataExec
<1>6. ASSUME NEW p \in Procs, Finish(p) PROVE ExecInv'
  <2>1. /\ queue # <<>> /\ p = Head(queue) /\ Dequeue /\ NextStatement(p, FALSE)
        /\ UNCHANGED <<job, sub, replace, held>>
    BY <1>6 DEF Finish
  <2> QED
    BY <1>0, <2>1, LeavesExec
<1>7. ASSUME NEW p \in Procs, Fail(p) PROVE ExecInv'
  <2>1. /\ queue # <<>> /\ p = Head(queue) /\ Dequeue
        /\ NextStatement(p, job[p].stop \/ p \in Pages)
        /\ replace' \subseteq replace /\ UNCHANGED <<job, sub, held>>
    BY <1>7 DEF Fail
  <2> QED
    BY <1>0, <2>1, LeavesExec
<1>8. ASSUME NEW d \in held, MetaDataCome(d) PROVE ExecInv'
  BY <1>0, <1>8, MetaExec
<1>9. CASE Timer
  <2>1. UNCHANGED execVars
    BY <1>9 DEF Timer, WaitTimerFires, ShowTimedResult, execVars
  <2> QED
    BY <1>0, <2>1, StillExec
<1>10. CASE TabStep
  <2>1. UNCHANGED execVars
    BY <1>10 DEF TabStep, Hide, Show, ReadNext, Restore, execVars
  <2> QED
    BY <1>0, <2>1, StillExec
<1> QED
  BY <1>1, <1>2, <1>3, <1>4, <1>5, <1>6, <1>7, <1>8, <1>9, <1>10
  DEF Next, ProcStep, Response

-----------------------------------------------------------------------------
(* The presentation                                                          *)

(* What began stays what it is.                                            *)
LEMMA Begun ==
    ASSUME IInv, [Next]_vars, NEW p \in Procs, pc[p] # "new"
    PROVE  pc'[p] # "new" /\ job'[p] = job[p]
<1>0. pc \in [Procs -> Modes] /\ job \in [Procs -> JobTypes] /\ Runs \subseteq Procs /\ Pages \subseteq Procs
  BY DEF IInv, TypeOK, JobsTyped, Modes, Procs
<1>1. CASE UNCHANGED vars
  BY <1>1 DEF vars, procVars
<1>2. ASSUME NEW r \in Runs, Run(r) \/ HistoryStored(r) \/ ClearEnds(r)
      PROVE  pc'[p] # "new" /\ job'[p] = job[p]
  <2>1. CASE Run(r)
    <3>1. p # r /\ \E m \in {"clear", "history"} : pc' = [pc EXCEPT ![r] = m]
      BY <2>1 DEF Run, Clear
    <3>2. \E j \in Jobs : job' = [job EXCEPT ![r] = j]
      BY <2>1 DEF Run
    <3> QED
      BY <1>0, <3>1, <3>2
  <2>2. CASE HistoryStored(r)
    <3>1. job' = job /\ \E m \in {"clear again", "prepare"} : pc' = [pc EXCEPT ![r] = m]
      BY <2>2 DEF HistoryStored, Clear
    <3> QED
      BY <1>0, <3>1
  <2>3. CASE ClearEnds(r)
    <3>1. job' = job /\ \E m \in {"history", "prepare"} : pc' = [pc EXCEPT ![r] = m]
      BY <2>3 DEF ClearEnds
    <3> QED
      BY <1>0, <3>1
  <2> QED
    BY <1>2, <2>1, <2>2, <2>3
<1>3. ASSUME NEW q \in Pages, ShowPage(q) PROVE pc'[p] # "new" /\ job'[p] = job[p]
  <2>1. p # q /\ pc' = [pc EXCEPT ![q] = "prepare"] /\ \E j : job' = [job EXCEPT ![q] = j]
    BY <1>3 DEF ShowPage
  <2> QED
    BY <1>0, <2>1
<1>4. ASSUME NEW q \in Procs, Execute(q) PROVE pc'[p] # "new" /\ job'[p] = job[p]
  <2>1. job' = job /\ pc' = [pc EXCEPT ![q] = "execute"]
    BY <1>4 DEF Execute
  <2> QED
    BY <1>0, <2>1
<1>5. CASE UNCHANGED <<pc, job>>
  BY <1>5
<1>6. ASSUME NEW q \in Procs, Finish(q) \/ Fail(q) PROVE pc'[p] # "new" /\ job'[p] = job[p]
  <2>1. job' = job /\ \E m \in {"prepare", "done"} : pc' = [pc EXCEPT ![q] = m]
    BY <1>6 DEF Finish, Fail, NextStatement
  <2> QED
    BY <1>0, <2>1
<1>7. ASSUME NEW q \in Procs, NEW last \in BOOLEAN, NEW some \in BOOLEAN, OnData(q, last, some)
      PROVE  UNCHANGED <<pc, job>>
  BY <1>7 DEF OnData
<1>8. ASSUME NEW d \in held, MetaDataCome(d) PROVE UNCHANGED <<pc, job>>
  BY <1>8 DEF MetaDataCome
<1>9. ASSUME Timer \/ TabStep PROVE UNCHANGED <<pc, job>>
  BY <1>9 DEF Timer, WaitTimerFires, ShowTimedResult, TabStep, Hide, Show, ReadNext, Restore, procVars
<1> QED
  BY <1>1, <1>2, <1>3, <1>4, <1>5, <1>6, <1>7, <1>8, <1>9 DEF Next, ProcStep, Response

LEMMA ReplacingKept == ASSUME IInv, [Next]_vars PROVE Replacing'
<1>1. replace \subseteq Pages /\ Pages \subseteq Procs
  BY DEF IInv, TypeOK, Procs
<1>2. \A p \in Procs : pc[p] # "new" => pc'[p] # "new" /\ job'[p] = job[p]
  BY Begun
<1>3. replace' \subseteq replace => Replacing'
  BY <1>1, <1>2 DEF IInv, Replacing
<1>4. ASSUME NEW p \in Procs, Execute(p) PROVE Replacing'
  <2>1. /\ pc[p] = "prepare"
        /\ replace' = replace \/ (job[p].old # NoId /\ replace' = replace \cup {p})
    BY <1>4 DEF Execute
  <2>2. pc'[p] # "new" /\ job'[p] = job[p]
    BY <1>2, <2>1
  <2> QED
    BY <1>1, <1>2, <2>1, <2>2 DEF IInv, Replacing
<1>5. CASE UNCHANGED vars
  BY <1>3, <1>5 DEF vars, procVars
<1>6. ASSUME NEW r \in Runs, Run(r) \/ HistoryStored(r) \/ ClearEnds(r) PROVE replace' = replace
  BY <1>6 DEF Run, HistoryStored, ClearEnds
<1>7. ASSUME NEW p \in Pages, ShowPage(p) PROVE replace' = replace
  BY <1>7 DEF ShowPage
<1>8. ASSUME NEW p \in Procs, Finish(p) \/ Fail(p) PROVE replace' \subseteq replace
  BY <1>8 DEF Finish, Fail
<1>9. ASSUME NEW p, NEW last, NEW some, OnData(p, last, some) PROVE replace' \subseteq replace
  BY <1>9, OnDataDoes, PresentExec
<1>10. ASSUME NEW d \in held, MetaDataCome(d) PROVE replace' \subseteq replace
  BY <1>10, PresentExec DEF MetaDataCome
<1>11. ASSUME Timer \/ TabStep PROVE replace' = replace
  BY <1>11 DEF Timer, WaitTimerFires, ShowTimedResult, TabStep, Hide, Show, ReadNext, Restore, procVars
<1> QED
  BY <1>3, <1>4, <1>5, <1>6, <1>7, <1>8, <1>9, <1>10, <1>11 DEF Next, ProcStep, Response

(* Maps of results, and of timed results                                   *)
Result == [rows : Seq(Packets), done : BOOLEAN]

IsPending(f) ==
    \A id \in DOMAIN f : /\ f[id] \in Seq(Notes) \ {<<>>}
                         /\ \A i \in DOMAIN f[id] : f[id][i].id = id

LEMMA NoResults == IsResults(<<>>) /\ IsPending(<<>>) /\ DOMAIN <<>> = {}
  BY DEF IsResults, IsPending

LEMMA ResultsWith ==
    ASSUME NEW f, IsResults(f), NEW id \in Ids, NEW v \in Result
    PROVE  IsResults(With(f, id, v))
<1> DEFINE g == With(f, id, v)
<1>1. SetAt(f, id, v, g)
  BY WithAt
<1> HIDE DEF g
<1>2. IsResults(g)
  BY <1>1 DEF SetAt, IsResults, Result
<1> QED
  BY <1>2 DEF g

LEMMA ResultsRestrict ==
    ASSUME NEW f, IsResults(f), NEW S, S \subseteq DOMAIN f
    PROVE  IsResults(Restrict(f, S))
<1> DEFINE g == Restrict(f, S)
<1>1. DOMAIN g = S /\ \A x \in S : g[x] = f[x]
  BY Restricts
<1> HIDE DEF g
<1>2. IsResults(g)
  BY <1>1 DEF IsResults
<1> QED
  BY <1>2 DEF g

LEMMA PendingWith ==
    ASSUME NEW f, IsPending(f), NEW id, NEW v \in Seq(Notes), v # <<>>,
           \A i \in DOMAIN v : v[i].id = id
    PROVE  IsPending(With(f, id, v))
<1> DEFINE g == With(f, id, v)
<1>1. SetAt(f, id, v, g)
  BY WithAt
<1> HIDE DEF g
<1>2. IsPending(g)
  BY <1>1 DEF SetAt, IsPending
<1> QED
  BY <1>2 DEF g

(* Another note for the timer of an id.                                    *)
LEMMA PendingGrows ==
    ASSUME IsPending(pending), NEW note \in Notes
    PROVE  /\ Append(Pending(note.id), note) \in Seq(Notes)
           /\ Append(Pending(note.id), note) # <<>>
           /\ \A i \in DOMAIN Append(Pending(note.id), note) :
                 Append(Pending(note.id), note)[i].id = note.id
<1> DEFINE s == Pending(note.id)
           r == Append(s, note)
<1>1. s \in Seq(Notes) /\ \A i \in DOMAIN s : s[i].id = note.id
  <2>1. CASE note.id \in DOMAIN pending
    BY <2>1 DEF Pending, IsPending
  <2>2. CASE note.id \notin DOMAIN pending
    BY <2>2, NoResults DEF Pending
  <2> QED
    BY <2>1, <2>2
<1> HIDE DEF s
<1>2. /\ r \in Seq(Notes) /\ Len(r) = Len(s) + 1 /\ Len(s) \in Nat /\ DOMAIN s = 1..Len(s)
      /\ \A i \in 1..Len(s) : r[i] = s[i]
      /\ r[Len(s) + 1] = note
  BY <1>1, AppendProperties, LenProperties
<1>3. DOMAIN r = 1..Len(s) + 1
  BY <1>2, LenProperties
<1> HIDE DEF r
<1>4. r # <<>>
  BY <1>2, EmptySeq
<1>5. \A i \in DOMAIN r : r[i].id = note.id
  BY <1>1, <1>2, <1>3
<1> QED
  BY <1>2, <1>4, <1>5 DEF r, s

LEMMA PendingRestrict ==
    ASSUME NEW f, IsPending(f), NEW S, S \subseteq DOMAIN f
    PROVE  IsPending(Restrict(f, S))
<1> DEFINE g == Restrict(f, S)
<1>1. DOMAIN g = S /\ \A x \in S : g[x] = f[x]
  BY Restricts
<1> HIDE DEF g
<1>2. IsPending(g)
  BY <1>1 DEF IsPending
<1> QED
  BY <1>2 DEF g

(* The id of a result names its process and its statement, or the page that*)
(* is asked for.                                                           *)
LEMMA ResultIdTyped ==
    ASSUME ExecInv, NEW p \in Procs, NEW k \in 1..Len(job[p].script)
    PROVE  ResultId(p, k) \in Ids /\ ResultId(p, k) \in Ids \cup {SummaryId}
<1>1. sub[p] \in [1..Len(job[p].script) -> 0..MaxSets] /\ MaxSets \in Nat /\ k \in Nat
  BY ProcTyped
<1>2. sub[p][k] \in Nat
  BY <1>1
<1>3. <<p, k, sub[p][k]>> \in Ids
  BY <1>1, <1>2 DEF Ids
<1>4. job[p].old \in Ids \cup {NoId}
  BY DEF ExecInv, ExecTyped
<1> QED
  BY <1>3, <1>4 DEF ResultId

(* A packet of a statement which was begun.                                *)
Known(d) ==
    /\ d.proc \in Procs /\ d.pos \in 1..Len(job[d.proc].script) /\ d.pos \in 1..pos[d.proc]
    /\ d.set \in Nat /\ d.n \in Nat \ {0} /\ d.last \in BOOLEAN /\ d.some \in BOOLEAN
    /\ pc[d.proc] # "new"

LEMMA HeldIsKnown == ASSUME ExecInv, NEW d \in held PROVE Known(d)
<1>1. /\ d \in [proc : Procs, pos : Nat, set : Nat, n : 1..MaxPackets, last : BOOLEAN, some : BOOLEAN]
      /\ pc[d.proc] # "new" /\ d.pos \in 1..pos[d.proc]
  BY DEF ExecInv, ExecTyped, HeldKnown
<1>2. d.proc \in Procs
  BY <1>1
<1>3. pos[d.proc] \in 0..Len(job[d.proc].script) /\ Len(job[d.proc].script) \in Nat
  BY <1>2, ProcTyped
<1>4. d.pos \in 1..Len(job[d.proc].script)
  BY <1>1, <1>3
<1>5. d.n \in 1..MaxPackets /\ MaxPackets \in Nat
  BY <1>1, ExecutionAssumption
<1>6. d.n \in Nat \ {0}
  BY <1>5
<1> QED
  BY <1>1, <1>2, <1>4, <1>6 DEF Known

LEMMA PacketIsKnown ==
    ASSUME ExecInv, NEW p, NEW last \in BOOLEAN, NEW some \in BOOLEAN, OnData(p, last, some)
    PROVE  Known(PacketOf(p, last, some))
<1>1. /\ IsServed(p)
      /\ answer.done => job[p].script[pos[p]] = "call" /\ NextAnswer(last).set < MaxSets
  BY OnDataDoes
<1>2. NextAnswer(last) \in [set : 0..MaxSets - 1, n : 1..MaxPackets, done : BOOLEAN]
  BY <1>1, NextAnswerTyped
<1>3. /\ p \in Procs /\ pc[p] = "execute" /\ pos[p] \in 1..Len(job[p].script)
      /\ Len(job[p].script) \in Nat /\ MaxSets \in Nat \ {0} /\ MaxPackets \in Nat \ {0}
  BY <1>1, ServedWaits, ProcTyped
<1>4. NextAnswer(last).set \in 0..MaxSets - 1 /\ NextAnswer(last).n \in 1..MaxPackets
  BY <1>2
<1>5. NextAnswer(last).set \in Nat /\ NextAnswer(last).n \in Nat \ {0} /\ pos[p] \in 1..pos[p]
  BY <1>3, <1>4
<1> QED
  BY <1>3, <1>5 DEF Known, PacketOf

(* The timed results                                                       *)
LEMMA IsPendingInit == ViewInv => IsPending(pending)
  BY DEF ViewInv, ViewTyped, PendingOwn, IsPending

LEMMA ClosingLine ==
    ASSUME IsPending(pending), NEW p, NEW f, IsPending(f)
    PROVE  IsPending(WithClosingLine(p, f))
<1> DEFINE note == [id |-> SummaryId, n |-> 0, info |-> "absent"]
<1>1. note \in Notes /\ note.id = SummaryId
  BY DEF Notes
<1>2. /\ Append(Pending(SummaryId), note) \in Seq(Notes) /\ Append(Pending(SummaryId), note) # <<>>
      /\ \A i \in DOMAIN Append(Pending(SummaryId), note) :
            Append(Pending(SummaryId), note)[i].id = SummaryId
  <2> HIDE DEF note
  <2> QED
    BY <1>1, PendingGrows
<1> HIDE DEF note
<1>3. IsPending(With(f, SummaryId, Append(Pending(SummaryId), note)))
  BY <1>2, PendingWith
<1> QED
  BY <1>3 DEF WithClosingLine, note

LEMMA FailPending ==
    ASSUME IInv, NEW p \in Procs, Fail(p) PROVE IsPending(pending')
<1>0. ExecInv /\ IsPending(pending)
  BY TwoParts, IsPendingInit
<1>1. IsServed(p)
  BY DEF Fail, IsServed
<1>2. PICK id : id = ResultId(p, pos[p])
  OBVIOUS
<1>3. id \in Ids
  BY <1>0, <1>1, <1>2, ServedWaits, ResultIdTyped
<1> DEFINE note == [id |-> id, n |-> 0, info |-> "given"]
<1>4. note \in Notes /\ note.id = id
  BY <1>3 DEF Notes
<1> HIDE DEF note
<1>5. <<note>> \in Seq(Notes) /\ <<note>> # <<>> /\ \A i \in DOMAIN <<note>> : <<note>>[i].id = id
  BY <1>4
<1>6. IsPending(With(pending, id, <<note>>))
  BY <1>0, <1>5, PendingWith
<1>7. pending' = WithClosingLine(p, With(pending, id, <<note>>))
  BY <1>2 DEF Fail, note
<1> QED
  BY <1>0, <1>6, <1>7, ClosingLine

LEMMA PresentPending ==
    ASSUME ExecInv, IsPending(pending), NEW d, Known(d), Present(d)
    PROVE  IsPending(pending')
<1>1. PICK id : id = ResultId(d.proc, d.pos)
  OBVIOUS
<1>2. id \in Ids
  BY <1>1, ResultIdTyped DEF Known
<1> DEFINE note == [id |-> id, n |-> d.n, info |-> IF d.last THEN "given" ELSE "undefined"]
<1>3. note \in Notes /\ note.id = id
  BY <1>2 DEF Notes, Known
<1> HIDE DEF note
<1>4. IsPending(With(pending, id, Append(Pending(id), note)))
  BY <1>3, PendingGrows, PendingWith
<1>5. pending' = pending \/ pending' = With(pending, id, Append(Pending(id), note))
  BY <1>1 DEF Present, note
<1> QED
  BY <1>4, <1>5

LEMMA TimerPending ==
    ASSUME IsPending(pending), NEW id \in DOMAIN pending, ShowTimedResult(id)
    PROVE  IsPending(pending')
<1> DEFINE s == pending[id]
<1>1. s \in Seq(Notes) /\ s # <<>> /\ \A i \in DOMAIN s : s[i].id = id
  BY DEF IsPending
<1>2. /\ Tail(s) \in Seq(Notes) /\ Len(Tail(s)) = Len(s) - 1 /\ Len(s) \in Nat
      /\ \A i \in 1..Len(Tail(s)) : Tail(s)[i] = s[i + 1]
      /\ DOMAIN s = 1..Len(s)
  BY <1>1, HeadTailProperties, LenProperties
<1>3. DOMAIN Tail(s) = 1..Len(s) - 1
  BY <1>2, LenProperties
<1>4. \A i \in DOMAIN Tail(s) : Tail(s)[i].id = id
  BY <1>1, <1>2, <1>3
<1>5. CASE Len(s) = 1
  <2>1. pending' = Restrict(pending, DOMAIN pending \ {id})
    BY <1>5 DEF ShowTimedResult
  <2> QED
    BY <2>1, PendingRestrict
<1>6. CASE Len(s) # 1
  <2>1. pending' = [pending EXCEPT ![id] = Tail(s)]
    BY <1>6 DEF ShowTimedResult
  <2>2. Tail(s) # <<>>
    BY <1>1, <1>2, <1>6, EmptySeq
  <2> HIDE DEF s
  <2> QED
    BY <1>2, <1>4, <2>1, <2>2 DEF IsPending
<1> QED
  BY <1>5, <1>6

LEMMA PendingKept == ASSUME IInv, [Next]_vars PROVE IsPending(pending')
<1>0. ExecInv /\ IsPending(pending)
  BY TwoParts, IsPendingInit
<1>1. CASE pending' = pending
  BY <1>0, <1>1
<1>2. ASSUME NEW p \in Procs, NEW last \in BOOLEAN, NEW some \in BOOLEAN, OnData(p, last, some)
      PROVE  IsPending(pending')
  <2>1. pending' = pending \/ Present(PacketOf(p, last, some))
    BY <1>2, OnDataDoes
  <2> QED
    BY <1>0, <1>2, <2>1, PacketIsKnown, PresentPending
<1>3. ASSUME NEW p \in Procs, Finish(p) PROVE IsPending(pending')
  BY <1>0, <1>3, ClosingLine DEF Finish
<1>4. ASSUME NEW p \in Procs, Fail(p) PROVE IsPending(pending')
  BY <1>4, FailPending
<1>5. ASSUME NEW d \in held, MetaDataCome(d) PROVE IsPending(pending')
  <2>1. Present(d)
    BY <1>5 DEF MetaDataCome
  <2> QED
    BY <1>0, <2>1, HeldIsKnown, PresentPending
<1>6. ASSUME NEW id \in DOMAIN pending, ShowTimedResult(id) PROVE IsPending(pending')
  BY <1>0, <1>6, TimerPending
<1>7. CASE UNCHANGED vars
  BY <1>1, <1>7 DEF vars
<1>8. ASSUME NEW r \in Runs, Run(r) \/ HistoryStored(r) \/ ClearEnds(r) PROVE pending' = pending
  BY <1>8 DEF Run, HistoryStored, ClearEnds
<1>9. ASSUME NEW p \in Pages, ShowPage(p) PROVE pending' = pending
  BY <1>9 DEF ShowPage
<1>10. ASSUME NEW p \in Procs, Execute(p) PROVE pending' = pending
  BY <1>10 DEF Execute
<1>11. ASSUME WaitTimerFires \/ TabStep PROVE pending' = pending
  BY <1>11 DEF WaitTimerFires, TabStep, Hide, Show, ReadNext, Restore
<1> QED
  BY <1>1, <1>2, <1>3, <1>4, <1>5, <1>6, <1>7, <1>8, <1>9, <1>10, <1>11
  DEF Next, ProcStep, Response, Timer

(* The history of mixed packets and pages                                  *)
LEMMA PresentMixed ==
    ASSUME ExecInv, MixedTyped, NEW d, Known(d), Present(d) PROVE MixedTyped'
<1> DEFINE p == d.proc
           k == d.pos
<1>1. p \in Procs /\ k \in 1..Len(job[p].script) /\ ResultId(p, k) \in Ids
  BY ResultIdTyped DEF Known
<1>2. sub[p] \in [1..Len(job[p].script) -> 0..MaxSets] /\ MaxSets \in Nat /\ k \in Nat
  BY <1>1, ProcTyped
<1>3. sub[p][k] + 1 \in Nat
  BY <1>1, <1>2
<1>4. <<p, k, sub[p][k] + 1>> \in Ids
  BY <1>1, <1>2, <1>3 DEF Ids
<1>5. \A e \in PacketsMixed(d) : \E id \in Ids : e = <<"packets", id>>
  BY <1>1, <1>4 DEF PacketsMixed
<1>6. mixed' = mixed \cup PacketsMixed(d)
  BY DEF Present
<1>7. Ids' = Ids
  BY DEF Ids
<1> QED
  BY <1>5, <1>6, <1>7 DEF MixedTyped

LEMMA MixedKept == ASSUME IInv, [Next]_vars PROVE MixedTyped'
<1>0. ExecInv /\ MixedTyped
  BY TwoParts DEF ViewInv
<1>1. mixed' = mixed => MixedTyped'
  BY <1>0 DEF MixedTyped, Ids
<1>2. ASSUME NEW p \in Procs, NEW last \in BOOLEAN, NEW some \in BOOLEAN, OnData(p, last, some)
      PROVE  MixedTyped'
  <2>1. mixed' = mixed \/ Present(PacketOf(p, last, some))
    BY <1>2, OnDataDoes
  <2> QED
    BY <1>0, <1>1, <1>2, <2>1, PacketIsKnown, PresentMixed
<1>3. ASSUME NEW d \in held, MetaDataCome(d) PROVE MixedTyped'
  <2>1. Present(d)
    BY <1>3 DEF MetaDataCome
  <2> QED
    BY <1>0, <2>1, HeldIsKnown, PresentMixed
<1>4. ASSUME NEW p \in Procs, Execute(p) PROVE MixedTyped'
  <2>1. mixed' = mixed \cup PagesMixed(p)
    BY <1>4 DEF Execute
  <2>2. job[p].old \in Ids \cup {NoId}
    BY <1>0 DEF ExecInv, ExecTyped
  <2>3. PagesMixed(p) \subseteq {<<"pages", job[p].old>>}
    BY DEF PagesMixed
  <2>4. Ids' = Ids
    BY DEF Ids
  <2> QED
    BY <1>0, <2>1, <2>2, <2>3, <2>4 DEF MixedTyped
<1>5. CASE UNCHANGED vars
  BY <1>1, <1>5 DEF vars
<1>6. ASSUME NEW r \in Runs, Run(r) \/ HistoryStored(r) \/ ClearEnds(r) PROVE mixed' = mixed
  BY <1>6 DEF Run, HistoryStored, ClearEnds
<1>7. ASSUME NEW p \in Pages, ShowPage(p) PROVE mixed' = mixed
  BY <1>7 DEF ShowPage
<1>8. ASSUME NEW p \in Procs, Finish(p) \/ Fail(p) PROVE mixed' = mixed
  BY <1>8 DEF Finish, Fail
<1>9. ASSUME Timer \/ TabStep PROVE mixed' = mixed
  BY <1>9 DEF Timer, WaitTimerFires, ShowTimedResult, TabStep, Hide, Show, ReadNext, Restore
<1> QED
  BY <1>1, <1>2, <1>3, <1>4, <1>5, <1>6, <1>7, <1>8, <1>9 DEF Next, ProcStep, Response

(* The rest of what is said of the presentation: the types but those of the*)
(* timed results, and what is marked.                                      *)
Shows ==
    /\ state \in {"idle", "pending", "waiting", "loading"}
    /\ waitTimer \in BOOLEAN /\ type \in {"none", "text", "sets"}
    /\ IsResults(sets) /\ IsResults(copy) /\ IsResults(stored)
    /\ texts \subseteq Ids /\ notes \subseteq Notes
    /\ cached \subseteq Ids /\ cut \subseteq Ids \cup {SummaryId}
    /\ frozen \in BOOLEAN /\ loading \in BOOLEAN
    /\ Marked

LEMMA ViewParts == ViewInv <=> Shows /\ IsPending(pending) /\ Replacing /\ MixedTyped
  BY DEF ViewInv, ViewTyped, PendingOwn, Shows, IsPending

LEMMA StillShows ==
    ASSUME Shows, UNCHANGED <<viewVars, tabVars, cached, stored, cut>> PROVE Shows'
  BY DEF Shows, viewVars, tabVars, Marked, IsResults

LEMMA StoredTyped == ASSUME Shows, NEW id PROVE Stored(id) \in Result
<1>1. CASE id \in DOMAIN stored
  BY <1>1 DEF Stored, Shows, IsResults, Result
<1>2. CASE id \notin DOMAIN stored
  <2>1. <<>> \in Seq(Packets)
    OBVIOUS
  <2> QED
    BY <1>2, <2>1 DEF Stored, Result
<1> QED
  BY <1>1, <1>2

LEMMA AddTextShows ==
    ASSUME Shows, NEW note \in Notes, AddText(note), UNCHANGED <<tabVars, cached, stored, cut>>
    PROVE  Shows'
<1>1. /\ waitTimer' = FALSE /\ notes' = notes \cup {note} /\ sets' = sets /\ texts' = texts
      /\ type' = IF type = "none" THEN "text" ELSE type
      /\ UNCHANGED <<frozen, loading, copy, cached, stored, cut>>
  BY DEF AddText, tabVars
<1>2. state' \in {"idle", "pending", "waiting", "loading"}
  BY DEF AddText, StateOnArrival, Shows
<1>3. IsResults(sets)' /\ IsResults(copy)' /\ IsResults(stored)'
  BY <1>1 DEF Shows, IsResults
<1>4. Marked'
  BY <1>1 DEF Shows, Marked
<1> QED
  BY <1>1, <1>2, <1>3, <1>4 DEF Shows

LEMMA ClearStartsShows ==
    ASSUME Shows, ClearStarts, UNCHANGED <<type, sets, texts, notes, tabVars, cached>>
    PROVE  Shows'
<1>1. /\ cut' = cut \cup DOMAIN copy /\ state' = "idle" /\ waitTimer' = FALSE
      /\ \/ stored' = stored
         \/ stored' = Restrict(stored, DOMAIN stored \ (DOMAIN sets \cup texts))
      /\ UNCHANGED <<type, sets, texts, notes, frozen, loading, copy, cached>>
  BY DEF ClearStarts, tabVars
<1>2. IsResults(stored')
  <2>1. DOMAIN stored \ (DOMAIN sets \cup texts) \subseteq DOMAIN stored /\ IsResults(stored)
    BY DEF Shows
  <2>2. IsResults(Restrict(stored, DOMAIN stored \ (DOMAIN sets \cup texts)))
    BY <2>1, ResultsRestrict
  <2> QED
    BY <1>1, <2>1, <2>2
<1>3. Marked'
  BY <1>1 DEF Shows, Marked
<1>4. IsResults(sets)' /\ IsResults(copy)' /\ DOMAIN copy \subseteq Ids
  BY <1>1 DEF Shows, IsResults
<1>5. IsResults(stored)'
  BY <1>2 DEF IsResults
<1> QED
  BY <1>1, <1>3, <1>4, <1>5 DEF Shows

LEMMA ClearEndsShows == ASSUME Shows, NEW r, ClearEnds(r) PROVE Shows'
<1>1. /\ cut' = cut \cup DOMAIN stored /\ type' = "none" /\ sets' = <<>> /\ texts' = {} /\ notes' = {}
      /\ UNCHANGED <<state, waitTimer, frozen, loading, copy, cached, stored>>
  BY DEF ClearEnds, tabVars
<1>2. IsResults(sets') /\ DOMAIN sets' = {}
  BY <1>1, NoResults
<1>3. IsResults(sets)' /\ IsResults(copy)' /\ IsResults(stored)' /\ DOMAIN stored \subseteq Ids
  BY <1>1, <1>2 DEF Shows, IsResults
<1>4. Marked'
  BY <1>1, <1>2 DEF Shows, Marked
<1> QED
  BY <1>1, <1>3, <1>4 DEF Shows

(* What AddRows does.                                                      *)
LEMMA AddRowsDoes ==
    ASSUME Shows, NEW id \in Ids, NEW packet \in Seq(Packets), NEW last \in BOOLEAN,
           NEW isSelect, NEW replaces, AddRows(id, packet, last, isSelect, replaces)
    PROVE  /\ waitTimer' = FALSE /\ notes' = notes
           /\ state' \in {"idle", "pending", "waiting", "loading"}
           /\ \/ /\ texts' = texts \cup {id} /\ sets' = sets
                 /\ type' = IF type = "none" THEN "text" ELSE type
              \/ /\ \E v \in Result : sets' = With(sets, id, v)
                 /\ type' = "sets" /\ texts' = texts
<1> DEFINE isNew == id \notin DOMAIN sets
           asText == packet = <<>> /\ (type = "text" \/ (isNew /\ ~isSelect))
           set == IF isNew THEN [rows |-> packet, done |-> last]
                  ELSE [rows |-> IF replaces THEN packet ELSE sets[id].rows \o packet,
                        done |-> sets[id].done \/ last]
<1>1. set \in Result
  <2>1. CASE isNew
    BY <2>1 DEF Result
  <2>2. CASE ~isNew
    <3>1. sets[id].rows \in Seq(Packets) /\ sets[id].done \in BOOLEAN
      BY <2>2 DEF Shows, IsResults
    <3>2. sets[id].rows \o packet \in Seq(Packets)
      BY <3>1, ConcatProperties
    <3>3. (sets[id].done \/ last) \in BOOLEAN
      BY <3>1
    <3> DEFINE rows == IF replaces THEN packet ELSE sets[id].rows \o packet
               done == sets[id].done \/ last
    <3>4. rows \in Seq(Packets)
      BY <3>2
    <3>5. set = [rows |-> rows, done |-> done]
      BY <2>2
    <3> HIDE DEF rows, done, set
    <3>6. [rows |-> rows, done |-> done] \in Result
      BY <3>3, <3>4 DEF Result, done
    <3> QED
      BY <3>5, <3>6
  <2> QED
    BY <2>1, <2>2
<1>2. /\ waitTimer' = FALSE /\ notes' = notes
      /\ \/ texts' = texts \cup {id} /\ sets' = sets /\ type' = IF type = "none" THEN "text" ELSE type
         \/ sets' = With(sets, id, set) /\ type' = "sets" /\ texts' = texts
  <2> HIDE DEF asText
  <2>1. IF asText THEN /\ texts' = texts \cup {id} /\ sets' = sets
                       /\ type' = IF type = "none" THEN "text" ELSE type
        ELSE sets' = With(sets, id, set) /\ type' = "sets" /\ texts' = texts
    BY DEF AddRows, asText
  <2> HIDE DEF set
  <2> QED
    BY <2>1 DEF AddRows
<1> HIDE DEF set, asText, isNew
<1>3. state' \in {"idle", "pending", "waiting", "loading"}
  <2>1. state' \in {"idle", StateOnArrival("given")}
    BY DEF AddRows
  <2>2. StateOnArrival("given") \in {"idle", "pending", "waiting", "loading"}
    BY DEF StateOnArrival, Shows
  <2> QED
    BY <2>1, <2>2
<1> QED
  BY <1>1, <1>2, <1>3

LEMMA PresentShows ==
    ASSUME ExecInv, Shows, NEW d, Known(d), Present(d), UNCHANGED tabVars
    PROVE  Shows'
<1>1. PICK id : id = ResultId(d.proc, d.pos)
  OBVIOUS
<1>2. id \in Ids
  BY <1>1, ResultIdTyped DEF Known
<1> DEFINE packet == IF d.some THEN <<[proc |-> d.proc, set |-> d.set, n |-> d.n]>> ELSE <<>>
           isSelect == job[d.proc].script[d.pos] \in Selects
           now == [rows |-> Stored(id).rows \o packet, done |-> Stored(id).done \/ d.last]
<1>3. packet \in Seq(Packets)
  <2> DEFINE x == [proc |-> d.proc, set |-> d.set, n |-> d.n]
  <2>1. x \in Packets
    BY DEF Known, Packets
  <2> HIDE DEF x
  <2>2. <<x>> \in Seq(Packets) /\ <<>> \in Seq(Packets)
    BY <2>1
  <2>3. packet = IF d.some THEN <<x>> ELSE <<>>
    BY DEF x
  <2> HIDE DEF packet
  <2> QED
    BY <2>2, <2>3
<1> HIDE DEF packet
<1>4. now \in Result
  <2>1. Stored(id).rows \in Seq(Packets) /\ Stored(id).done \in BOOLEAN
    BY StoredTyped DEF Result
  <2>2. Stored(id).rows \o packet \in Seq(Packets)
    BY <1>3, <2>1, ConcatProperties
  <2> DEFINE done == Stored(id).done \/ d.last
  <2>3. done \in BOOLEAN
    BY <2>1 DEF Known
  <2> HIDE DEF done
  <2>4. [rows |-> Stored(id).rows \o packet, done |-> done] \in Result
    BY <2>2, <2>3 DEF Result
  <2> QED
    BY <2>4 DEF done
<1> HIDE DEF now, isSelect
<1>5. CASE job[d.proc].text
  <2>1. UNCHANGED <<viewVars, cached, stored, cut>>
    BY <1>5 DEF Present
  <2> QED
    BY <2>1, StillShows
<1>6. CASE ~job[d.proc].text
  <2>1. /\ stored' = With(stored, id, now)
        /\ AddRows(id, packet, d.last, isSelect, d.proc \in replace)
        /\ cached' = IF frozen THEN cached \cup {id} ELSE cached
        /\ cut' = IF Races(id) THEN cut \cup {id} ELSE cut
    BY <1>1, <1>6 DEF Present, packet, now, isSelect
  <2>2. d.last \in BOOLEAN
    BY DEF Known
  <2>3. /\ waitTimer' = FALSE /\ notes' = notes
        /\ state' \in {"idle", "pending", "waiting", "loading"}
        /\ \/ /\ texts' = texts \cup {id} /\ sets' = sets
              /\ type' = IF type = "none" THEN "text" ELSE type
           \/ /\ \E v \in Result : sets' = With(sets, id, v)
              /\ type' = "sets" /\ texts' = texts
    BY <1>2, <1>3, <2>1, <2>2, AddRowsDoes
  <2>4. UNCHANGED <<frozen, loading, copy>>
    BY DEF tabVars
  <2>5. IsResults(stored')
    BY <1>2, <1>4, <2>1, ResultsWith DEF Shows
  <2>6. IsResults(sets') /\ DOMAIN sets' \subseteq DOMAIN sets \cup {id}
    <3>1. CASE sets' = sets
      BY <3>1 DEF Shows
    <3>2. ASSUME NEW v \in Result, sets' = With(sets, id, v)
          PROVE  IsResults(sets') /\ DOMAIN sets' \subseteq DOMAIN sets \cup {id}
      <4>1. IsResults(With(sets, id, v))
        BY <1>2, ResultsWith DEF Shows
      <4>2. SetAt(sets, id, v, With(sets, id, v))
        BY WithAt
      <4> QED
        BY <3>2, <4>1, <4>2 DEF SetAt
    <3> QED
      BY <2>3, <3>1, <3>2
  <2>7. texts' \subseteq Ids /\ cached' \subseteq Ids /\ cut' \subseteq Ids \cup {SummaryId}
        /\ notes' \subseteq Notes /\ type' \in {"none", "text", "sets"}
    BY <1>2, <2>1, <2>3 DEF Shows
  <2>8. IsResults(sets)' /\ IsResults(copy)' /\ IsResults(stored)'
    BY <2>4, <2>5, <2>6 DEF Shows, IsResults
  <2>9. Marked'
    <3>1. ~(frozen' /\ loading') /\ (type' # "sets" => sets' = <<>>)
      BY <2>3, <2>4 DEF Shows, Marked
    <3>2. ASSUME frozen' \/ loading' PROVE DOMAIN sets' \subseteq cached' \cup cut'
      <4>1. DOMAIN sets \subseteq cached \cup cut
        BY <2>4, <3>2 DEF Shows, Marked
      <4>2. cached \subseteq cached' /\ cut \subseteq cut'
        BY <2>1
      <4>3. CASE frozen
        BY <2>1, <2>6, <4>1, <4>2, <4>3
      <4>4. CASE ~frozen
        <5>1. Races(id) \/ id \in cached
          BY <2>4, <3>2, <4>4 DEF Races
        <5> QED
          BY <2>1, <2>6, <4>1, <4>2, <5>1
      <4> QED
        BY <4>3, <4>4
    <3> QED
      BY <3>1, <3>2 DEF Marked
  <2>10. waitTimer' \in BOOLEAN /\ frozen' \in BOOLEAN /\ loading' \in BOOLEAN
    BY <2>3, <2>4 DEF Shows
  <2> QED
    BY <2>3, <2>7, <2>8, <2>9, <2>10 DEF Shows
<1> QED
  BY <1>5, <1>6

LEMMA TabShows == ASSUME Shows, TabStep PROVE Shows'
<1>1. CASE Hide
  <2>1. /\ ~loading /\ frozen' = TRUE
        /\ \/ /\ type = "sets" /\ cached' = cached \cup DOMAIN sets \cup texts /\ sets' = <<>>
           \/ type # "sets" /\ cached' = cached /\ sets' = sets
        /\ UNCHANGED <<state, waitTimer, type, texts, notes, loading, copy, stored, cut>>
    BY <1>1 DEF Hide
  <2>2. sets' = <<>> /\ cached' \subseteq Ids
    BY <2>1 DEF Shows, Marked, IsResults
  <2>3. IsResults(sets') /\ DOMAIN sets' = {}
    BY <2>2, NoResults
  <2>4. IsResults(sets)' /\ IsResults(copy)' /\ IsResults(stored)'
    BY <2>1, <2>3 DEF Shows, IsResults
  <2>5. Marked'
    BY <2>1, <2>2, <2>3 DEF Marked
  <2> QED
    BY <2>1, <2>2, <2>4, <2>5 DEF Shows
<1>2. CASE Show
  <2>1. /\ frozen /\ frozen' = FALSE
        /\ \/ loading' = TRUE /\ \E id \in cached : copy' = With(<<>>, id, Stored(id))
           \/ loading' = loading /\ copy' = copy
        /\ waitTimer' \in {waitTimer, waitTimer /\ type = "none"}
        /\ UNCHANGED <<state, type, sets, texts, notes, cached, stored, cut>>
    BY <1>2 DEF Show
  <2>2. IsResults(copy')
    <3>1. ASSUME NEW id \in cached, copy' = With(<<>>, id, Stored(id)) PROVE IsResults(copy')
      <4>1. id \in Ids /\ Stored(id) \in Result
        BY StoredTyped DEF Shows
      <4> QED
        BY <3>1, <4>1, ResultsWith, NoResults
    <3> QED
      BY <2>1, <3>1 DEF Shows
  <2>3. IsResults(sets)' /\ IsResults(copy)' /\ IsResults(stored)'
    BY <2>1, <2>2 DEF Shows, IsResults
  <2>4. waitTimer' \in BOOLEAN /\ loading' \in BOOLEAN /\ frozen' \in BOOLEAN
    BY <2>1 DEF Shows
  <2>5. Marked'
    BY <2>1 DEF Shows, Marked
  <2> QED
    BY <2>1, <2>3, <2>4, <2>5 DEF Shows
<1>3. CASE ReadNext
  <2>1. /\ \E id \in cached : copy' = With(copy, id, Stored(id))
        /\ UNCHANGED <<state, waitTimer, type, sets, texts, notes, frozen, loading, cached, stored, cut>>
    BY <1>3 DEF ReadNext, viewVars
  <2>2. IsResults(copy')
    <3>1. ASSUME NEW id \in cached, copy' = With(copy, id, Stored(id)) PROVE IsResults(copy')
      <4>1. id \in Ids /\ Stored(id) \in Result /\ IsResults(copy)
        BY StoredTyped DEF Shows
      <4> QED
        BY <3>1, <4>1, ResultsWith
    <3> QED
      BY <2>1, <3>1
  <2>3. IsResults(sets)' /\ IsResults(copy)' /\ IsResults(stored)'
    BY <2>1, <2>2 DEF Shows, IsResults
  <2>4. Marked'
    BY <2>1 DEF Shows, Marked
  <2> QED
    BY <2>1, <2>3, <2>4 DEF Shows
<1>4. CASE Restore
  <2>1. /\ loading /\ waitTimer' = FALSE /\ type' = "sets"
        /\ sets' = RestrictValues(copy, LAMBDA set : set.rows # <<>>)
        /\ (texts' = texts /\ notes' = notes) \/ (texts' = {} /\ notes' = {})
        /\ cut' = cut \cup Lost /\ cached' = {} /\ loading' = FALSE /\ copy' = <<>>
        /\ UNCHANGED <<state, frozen, stored>>
    BY <1>4 DEF Restore
  <2>2. IsResults(sets')
    <3>1. sets' = Restrict(copy, {x \in DOMAIN copy : copy[x].rows # <<>>})
      BY <2>1 DEF RestrictValues
    <3>2. {x \in DOMAIN copy : copy[x].rows # <<>>} \subseteq DOMAIN copy /\ IsResults(copy)
      BY DEF Shows
    <3> QED
      BY <3>1, <3>2, ResultsRestrict
  <2>3. Lost \subseteq Ids \cup {SummaryId}
    <3>1. \A note \in notes : note.id \in Ids \cup {SummaryId}
      BY DEF Shows, Notes
    <3> QED
      BY <3>1 DEF Lost, Shows, IsResults
  <2>4. IsResults(copy')
    BY <2>1, NoResults
  <2>5. IsResults(sets)' /\ IsResults(copy)' /\ IsResults(stored)'
    BY <2>1, <2>2, <2>4 DEF Shows, IsResults
  <2>6. Marked'
    BY <2>1 DEF Shows, Marked
  <2>7. cut' \subseteq Ids \cup {SummaryId} /\ texts' \subseteq Ids /\ notes' \subseteq Notes
    BY <2>1, <2>3 DEF Shows
  <2> QED
    BY <2>1, <2>5, <2>6, <2>7 DEF Shows
<1> QED
  BY <1>1, <1>2, <1>3, <1>4 DEF TabStep

LEMMA ExecuteShows == ASSUME Shows, NEW p \in Procs, Execute(p) PROVE Shows'
<1>1. /\ \/ stored' = stored
         \/ stored' = Restrict(stored, DOMAIN stored \ {job[p].old})
      /\ \/ state' = state /\ waitTimer' = waitTimer
         \/ state' = "pending" /\ waitTimer' = TRUE
      /\ UNCHANGED <<type, sets, texts, notes, frozen, loading, copy, cached, cut>>
  BY DEF Execute, ExecutionStarts, tabVars
<1>2. IsResults(stored')
  <2>1. DOMAIN stored \ {job[p].old} \subseteq DOMAIN stored /\ IsResults(stored)
    BY DEF Shows
  <2>2. IsResults(Restrict(stored, DOMAIN stored \ {job[p].old}))
    BY <2>1, ResultsRestrict
  <2> QED
    BY <1>1, <2>1, <2>2
<1>3. IsResults(sets)' /\ IsResults(copy)' /\ IsResults(stored)'
  BY <1>1, <1>2 DEF Shows, IsResults
<1>4. Marked'
  BY <1>1 DEF Shows, Marked
<1> QED
  BY <1>1, <1>3, <1>4 DEF Shows

LEMMA ShowsKept == ASSUME IInv, [Next]_vars PROVE Shows'
<1>0. ExecInv /\ Shows /\ IsPending(pending) /\ Replacing
  BY TwoParts, ViewParts
<1>1. CASE UNCHANGED vars
  BY <1>0, <1>1, StillShows DEF vars
<1>2. ASSUME NEW r \in Runs, Run(r) \/ HistoryStored(r) \/ ClearEnds(r) PROVE Shows'
  <2>1. CASE Run(r)
    <3>1. ClearStarts /\ UNCHANGED <<type, sets, texts, notes, tabVars, cached>>
      BY <2>1 DEF Run, Clear
    <3> QED
      BY <1>0, <3>1, ClearStartsShows
  <2>2. CASE HistoryStored(r)
    <3>1. ClearStarts /\ UNCHANGED <<type, sets, texts, notes, tabVars, cached>>
      BY <2>2 DEF HistoryStored, Clear
    <3> QED
      BY <1>0, <3>1, ClearStartsShows
  <2>3. CASE ClearEnds(r)
    BY <1>0, <2>3, ClearEndsShows
  <2> QED
    BY <1>2, <2>1, <2>2, <2>3
<1>3. ASSUME NEW p \in Pages, ShowPage(p) PROVE Shows'
  BY <1>0, <1>3, StillShows DEF ShowPage
<1>4. ASSUME NEW p \in Procs, Execute(p) PROVE Shows'
  BY <1>0, <1>4, ExecuteShows
<1>5. ASSUME NEW p \in Procs, NEW last \in BOOLEAN, NEW some \in BOOLEAN, OnData(p, last, some)
      PROVE  Shows'
  <2>1. /\ UNCHANGED tabVars
        /\ UNCHANGED <<viewVars, cached, stored, cut>> \/ Present(PacketOf(p, last, some))
    BY <1>5, OnDataDoes DEF tabVars
  <2>2. Known(PacketOf(p, last, some))
    BY <1>0, <1>5, PacketIsKnown
  <2> QED
    BY <1>0, <2>1, <2>2, StillShows, PresentShows
<1>6. ASSUME NEW p \in Procs, Finish(p) PROVE Shows'
  BY <1>0, <1>6, StillShows DEF Finish
<1>7. ASSUME NEW p \in Procs, Fail(p) PROVE Shows'
  <2>1. UNCHANGED <<viewVars, tabVars, cached, stored>>
        /\ cut' = IF p \in replace THEN cut \cup {job[p].old} ELSE cut
    BY <1>7 DEF Fail
  <2>2. p \in replace => job[p].old \in Ids
    BY <1>0 DEF Replacing, ExecInv, ExecTyped
  <2>3. cut' \subseteq Ids \cup {SummaryId} /\ cut \subseteq cut'
    BY <1>0, <2>1, <2>2 DEF Shows
  <2> QED
    BY <1>0, <2>1, <2>3 DEF Shows, viewVars, tabVars, Marked, IsResults
<1>8. ASSUME NEW d \in held, MetaDataCome(d) PROVE Shows'
  <2>1. UNCHANGED tabVars /\ Present(d)
    BY <1>8 DEF MetaDataCome
  <2> QED
    BY <1>0, <2>1, HeldIsKnown, PresentShows
<1>9. CASE WaitTimerFires
  BY <1>0, <1>9 DEF WaitTimerFires, Shows, tabVars, Marked, IsResults
<1>10. ASSUME NEW id \in DOMAIN pending, ShowTimedResult(id) PROVE Shows'
  <2>1. Head(pending[id]) \in Notes
    BY <1>0, HeadTailProperties, EmptySeq DEF IsPending
  <2>2. AddText(Head(pending[id])) /\ UNCHANGED <<tabVars, cached, stored, cut>>
    BY <1>10 DEF ShowTimedResult
  <2> QED
    BY <1>0, <2>1, <2>2, AddTextShows
<1>11. CASE TabStep
  BY <1>0, <1>11, TabShows
<1> QED
  BY <1>1, <1>2, <1>3, <1>4, <1>5, <1>6, <1>7, <1>8, <1>9, <1>10, <1>11
  DEF Next, ProcStep, Response, Timer

LEMMA IInvKept == ASSUME IInv, [Next]_vars PROVE IInv'
<1>1. ExecInv'
  BY ExecKept
<1>2. ViewInv'
  <2>1. Shows' /\ IsPending(pending') /\ Replacing' /\ MixedTyped'
    BY ShowsKept, PendingKept, ReplacingKept, MixedKept
  <2> QED
    BY <2>1 DEF ViewInv, ViewTyped, PendingOwn, Shows, IsPending
<1>3. TypeOK'
  BY <1>1, <1>2 DEF ExecInv, ViewInv, ExecTyped, ViewTyped, MixedTyped, TypeOK, Modes
<1> QED
  BY <1>1, <1>2, <1>3 DEF ExecInv, ViewInv, IInv

LEMMA IInvInit == ASSUME Init PROVE IInv
<1>0. MaxSets \in Nat \ {0} /\ MaxPackets \in Nat \ {0} /\ MaxRuns \in Nat /\ MaxPages \in Nat
  BY ExecutionAssumption
<1>1. <<>> \in Seq(Kinds) /\ Len(<<>>) = 0 /\ 1..Len(<<>>) = {} /\ <<>> \in Seq(Procs)
      /\ DOMAIN <<>> = {}
  OBVIOUS
<1>2. ASSUME NEW p \in Procs
      PROVE  /\ job[p] \in JobTypes /\ job[p].script = <<>> /\ job[p].old = NoId
             /\ pos[p] = 0 /\ sub[p] = <<>> /\ pc[p] = "new"
  <2>1. job[p] = [script |-> <<>>, stop |-> FALSE, text |-> FALSE, old |-> NoId]
    BY DEF Init
  <2> QED
    BY <1>1, <2>1 DEF Init, JobTypes
<1>3. ExecTyped
  <2>1. ASSUME NEW p \in Procs
        PROVE  /\ job[p].script \in Seq(Kinds) /\ job[p].old \in Ids \cup {NoId}
               /\ pos[p] \in 0..Len(job[p].script)
               /\ sub[p] \in [1..Len(job[p].script) -> 0..MaxSets]
    <3>1. sub[p] \in [1..Len(job[p].script) -> 0..MaxSets]
      <4>1. DOMAIN sub[p] = {} /\ sub[p] = [k \in DOMAIN sub[p] |-> sub[p][k]]
        BY <1>1, <1>2
      <4>2. 1..Len(job[p].script) = {}
        BY <1>1, <1>2
      <4> QED
        BY <4>1, <4>2
    <3>2. pos[p] \in 0..Len(job[p].script)
      BY <1>1, <1>2
    <3> QED
      BY <1>1, <1>2, <3>1, <3>2
  <2>2. answer \in [set : 0..MaxSets - 1, n : 0..MaxPackets, done : BOOLEAN]
    BY <1>0 DEF Init, NoAnswer
  <2> QED
    BY <1>1, <2>1, <2>2 DEF Init, ExecTyped, Modes
<1>4. JobsTyped
  <2>1. DOMAIN job = Procs /\ pos \in [Procs -> Nat] /\ DOMAIN sub = Procs /\ Runs \subseteq Procs
    BY DEF Init, Procs
  <2>2. job \in [Procs -> JobTypes]
    <3>1. job = [p \in Procs |-> job[p]]
      BY DEF Init
    <3> QED
      BY <1>2, <3>1
  <2> QED
    BY <1>2, <2>1, <2>2 DEF JobsTyped
<1>5. Serving
  <2>1. IsInjective(queue) /\ Range(queue) = {} /\ answer = NoAnswer /\ answer.n = 0
    BY <1>1 DEF Init, IsInjective, Range, NoAnswer
  <2>2. answer.n < MaxPackets
    BY <1>0, <2>1
  <2>3. \A p \in Procs : p \in Range(queue) <=> pc[p] = "execute"
    BY <1>2, <2>1
  <2> QED
    BY <1>2, <2>1, <2>2, <2>3 DEF Serving
<1>6. HeldKnown /\ Replacing
  BY DEF Init, HeldKnown, Replacing
<1>7. Counted
  BY <1>1, <1>2 DEF Init, Counted, IsServed
<1>8. PendingOwn /\ Marked
  BY <1>1 DEF Init, PendingOwn, Marked
<1>9. ViewTyped /\ MixedTyped
  BY NoResults DEF Init, ViewTyped, MixedTyped, IsPending
<1> QED
  BY <1>3, <1>4, <1>5, <1>6, <1>7, <1>8, <1>9, TwoParts DEF ExecInv, ViewInv

(* What is declared of the variables holds.                                *)
THEOREM TypeCorrect == Spec => []TypeOK
<1>1. Init => IInv
  BY IInvInit
<1>2. IInv /\ [Next]_vars => IInv'
  BY IInvKept
<1>3. IInv => TypeOK
  BY DEF IInv
<1> QED
  BY <1>1, <1>2, <1>3, PTL DEF Spec

-----------------------------------------------------------------------------
(* What is shown stays                                                       *)

NoteIds == {note.id : note \in notes}
HeldIds == {ResultId(d.proc, d.pos) : d \in held}
OnScreen == DOMAIN sets \cup texts \cup NoteIds \cup DOMAIN pending
Kept == cached \cup cut

LEMMA ShownParts ==
    /\ Shown = OnScreen \cup Kept \cup HeldIds
    /\ Shown' = OnScreen' \cup Kept' \cup HeldIds'
  BY DEF Shown, OnScreen, NoteIds, HeldIds, Kept

(* The id of a packet that waits for meta data changes only with the number*)
(* of results its statement finished.                                      *)
LEMMA HeldIdStays ==
    ASSUME IInv, [Next]_vars, NEW d \in held, sub'[d.proc][d.pos] = sub[d.proc][d.pos]
    PROVE  ResultId(d.proc, d.pos)' = ResultId(d.proc, d.pos)
<1>1. d.proc \in Procs /\ pc[d.proc] # "new"
  BY TwoParts, HeldIsKnown DEF Known
<1>2. job'[d.proc] = job[d.proc]
  BY <1>1, Begun
<1> QED
  BY <1>2 DEF ResultId

LEMMA SameHeld ==
    ASSUME IInv, [Next]_vars, held' = held,
           \A d \in held : sub'[d.proc][d.pos] = sub[d.proc][d.pos]
    PROVE  HeldIds' = HeldIds
<1>1. \A d \in held : ResultId(d.proc, d.pos)' = ResultId(d.proc, d.pos)
  BY HeldIdStays
<1> QED
  BY <1>1 DEF HeldIds

LEMMA WithDomain == ASSUME NEW f, NEW id, NEW v PROVE DOMAIN With(f, id, v) = DOMAIN f \cup {id}
  BY DEF With

(* The data that are presented get a place, and nothing loses its own.     *)
LEMMA PresentKeeps ==
    ASSUME NEW d, Present(d)
    PROVE  ResultId(d.proc, d.pos) \in OnScreen' /\ OnScreen \subseteq OnScreen' /\ Kept \subseteq Kept'
<1> DEFINE id == ResultId(d.proc, d.pos)
           packet == IF d.some THEN <<[proc |-> d.proc, set |-> d.set, n |-> d.n]>> ELSE <<>>
           isSelect == job[d.proc].script[d.pos] \in Selects
<1>1. CASE job[d.proc].text
  <2>1. /\ \E v : pending' = With(pending, id, v)
        /\ UNCHANGED <<sets, texts, notes, cached, cut>>
    BY <1>1 DEF Present, viewVars
  <2>2. DOMAIN pending' = DOMAIN pending \cup {id}
    BY <2>1, WithDomain
  <2> QED
    BY <2>1, <2>2 DEF OnScreen, Kept, NoteIds
<1>2. CASE ~job[d.proc].text
  <2>1. /\ AddRows(id, packet, d.last, isSelect, d.proc \in replace)
        /\ pending' = pending /\ cached \subseteq cached' /\ cut \subseteq cut'
    BY <1>2 DEF Present
  <2> HIDE DEF id, packet, isSelect
  <2>2. /\ notes' = notes
        /\ \/ texts' = texts \cup {id} /\ sets' = sets
           \/ texts' = texts /\ \E v : sets' = With(sets, id, v)
    BY <2>1 DEF AddRows
  <2>3. /\ DOMAIN sets \subseteq DOMAIN sets' /\ texts \subseteq texts'
        /\ id \in DOMAIN sets' \cup texts'
    <3>1. ASSUME NEW v, sets' = With(sets, id, v) PROVE DOMAIN sets' = DOMAIN sets \cup {id}
      BY <3>1, WithDomain
    <3> QED
      BY <2>2, <3>1
  <2>4. NoteIds' = NoteIds
    BY <2>2 DEF NoteIds
  <2>5. id \in OnScreen' /\ OnScreen \subseteq OnScreen' /\ Kept \subseteq Kept'
    BY <2>1, <2>3, <2>4 DEF OnScreen, Kept
  <2> QED
    BY <2>5 DEF id
<1> QED
  BY <1>1, <1>2

LEMMA DataShown ==
    ASSUME IInv, [Next]_vars, NEW d, Known(d), Present(d), held \subseteq held' \cup {d},
           UNCHANGED job
    PROVE  Shown \subseteq Shown' /\ ResultId(d.proc, d.pos) \in Shown'
<1>1. ResultId(d.proc, d.pos) \in OnScreen' /\ OnScreen \subseteq OnScreen' /\ Kept \subseteq Kept'
  BY PresentKeeps
<1>2. sub' = IF d.last THEN [sub EXCEPT ![d.proc][d.pos] = @ + 1] ELSE sub
  BY PresentExec
<1>3. ASSUME NEW e \in held
      PROVE  ResultId(e.proc, e.pos) \in HeldIds' \cup {ResultId(d.proc, d.pos)}
  <2>1. CASE e.proc = d.proc /\ e.pos = d.pos
    BY <2>1
  <2>2. CASE ~(e.proc = d.proc /\ e.pos = d.pos)
    <3>1. sub'[e.proc][e.pos] = sub[e.proc][e.pos]
      <4>1. CASE ~d.last
        BY <1>2, <4>1
      <4>2. CASE d.last
        <5>1. sub' = [sub EXCEPT ![d.proc] = [sub[d.proc] EXCEPT ![d.pos] = sub[d.proc][d.pos] + 1]]
          BY <1>2, <4>2
        <5>2. e.proc \in Procs /\ DOMAIN sub = Procs /\ d.proc \in Procs
          BY TwoParts, HeldIsKnown DEF Known, IInv, JobsTyped
        <5>3. e.pos \in 1..Len(job[e.proc].script) /\ sub[e.proc] \in [1..Len(job[e.proc].script) -> 0..MaxSets]
          BY <5>2, TwoParts, HeldIsKnown, ProcTyped DEF Known
        <5>4. CASE e.proc # d.proc
          BY <5>1, <5>2, <5>4
        <5>5. CASE e.proc = d.proc /\ e.pos # d.pos
          <6>1. sub'[d.proc] = [sub[d.proc] EXCEPT ![d.pos] = sub[d.proc][d.pos] + 1]
            BY <5>1, <5>2
          <6> QED
            BY <5>3, <5>5, <6>1
        <5> QED
          BY <2>2, <5>4, <5>5
      <4> QED
        BY <4>1, <4>2
    <3>2. ResultId(e.proc, e.pos)' = ResultId(e.proc, e.pos)
      BY <3>1, HeldIdStays
    <3>3. e \in held'
      BY <2>2
    <3> QED
      BY <3>2, <3>3 DEF HeldIds
  <2> QED
    BY <2>1, <2>2
<1>4. HeldIds \subseteq HeldIds' \cup {ResultId(d.proc, d.pos)}
  BY <1>3 DEF HeldIds
<1> QED
  BY <1>1, <1>4, ShownParts

LEMMA TimerShown ==
    ASSUME IInv, NEW id \in DOMAIN pending, ShowTimedResult(id)
    PROVE  OnScreen \subseteq OnScreen'
<1>1. pending[id] \in Seq(Notes) /\ pending[id] # <<>> /\ \A i \in DOMAIN pending[id] : pending[id][i].id = id
  BY DEF IInv, TypeOK, PendingOwn
<1>2. Head(pending[id]) = pending[id][1] /\ 1 \in DOMAIN pending[id]
  <2>1. Len(pending[id]) \in Nat \ {0} /\ DOMAIN pending[id] = 1..Len(pending[id])
    BY <1>1, EmptySeq, LenProperties
  <2> QED
    BY <1>1, <2>1
<1>3. Head(pending[id]).id = id
  BY <1>1, <1>2
<1>4. sets' = sets /\ texts' = texts /\ notes' = notes \cup {Head(pending[id])}
  BY DEF ShowTimedResult, AddText
<1>5. DOMAIN pending \subseteq DOMAIN pending' \cup {id}
  <2>1. CASE Len(pending[id]) = 1
    <3>1. pending' = Restrict(pending, DOMAIN pending \ {id})
      BY <2>1 DEF ShowTimedResult
    <3> QED
      BY <3>1, Restricts
  <2>2. CASE Len(pending[id]) # 1
    BY <2>2 DEF ShowTimedResult
  <2> QED
    BY <2>1, <2>2
<1>6. NoteIds' = NoteIds \cup {id}
  BY <1>3, <1>4 DEF NoteIds
<1> QED
  BY <1>4, <1>5, <1>6 DEF OnScreen

LEMMA TabShown ==
    ASSUME IInv, TabStep PROVE OnScreen \cup Kept \subseteq OnScreen' \cup Kept'
<1>0. /\ type # "sets" => sets = <<>>
      /\ frozen \/ loading => DOMAIN sets \subseteq cached \cup cut
  BY DEF IInv, Marked
<1>1. CASE Hide
  <2>1. /\ \/ cached' = cached \cup DOMAIN sets \cup texts
           \/ cached' = cached /\ sets' = sets
        /\ UNCHANGED <<texts, notes, pending, cut>>
    BY <1>1 DEF Hide
  <2> QED
    BY <2>1 DEF OnScreen, Kept, NoteIds
<1>2. CASE Show \/ ReadNext
  <2>1. UNCHANGED <<sets, texts, notes, pending, cached, cut>>
    BY <1>2 DEF Show, ReadNext, viewVars
  <2> QED
    BY <2>1 DEF OnScreen, Kept, NoteIds
<1>3. CASE Restore
  <2>1. /\ loading /\ cached \subseteq DOMAIN copy
        /\ sets' = RestrictValues(copy, LAMBDA set : set.rows # <<>>)
        /\ IF type = "sets" THEN texts' = texts /\ notes' = notes ELSE texts' = {} /\ notes' = {}
        /\ cut' = cut \cup Lost /\ pending' = pending
    BY <1>3 DEF Restore
  <2>2. DOMAIN sets' = {x \in DOMAIN copy : copy[x].rows # <<>>}
    <3>1. sets' = Restrict(copy, {x \in DOMAIN copy : copy[x].rows # <<>>})
      BY <2>1 DEF RestrictValues
    <3> QED
      BY <3>1, Restricts
  <2>3. \A id \in DOMAIN copy : id \in DOMAIN sets' \cup texts' \cup Lost
    BY <2>1, <2>2 DEF Lost
  <2>4. texts \subseteq texts' \cup Lost /\ NoteIds \subseteq NoteIds' \cup Lost
    BY <2>1 DEF Lost, NoteIds
  <2>5. DOMAIN sets \subseteq cached \cup cut
    BY <1>0, <2>1
  <2>6. cached \subseteq OnScreen' \cup Kept'
    BY <2>1, <2>3 DEF OnScreen, Kept
  <2>7. cut \cup Lost \subseteq Kept'
    BY <2>1 DEF Kept
  <2>8. texts \cup NoteIds \cup DOMAIN pending \subseteq OnScreen' \cup Kept'
    BY <2>1, <2>4, <2>7 DEF OnScreen
  <2> QED
    BY <2>5, <2>6, <2>7, <2>8 DEF OnScreen, Kept
<1> QED
  BY <1>1, <1>2, <1>3 DEF TabStep

LEMMA ClosingKeeps ==
    ASSUME NEW p, NEW f PROVE DOMAIN f \subseteq DOMAIN WithClosingLine(p, f)
<1>1. PICK v : WithClosingLine(p, f) \in {f, With(f, SummaryId, v)}
  BY DEF WithClosingLine
<1>2. DOMAIN With(f, SummaryId, v) = DOMAIN f \cup {SummaryId}
  BY WithDomain
<1> QED
  BY <1>1, <1>2

(* Nothing that is shown is lost, but for the end of a clear.              *)
LEMMA ShownStays ==
    ASSUME IInv, Next, \A r \in Runs : ~ClearEnds(r) PROVE Shown \subseteq Shown'
<1>0. ExecInv /\ [Next]_vars
  BY TwoParts
<1>1. ASSUME held' = held, \A d \in held : sub'[d.proc][d.pos] = sub[d.proc][d.pos],
             OnScreen \cup Kept \subseteq OnScreen' \cup Kept'
      PROVE  Shown \subseteq Shown'
  BY <1>0, <1>1, SameHeld, ShownParts
<1>2. ASSUME UNCHANGED <<sets, texts, notes>>, DOMAIN pending \subseteq DOMAIN pending',
             cached \subseteq cached', cut \subseteq cut'
      PROVE  OnScreen \cup Kept \subseteq OnScreen' \cup Kept'
  BY <1>2 DEF OnScreen, Kept, NoteIds
<1>3. \A d \in held : d.proc \in Procs /\ pc[d.proc] # "new"
  BY <1>0, HeldIsKnown DEF Known
<1>4. DOMAIN sub = Procs /\ Runs \subseteq Procs /\ Pages \subseteq Procs
  BY DEF IInv, JobsTyped, Procs
<1>5. ASSUME NEW r \in Runs, Run(r) PROVE Shown \subseteq Shown'
  <2>1. /\ held' = held /\ pc[r] = "new" /\ \E s : sub' = [sub EXCEPT ![r] = s]
        /\ UNCHANGED <<sets, texts, notes, pending, cached>> /\ cut \subseteq cut'
    BY <1>5 DEF Run, Clear, ClearStarts
  <2>2. \A d \in held : sub'[d.proc] = sub[d.proc]
    BY <1>3, <1>4, <2>1
  <2> QED
    BY <1>1, <1>2, <2>1, <2>2
<1>6. ASSUME NEW r \in Runs, HistoryStored(r) PROVE Shown \subseteq Shown'
  <2>1. /\ UNCHANGED <<held, sub, sets, texts, notes, pending, cached>> /\ cut \subseteq cut'
    BY <1>6 DEF HistoryStored, Clear, ClearStarts
  <2> QED
    BY <1>1, <1>2, <2>1
<1>7. ASSUME NEW p \in Pages, ShowPage(p) PROVE Shown \subseteq Shown'
  <2>1. /\ held' = held /\ pc[p] = "new" /\ sub' = [sub EXCEPT ![p] = <<0>>]
        /\ UNCHANGED <<sets, texts, notes, pending, cached, cut>>
    BY <1>7 DEF ShowPage, viewVars
  <2>2. \A d \in held : sub'[d.proc] = sub[d.proc]
    BY <1>3, <1>4, <2>1
  <2> QED
    BY <1>1, <1>2, <2>1, <2>2
<1>8. ASSUME NEW p \in Procs, Execute(p) PROVE Shown \subseteq Shown'
  <2>1. UNCHANGED <<held, sub, sets, texts, notes, pending, cached, cut>>
    BY <1>8 DEF Execute, ExecutionStarts
  <2> QED
    BY <1>1, <1>2, <2>1
<1>9. ASSUME NEW p \in Procs, NEW last \in BOOLEAN, NEW some \in BOOLEAN, OnData(p, last, some)
      PROVE  Shown \subseteq Shown'
  <2>1. CASE Waits(p, last, some)
    <3>1. held \subseteq held' /\ UNCHANGED <<sub, sets, texts, notes, pending, cached, cut>>
      BY <1>9, <2>1, OnDataDoes DEF viewVars
    <3>2. \A d \in held : ResultId(d.proc, d.pos)' = ResultId(d.proc, d.pos)
      BY <1>0, <3>1, HeldIdStays
    <3>3. HeldIds \subseteq HeldIds'
      BY <3>1, <3>2 DEF HeldIds
    <3> QED
      BY <1>2, <3>1, <3>3, ShownParts
  <2>2. CASE ~Waits(p, last, some)
    <3>1. held' = held /\ Present(PacketOf(p, last, some)) /\ job' = job
      BY <1>9, <2>2, OnDataDoes
    <3>2. Known(PacketOf(p, last, some))
      BY <1>0, <1>9, PacketIsKnown
    <3> QED
      BY <1>0, <3>1, <3>2, DataShown
  <2> QED
    BY <2>1, <2>2
<1>10. ASSUME NEW p \in Procs, Finish(p) PROVE Shown \subseteq Shown'
  <2>1. /\ UNCHANGED <<held, sub, sets, texts, notes, cached, cut>>
        /\ pending' = WithClosingLine(p, pending)
    BY <1>10 DEF Finish, viewVars
  <2> QED
    BY <1>1, <1>2, <2>1, ClosingKeeps
<1>11. ASSUME NEW p \in Procs, Fail(p) PROVE Shown \subseteq Shown'
  <2>1. /\ UNCHANGED <<held, sub, sets, texts, notes, cached>> /\ cut \subseteq cut'
        /\ \E id, v : pending' = WithClosingLine(p, With(pending, id, v))
    BY <1>11 DEF Fail, viewVars
  <2>2. DOMAIN pending \subseteq DOMAIN pending'
    <3>1. PICK id, v : pending' = WithClosingLine(p, With(pending, id, v))
      BY <2>1
    <3> DEFINE f == With(pending, id, v)
    <3>2. DOMAIN f = DOMAIN pending \cup {id}
      BY WithDomain
    <3> HIDE DEF f
    <3>3. DOMAIN f \subseteq DOMAIN WithClosingLine(p, f)
      BY ClosingKeeps
    <3>4. pending' = WithClosingLine(p, f)
      BY <3>1 DEF f
    <3> QED
      BY <3>2, <3>3, <3>4
  <2> QED
    BY <1>1, <1>2, <2>1, <2>2
<1>12. ASSUME NEW d \in held, MetaDataCome(d) PROVE Shown \subseteq Shown'
  <2>1. Present(d) /\ held' = held \ {d} /\ job' = job /\ Known(d)
    BY <1>0, <1>12, HeldIsKnown DEF MetaDataCome
  <2> QED
    BY <1>0, <2>1, DataShown
<1>13. CASE WaitTimerFires
  <2>1. UNCHANGED <<held, sub, sets, texts, notes, pending, cached, cut>>
    BY <1>13 DEF WaitTimerFires, procVars
  <2> QED
    BY <1>1, <1>2, <2>1
<1>14. ASSUME NEW id \in DOMAIN pending, ShowTimedResult(id) PROVE Shown \subseteq Shown'
  <2>1. UNCHANGED <<held, sub, cached, cut>> /\ OnScreen \subseteq OnScreen'
    BY <1>14, TimerShown DEF ShowTimedResult, procVars
  <2> QED
    BY <1>1, <2>1 DEF Kept
<1>15. CASE TabStep
  <2>1. held' = held /\ sub' = sub
    BY <1>15 DEF TabStep, Hide, Show, ReadNext, Restore, procVars
  <2> QED
    BY <1>1, <1>15, <2>1, TabShown
<1> QED
  BY <1>5, <1>6, <1>7, <1>8, <1>9, <1>10, <1>11, <1>12, <1>13, <1>14, <1>15
  DEF Next, ProcStep, Response, Timer

-----------------------------------------------------------------------------
(* No statement passes silently                                              *)

LEMMA OwnResult ==
    ASSUME ExecInv, NEW r \in Runs, NEW k
    PROVE  /\ ResultId(r, k) # SummaryId
           /\ ResultId(r, k)[1] = r /\ ResultId(r, k)[2] = k
<1>1. r \in Procs /\ job[r].old = NoId
  BY DEF ExecInv, JobsTyped, Procs
<1>2. ResultId(r, k) = <<r, k, sub[r][k]>>
  BY <1>1 DEF ResultId
<1> QED
  BY <1>2 DEF SummaryId

LEMMA HeardStays ==
    ASSUME NEW r, NEW k, Heard(r, k), Shown \subseteq Shown' PROVE Heard(r, k)'
  BY DEF Heard

(* A step that leaves the executor and the answer as they are passes no    *)
(* statement.                                                              *)
LEMMA SamePassed ==
    ASSUME NEW r, NEW k, UNCHANGED <<pc, pos, queue, answer>> PROVE Passed(r, k)' = Passed(r, k)
  BY DEF Passed, IsServed

(* The statement of a lone run which passes with a step is shown by it.    *)
LEMMA NewlyPassed ==
    ASSUME IInv, Next, Shown \subseteq Shown', IInv', NEW r \in Runs, \A q \in Runs : ~ClearEnds(q),
           NEW k \in 1..Len(job'[r].script), Passed(r, k)'
    PROVE  (k \in 1..Len(job[r].script) /\ Passed(r, k)) \/ Heard(r, k)'
<1>0. /\ ExecInv /\ r \in Procs /\ pc \in [Procs -> Modes] /\ pos \in [Procs -> Nat] /\ job \in [Procs -> JobTypes]
  BY TwoParts DEF ExecInv, ExecTyped, JobsTyped, Procs
<1>1. IsServed(r)' => pc'[r] = "execute"
  <2>1. ASSUME IsServed(r)' PROVE pc'[r] = "execute"
    <3>1. /\ queue' \in Seq(Procs) /\ queue' # <<>> /\ Head(queue') = r /\ IsInjective(queue')
          /\ \A p \in Procs : p \in Range(queue') <=> pc'[p] = "execute"
      BY <2>1 DEF IsServed, IInv, TypeOK, Serving
    <3>2. r \in Range(queue')
      BY <3>1, FirstLeaves
    <3> QED
      BY <1>0, <3>1, <3>2
  <2> QED
    BY <2>1
<1>2. CASE UNCHANGED <<pc, job, pos, queue, answer>>
  BY <1>2, SamePassed
<1>3. ASSUME NEW q \in Runs, Run(q) \/ HistoryStored(q) PROVE k \in 1..Len(job[r].script) /\ Passed(r, k)
  <2>1. CASE q # r
    <3>1. /\ UNCHANGED <<queue, answer>> /\ pos'[r] = pos[r] /\ job'[r] = job[r] /\ pc'[r] = pc[r]
      <4>1. /\ \E m : pc' = [pc EXCEPT ![q] = m]
            /\ pos' = pos \/ pos' = [pos EXCEPT ![q] = 1]
            /\ job' = job \/ \E j : job' = [job EXCEPT ![q] = j]
            /\ UNCHANGED <<queue, answer>>
        BY <1>3 DEF Run, HistoryStored, Clear, backendVars
      <4> QED
        BY <1>0, <2>1, <4>1
    <3> QED
      BY <3>1 DEF Passed, IsServed
  <2>2. CASE q = r
    <3>1. pc'[r] \notin {"done", "execute"} /\ (Run(r) => pos'[r] = 1) /\ (HistoryStored(r) => pos' = pos /\ job' = job)
      <4>1. \E m \in {"clear", "history", "clear again", "prepare"} : pc' = [pc EXCEPT ![r] = m]
        BY <1>3, <2>2 DEF Run, HistoryStored, Clear
      <4>2. /\ Run(r) => pos' = [pos EXCEPT ![r] = 1]
            /\ HistoryStored(r) => pos' = pos /\ job' = job
        BY DEF Run, HistoryStored
      <4> QED
        BY <1>0, <4>1, <4>2
    <3>2. k < pos'[r]
      BY <1>1, <3>1 DEF Passed
    <3>3. Len(job'[r].script) \in Nat
      BY <1>0, LenProperties DEF IInv, TypeOK
    <3>4. k >= 1 /\ k \in Nat
      BY <3>3
    <3>5. HistoryStored(r)
      BY <1>3, <2>2, <3>1, <3>2, <3>4
    <3> QED
      BY <3>1, <3>2, <3>5 DEF Passed
  <2> QED
    BY <2>1, <2>2
<1>4. ASSUME NEW q \in Pages, ShowPage(q) PROVE k \in 1..Len(job[r].script) /\ Passed(r, k)
  <2>1. /\ pc' = [pc EXCEPT ![q] = "prepare"] /\ pos' = [pos EXCEPT ![q] = 1]
        /\ \E j : job' = [job EXCEPT ![q] = j] /\ UNCHANGED <<queue, answer>>
    BY <1>4 DEF ShowPage, backendVars
  <2>2. q # r
    BY ExecutionAssumption DEF Pages, Runs
  <2>3. pc'[r] = pc[r] /\ pos'[r] = pos[r] /\ job'[r] = job[r] /\ UNCHANGED <<queue, answer>>
    BY <1>0, <2>1, <2>2
  <2> QED
    BY <2>3 DEF Passed, IsServed
<1>5. ASSUME NEW q \in Procs, Execute(q) PROVE k \in 1..Len(job[r].script) /\ Passed(r, k)
  <2>1. /\ pc[q] = "prepare" /\ pc' = [pc EXCEPT ![q] = "execute"] /\ queue' = Append(queue, q)
        /\ UNCHANGED <<job, pos, answer>>
    BY <1>5 DEF Execute
  <2>2. queue \in Seq(Procs) /\ IsInjective(queue) /\ q \notin Range(queue)
    BY <1>0, <2>1 DEF ExecInv, ExecTyped, Serving
  <2>3. Head(queue') = IF queue = <<>> THEN q ELSE Head(queue)
    BY <2>1, <2>2, LastComes
  <2>4. queue = <<>> => answer.done = FALSE
    <3>1. NoAnswer.done = FALSE
      BY DEF NoAnswer
    <3> QED
      BY <1>0, <3>1 DEF ExecInv, Serving
  <2>5. IsServed(r)' /\ answer'.done => IsServed(r) /\ answer.done
    BY <2>1, <2>3, <2>4 DEF IsServed
  <2>6. pc'[r] = "done" => pc[r] = "done"
    BY <1>0, <2>1
  <2> QED
    BY <2>1, <2>5, <2>6 DEF Passed
<1>6. ASSUME NEW q \in Procs, NEW last \in BOOLEAN, NEW some \in BOOLEAN, OnData(q, last, some)
      PROVE  (k \in 1..Len(job[r].script) /\ Passed(r, k)) \/ Heard(r, k)'
  <2>1. /\ IsServed(q) /\ answer' = NextAnswer(last) /\ UNCHANGED <<pc, job, pos, queue>>
        /\ answer.done => job[q].script[pos[q]] = "call" /\ NextAnswer(last).set < MaxSets
    BY <1>6, OnDataDoes
  <2>2. CASE q = r /\ k = pos[r]
    <3>1. ResultId(r, k) \in Shown'
      <4>1. CASE Waits(q, last, some)
        <5>1. PacketOf(q, last, some) \in held' /\ UNCHANGED <<job, sub>>
          BY <1>6, <4>1, OnDataDoes
        <5>2. PacketOf(q, last, some).proc = r /\ PacketOf(q, last, some).pos = k
          BY <2>2 DEF PacketOf
        <5>3. ResultId(r, k)' = ResultId(r, k)
          BY <5>1 DEF ResultId
        <5>4. ResultId(r, k)' \in HeldIds'
          <6>1. PICK d : d = PacketOf(q, last, some)
            OBVIOUS
          <6>2. d \in held' /\ d.proc = r /\ d.pos = k
            BY <5>1, <5>2, <6>1
          <6> QED
            BY <6>2 DEF HeldIds
        <5> QED
          BY <5>3, <5>4, ShownParts
      <4>2. CASE ~Waits(q, last, some)
        <5>1. Present(PacketOf(q, last, some))
          BY <1>6, <4>2, OnDataDoes
        <5>2. ResultId(PacketOf(q, last, some).proc, PacketOf(q, last, some).pos) \in OnScreen'
          BY <5>1, PresentKeeps
        <5>3. PacketOf(q, last, some).proc = r /\ PacketOf(q, last, some).pos = k
          BY <2>2 DEF PacketOf
        <5> QED
          BY <5>2, <5>3, ShownParts
      <4> QED
        BY <4>1, <4>2
    <3> QED
      BY <1>0, <3>1, OwnResult DEF Heard
  <2>3. CASE ~(q = r /\ k = pos[r])
    <3>1. IsServed(r)' => q = r
      BY <2>1 DEF IsServed
    <3> QED
      BY <2>1, <2>3, <3>1 DEF Passed
  <2> QED
    BY <2>2, <2>3
<1>7. ASSUME NEW q \in Procs, Finish(q) \/ Fail(q)
      PROVE  (k \in 1..Len(job[r].script) /\ Passed(r, k)) \/ Heard(r, k)'
  <2>1. /\ queue # <<>> /\ q = Head(queue) /\ answer' = NoAnswer /\ job' = job
        /\ Finish(q) => answer.done
        /\ \/ pos' = [pos EXCEPT ![q] = @ + 1] /\ pc' = [pc EXCEPT ![q] = "prepare"]
           \/ pos' = pos /\ pc' = [pc EXCEPT ![q] = "done"]
    BY <1>7 DEF Finish, Fail, Dequeue, NextStatement
  <2>2. ~answer'.done
    BY <2>1 DEF NoAnswer
  <2>3. CASE q # r
    <3>1. pos'[r] = pos[r] /\ pc'[r] = pc[r]
      BY <1>0, <2>1, <2>3
    <3> QED
      BY <2>1, <2>2, <3>1 DEF Passed
  <2>4. CASE q = r
    <3>1. k \in Nat /\ pos[r] \in Nat
      <4>1. Len(job'[r].script) \in Nat
        BY <1>0, LenProperties DEF IInv, TypeOK
      <4> QED
        BY <1>0, <4>1
    <3>2. k <= pos[r]
      <4>1. CASE pos' = [pos EXCEPT ![q] = @ + 1] /\ pc' = [pc EXCEPT ![q] = "prepare"]
        <5>1. pos'[r] = pos[r] + 1 /\ pc'[r] = "prepare"
          BY <1>0, <2>4, <4>1
        <5>2. k < pos'[r]
          BY <2>2, <5>1 DEF Passed
        <5> QED
          BY <3>1, <5>1, <5>2
      <4>2. CASE pos' = pos
        BY <3>1, <4>2 DEF Passed
      <4> QED
        BY <2>1, <4>1, <4>2
    <3>3. CASE k < pos[r] \/ Finish(q)
      <4>1. IsServed(r)
        BY <2>1, <2>4 DEF IsServed
      <4>2. k < pos[r] \/ k = pos[r]
        BY <3>1, <3>2
      <4> QED
        BY <2>1, <3>3, <4>1, <4>2 DEF Passed
    <3>4. CASE k = pos[r] /\ Fail(q)
      <4>1. PICK v : pending' = WithClosingLine(r, With(pending, ResultId(r, k), v))
        BY <2>4, <3>4 DEF Fail
      <4> DEFINE f == With(pending, ResultId(r, k), v)
      <4>2. ResultId(r, k) \in DOMAIN f
        <5>1. DOMAIN f = DOMAIN pending \cup {ResultId(r, k)}
          BY WithDomain
        <5> HIDE DEF f
        <5> QED
          BY <5>1
      <4> HIDE DEF f
      <4>3. DOMAIN f \subseteq DOMAIN WithClosingLine(r, f)
        BY ClosingKeeps
      <4>4. pending' = WithClosingLine(r, f)
        BY <4>1 DEF f
      <4>5. ResultId(r, k) \in Shown'
        BY <4>2, <4>3, <4>4, ShownParts DEF OnScreen
      <4> QED
        BY <1>0, <4>5, OwnResult DEF Heard
    <3>5. k < pos[r] \/ k = pos[r]
      BY <3>1, <3>2
    <3> QED
      BY <1>7, <3>3, <3>4, <3>5
  <2> QED
    BY <2>3, <2>4
<1>8. ASSUME NEW d \in held, MetaDataCome(d) PROVE UNCHANGED <<pc, job, pos, queue, answer>>
  BY <1>8 DEF MetaDataCome, backendVars
<1>9. ASSUME Timer \/ TabStep PROVE UNCHANGED <<pc, job, pos, queue, answer>>
  BY <1>9 DEF Timer, WaitTimerFires, ShowTimedResult, TabStep, Hide, Show, ReadNext, Restore,
              procVars, backendVars
<1> QED
  BY <1>2, <1>3, <1>4, <1>5, <1>6, <1>7, <1>8, <1>9 DEF Next, ProcStep, Response

(* A run that is alone is the one that clears, and has not passed anything.*)
LEMMA ClearsAlone ==
    ASSUME IInv, IInv', NEW q \in Runs, ClearEnds(q), NEW r \in Runs, Alone(r),
           NEW k \in 1..Len(job'[r].script)
    PROVE  ~Passed(r, k)'
<1>0. ExecInv /\ q \in Procs /\ pc \in [Procs -> Modes]
  BY TwoParts DEF ExecInv, ExecTyped, Procs
<1>1. /\ pc[q] \in {"clear", "clear again"} /\ pos' = pos
      /\ \E m \in {"history", "prepare"} : pc' = [pc EXCEPT ![q] = m]
  BY DEF ClearEnds
<1>2. q = r /\ pos[r] = 1
  BY <1>0, <1>1 DEF Alone, ExecInv, Serving
<1>3. pc'[r] \in {"history", "prepare"} /\ pos'[r] = 1
  BY <1>0, <1>1, <1>2
<1>4. ~IsServed(r)'
  <2>1. ASSUME IsServed(r)' PROVE FALSE
    <3>1. /\ queue' \in Seq(Procs) /\ queue' # <<>> /\ Head(queue') = r /\ IsInjective(queue')
          /\ \A p \in Procs : p \in Range(queue') <=> pc'[p] = "execute"
      BY <2>1 DEF IsServed, IInv, TypeOK, Serving
    <3>2. r \in Range(queue')
      BY <3>1, FirstLeaves
    <3> QED
      BY <1>0, <1>2, <1>3, <3>1, <3>2
  <2> QED
    BY <2>1
<1>5. ~(k < 1)
  <2>1. Len(job'[r].script) \in Nat
    BY <1>0, <1>2, LenProperties DEF IInv, TypeOK
  <2> QED
    BY <2>1
<1> QED
  BY <1>3, <1>4, <1>5 DEF Passed

LEMMA AllHeardKept == ASSUME IInv, AllHeard, [Next]_vars PROVE AllHeard'
<1>0. IInv'
  BY IInvKept
<1> SUFFICES ASSUME NEW r \in Runs, Alone(r)', NEW k \in 1..Len(job'[r].script), Passed(r, k)'
             PROVE  Heard(r, k)'
  BY DEF AllHeard
<1>1. Alone(r)
  <2>1. \A q \in Runs : pc'[q] = "new" => pc[q] = "new"
    BY Begun DEF Procs
  <2> QED
    BY <2>1 DEF Alone
<1>2. CASE UNCHANGED vars
  <2>1. UNCHANGED <<pc, job, pos, queue, answer>> /\ Shown' = Shown
    BY <1>2 DEF vars, procVars, backendVars, viewVars, Shown, ResultId
  <2>2. k \in 1..Len(job[r].script) /\ Passed(r, k)
    BY <2>1, SamePassed
  <2> QED
    BY <1>1, <2>1, <2>2, HeardStays DEF AllHeard
<1>3. CASE Next /\ \E q \in Runs : ClearEnds(q)
  BY <1>0, <1>1, <1>3, ClearsAlone
<1>4. CASE Next /\ \A q \in Runs : ~ClearEnds(q)
  <2>1. Shown \subseteq Shown'
    BY <1>4, ShownStays
  <2>2. (k \in 1..Len(job[r].script) /\ Passed(r, k)) \/ Heard(r, k)'
    BY <1>0, <1>4, <2>1, NewlyPassed
  <2>3. Passed(r, k) /\ k \in 1..Len(job[r].script) => Heard(r, k)
    BY <1>1 DEF AllHeard
  <2> QED
    BY <2>1, <2>2, <2>3, HeardStays
<1> QED
  BY <1>2, <1>3, <1>4

(* Each statement of a run that is alone and which is done, answered or    *)
(* failed, is shown or will be, in spite of pages, errors, text results and*)
(* a hidden tab.                                                           *)
THEOREM NothingPassesSilently == Spec => []NoSilentStatement
<1>1. Init => IInv /\ AllHeard
  <2>1. ASSUME Init PROVE \A r \in Runs : 1..Len(job[r].script) = {}
    <3>1. \A r \in Runs : job[r].script = <<>>
      BY <2>1 DEF Init, Procs
    <3>2. 1..Len(<<>>) = {}
      OBVIOUS
    <3> QED
      BY <3>1, <3>2
  <2> QED
    BY <2>1, IInvInit DEF AllHeard
<1>2. IInv /\ AllHeard /\ [Next]_vars => IInv' /\ AllHeard'
  BY IInvKept, AllHeardKept
<1>3. AllHeard => NoSilentStatement
  BY DEF AllHeard, NoSilentStatement, Alone, Passed, Heard
<1> QED
  BY <1>1, <1>2, <1>3, PTL DEF Spec

-----------------------------------------------------------------------------
(* What is shown is what is stored                                           *)

(* A process that was not begun has nothing to run; a page request has one *)
(* statement, and data for it only come after it was sent.                 *)
Fresh == \A p \in Procs : pc[p] = "new" => job[p].script = <<>> /\ job[p].old = NoId

PageJobs ==
    \A p \in Pages :
       /\ ~job[p].text
       /\ pc[p] # "new" => Len(job[p].script) = 1 /\ job[p].old # NoId
       /\ \A d \in held : d.proc = p => pc[p] # "prepare"

Asked(p) == pc[p] \notin {"new", "prepare"}

(* A result is final when its statement has finished it: other data of this*)
(* statement will have another id. What is marked as done, and what a page *)
(* was asked of, is final.                                                 *)
Final(id) == id[2] \in 1..Len(job[id[1]].script) /\ id[3] < sub[id[1]][id[2]]

DoneIsFinal ==
    /\ \A id \in DOMAIN sets : sets[id].done => Final(id)
    /\ \A id \in DOMAIN copy : copy[id].done => Final(id)
    /\ \A id \in DOMAIN stored : stored[id].done => Final(id)
    /\ \A p \in Pages : pc[p] # "new" => Final(job[p].old)

(* The old page is deleted from the DB when the request is sent, so that   *)
(* the new one is alone there, if it is the only one.                      *)
Cleared ==
    \A p \in Pages :
       /\ p \in replace => Asked(p) /\ sub[p][1] = 0
       /\ Asked(p) /\ AskedOnce(job[p].old) =>
             /\ sub[p][1] = 0 => ~Stored(job[p].old).done
             /\ p \in replace => Stored(job[p].old).rows = <<>>

(* What is marked is loaded as soon as the tab is shown.                   *)
LoadsMarked == (loading \/ DOMAIN copy = {}) /\ (frozen \/ loading \/ cached = {})

(* What was read is still what is stored.                                  *)
Copied == \A id \in DOMAIN copy \ cut : Replaced(id) \/ Agrees(id, copy[id])

(* The rows of a result that is neither shown nor marked are not stored.   *)
Homeless ==
    \A id \in DOMAIN stored \ (DOMAIN sets \cup cached \cup cut) :
       AskedOnce(id) => stored[id].rows = <<>>

StoreInv == DoneIsFinal /\ Cleared /\ LoadsMarked /\ Copied /\ Homeless /\ ShowsStored

LEMMA EndsWithSelf == ASSUME NEW S, NEW s \in Seq(S) PROVE EndsWith(s, s)
<1>1. Len(s) \in Nat
  BY LenProperties
<1> QED
  BY <1>1 DEF EndsWith

LEMMA EndsWithMore ==
    ASSUME NEW S, NEW s \in Seq(S), NEW t \in Seq(S), NEW u \in Seq(S), EndsWith(s, t)
    PROVE  EndsWith(s \o u, t \o u)
<1>1. /\ Len(s) \in Nat /\ Len(t) \in Nat /\ Len(u) \in Nat /\ Len(t) <= Len(s)
      /\ Len(s \o u) = Len(s) + Len(u) /\ Len(t \o u) = Len(t) + Len(u)
  BY LenProperties, ConcatProperties DEF EndsWith
<1>2. ASSUME NEW i \in 1..Len(t \o u) PROVE (t \o u)[i] = (s \o u)[Len(s \o u) - Len(t \o u) + i]
  <2>1. Len(s \o u) - Len(t \o u) + i = Len(s) - Len(t) + i
    BY <1>1
  <2>2. CASE i <= Len(t)
    <3>1. i \in 1..Len(t) /\ Len(s) - Len(t) + i \in 1..Len(s)
      BY <1>1, <2>2
    <3>2. (t \o u)[i] = t[i] /\ (s \o u)[Len(s) - Len(t) + i] = s[Len(s) - Len(t) + i]
      BY <1>1, <3>1, ConcatProperties
    <3> QED
      BY <2>1, <3>1, <3>2 DEF EndsWith
  <2>3. CASE i > Len(t)
    <3>1. Len(s) - Len(t) + i > Len(s) /\ Len(s) - Len(t) + i \in 1..Len(s) + Len(u)
      BY <1>1, <2>3
    <3>2. (t \o u)[i] = u[i - Len(t)]
      BY <1>1, <2>3, ConcatProperties
    <3>3. (s \o u)[Len(s) - Len(t) + i] = u[Len(s) - Len(t) + i - Len(s)]
      BY <1>1, <3>1, ConcatProperties
    <3>4. Len(s) - Len(t) + i - Len(s) = i - Len(t)
      BY <1>1
    <3> QED
      BY <2>1, <3>2, <3>3, <3>4
  <2> QED
    BY <1>1, <2>2, <2>3
<1> QED
  BY <1>1, <1>2 DEF EndsWith

LEMMA EndsWithLast ==
    ASSUME NEW S, NEW s \in Seq(S), NEW u \in Seq(S)
    PROVE  EndsWith(s \o u, u) /\ <<>> \o u = u /\ s \o <<>> = s
<1>1. <<>> \o u = u /\ s \o <<>> = s
  BY ConcatEmptySeq
<1>2. <<>> \in Seq(S) /\ EndsWith(s, <<>>)
  BY LenProperties DEF EndsWith
<1> QED
  BY <1>1, <1>2, EndsWithMore

LEMMA EndsWithNothing ==
    ASSUME NEW S, NEW t \in Seq(S), EndsWith(<<>>, t) PROVE t = <<>>
<1>1. Len(t) <= 0 /\ Len(t) \in Nat
  BY LenProperties DEF EndsWith
<1> QED
  BY <1>1, EmptySeq

LEMMA SomeId == ASSUME NEW id \in Ids PROVE id # NoId
<1>1. PICK p, m, n : id = <<p, m, n>>
  BY DEF Ids
<1>2. Len(<<p, m, n>>) = 3 /\ Len(<<>>) = 0
  OBVIOUS
<1> QED
  BY <1>1, <1>2 DEF NoId

(* Only a run or a page request that begins has another job.               *)
LEMMA OnlyBeginsJob ==
    ASSUME [Next]_vars
    PROVE  job' = job \/ (\E r \in Runs : Run(r)) \/ (\E p \in Pages : ShowPage(p))
<1>1. CASE UNCHANGED vars
  BY <1>1 DEF vars, procVars
<1>2. ASSUME NEW r \in Runs, HistoryStored(r) \/ ClearEnds(r) PROVE job' = job
  BY <1>2 DEF HistoryStored, ClearEnds
<1>3. ASSUME NEW p \in Procs, Execute(p) \/ Finish(p) \/ Fail(p) PROVE job' = job
  BY <1>3 DEF Execute, Finish, Fail
<1>4. ASSUME NEW p \in Procs, NEW last \in BOOLEAN, NEW some \in BOOLEAN, OnData(p, last, some)
      PROVE  job' = job
  BY <1>4 DEF OnData
<1>5. ASSUME NEW d \in held, MetaDataCome(d) PROVE job' = job
  BY <1>5 DEF MetaDataCome
<1>6. ASSUME Timer \/ TabStep PROVE job' = job
  BY <1>6 DEF Timer, WaitTimerFires, ShowTimedResult, TabStep, Hide, Show, ReadNext, Restore, procVars
<1> QED
  BY <1>1, <1>2, <1>3, <1>4, <1>5, <1>6 DEF Next, ProcStep, Response

(* What a run and a page request that begin are.                           *)
LEMMA PageBegins ==
    ASSUME IInv, NEW p \in Pages, ShowPage(p)
    PROVE  /\ pc[p] = "new" /\ pc'[p] = "prepare" /\ \A q \in Procs : q # p => pc'[q] = pc[q]
           /\ \A q \in Procs : q # p => job'[q] = job[q] /\ sub'[q] = sub[q]
           /\ Len(job'[p].script) = 1 /\ job'[p].old # NoId /\ job'[p].text = job[p].text
           /\ job'[p].old \in DOMAIN sets /\ sets[job'[p].old].done
           /\ UNCHANGED <<replace, held, viewVars, tabVars, cached, stored, cut>>
<1>1. PICK id \in DOMAIN sets :
         /\ job[id[1]].script[id[2]] \in Selects /\ sets[id].done
         /\ job' = [job EXCEPT ![p] =
                      [@ EXCEPT !.script = <<job[id[1]].script[id[2]]>>, !.old = id]]
  BY DEF ShowPage
<1> DEFINE kind == job[id[1]].script[id[2]]
           j == [job[p] EXCEPT !.script = <<kind>>, !.old = id]
<1>2. /\ p \in Procs /\ pc \in [Procs -> Modes] /\ job \in [Procs -> JobTypes] /\ DOMAIN sub = Procs
      /\ id \in Ids
  BY <1>1, TwoParts DEF ExecInv, ExecTyped, JobsTyped, Procs, ViewInv, ViewTyped, IsResults
<1>3. id # NoId
  BY <1>2, SomeId
<1>4. kind \in Kinds
  BY <1>1 DEF Kinds
<1>5. Len(<<kind>>) = 1
  BY <1>4, OneStatement
<1>6. job' = [job EXCEPT ![p] = j]
  BY <1>1, <1>2
<1> HIDE DEF kind
<1>7. j.script = <<kind>> /\ j.old = id /\ j.text = job[p].text
  BY <1>2 DEF JobTypes
<1> HIDE DEF j
<1>8. job'[p] = j /\ \A q \in Procs : q # p => job'[q] = job[q]
  BY <1>2, <1>6
<1>9. /\ pc[p] = "new" /\ pc' = [pc EXCEPT ![p] = "prepare"] /\ sub' = [sub EXCEPT ![p] = <<0>>]
      /\ UNCHANGED <<replace, held, viewVars, tabVars, cached, stored, cut>>
  BY DEF ShowPage
<1>10. /\ pc'[p] = "prepare" /\ \A q \in Procs : q # p => pc'[q] = pc[q] /\ sub'[q] = sub[q]
  BY <1>2, <1>9
<1> QED
  BY <1>1, <1>3, <1>5, <1>7, <1>8, <1>9, <1>10

LEMMA RunBegins ==
    ASSUME IInv, NEW r \in Runs, Run(r)
    PROVE  /\ pc[r] = "new" /\ r \notin Pages
           /\ pc' = [pc EXCEPT ![r] = IF type = "none" THEN "history" ELSE "clear"]
           /\ \A q \in Procs : q # r => job'[q] = job[q] /\ sub'[q] = sub[q] /\ pc'[q] = pc[q]
<1>1. /\ pc \in [Procs -> Modes] /\ job \in [Procs -> JobTypes] /\ DOMAIN sub = Procs
  BY TwoParts DEF ExecInv, ExecTyped, JobsTyped
<1>2. r \notin Pages
  BY ExecutionAssumption DEF Pages, Runs
<1>3. pc' = [pc EXCEPT ![r] = IF type = "none" THEN "history" ELSE "clear"] /\ pc[r] = "new"
  BY DEF Run, Clear
<1>4. (\E j : job' = [job EXCEPT ![r] = j]) /\ (\E s : sub' = [sub EXCEPT ![r] = s])
  BY DEF Run
<1>5. \A q \in Procs : q # r => job'[q] = job[q] /\ sub'[q] = sub[q]
  BY <1>1, <1>4
<1>6. \A q \in Procs : q # r => pc'[q] = pc[q]
  BY <1>1, <1>3
<1> QED
  BY <1>2, <1>3, <1>5, <1>6

(* What was asked of a result once was not asked of it before.             *)
LEMMA AskedStays ==
    ASSUME IInv, Fresh, [Next]_vars, NEW id, id # NoId, AskedOnce(id)' PROVE AskedOnce(id)
<1>1. ASSUME NEW p \in Pages, job[p].old = id PROVE job'[p].old = id
  <2>1. p \in Procs
    BY DEF Procs
  <2>2. pc[p] # "new"
    BY <1>1, <2>1 DEF Fresh
  <2> QED
    BY <1>1, <2>1, <2>2, Begun
<1> QED
  BY <1>1 DEF AskedOnce

LEMMA FreshKept == ASSUME IInv, Fresh, [Next]_vars PROVE Fresh'
<1> SUFFICES ASSUME NEW p \in Procs, pc'[p] = "new" PROVE job'[p].script = <<>> /\ job'[p].old = NoId
  BY DEF Fresh
<1>1. pc[p] = "new"
  BY Begun
<1>2. job[p].script = <<>> /\ job[p].old = NoId
  BY <1>1 DEF Fresh
<1>3. pc \in [Procs -> Modes] /\ job \in [Procs -> JobTypes] /\ Runs \subseteq Procs /\ Pages \subseteq Procs
  BY TwoParts DEF ExecInv, ExecTyped, JobsTyped, Procs
<1>4. CASE job' = job
  BY <1>2, <1>4
<1>5. ASSUME NEW r \in Runs, Run(r) PROVE job'[p] = job[p]
  <2>1. (\E m \in {"clear", "history"} : pc' = [pc EXCEPT ![r] = m]) /\ \E j : job' = [job EXCEPT ![r] = j]
    BY <1>5 DEF Run, Clear
  <2> QED
    BY <1>3, <2>1
<1>6. ASSUME NEW q \in Pages, ShowPage(q) PROVE job'[p] = job[p]
  <2>1. pc' = [pc EXCEPT ![q] = "prepare"] /\ \E j : job' = [job EXCEPT ![q] = j]
    BY <1>6 DEF ShowPage
  <2> QED
    BY <1>3, <2>1
<1>7. \/ job' = job \/ (\E r \in Runs : Run(r)) \/ (\E q \in Pages : ShowPage(q))
  BY OnlyBeginsJob
<1> QED
  BY <1>2, <1>4, <1>5, <1>6, <1>7

(* Data come for a statement that was sent.                                *)
Brings(d) ==
    /\ Known(d) /\ Present(d) /\ UNCHANGED <<pc, job, tabVars>>
    /\ d.proc \in Pages => Asked(d.proc)

LEMMA DataBrings ==
    ASSUME IInv, PageJobs
    PROVE  /\ \A p \in Procs : \A last, some \in BOOLEAN :
                 OnData(p, last, some) /\ ~Waits(p, last, some) => Brings(PacketOf(p, last, some))
           /\ \A d \in held : MetaDataCome(d) => Brings(d)
<1>0. ExecInv
  BY TwoParts
<1>1. ASSUME NEW p \in Procs, NEW last \in BOOLEAN, NEW some \in BOOLEAN,
             OnData(p, last, some), ~Waits(p, last, some)
      PROVE  Brings(PacketOf(p, last, some))
  <2>1. /\ Present(PacketOf(p, last, some)) /\ UNCHANGED <<pc, job, tabVars>> /\ IsServed(p)
    BY <1>1, OnDataDoes DEF tabVars
  <2>2. Known(PacketOf(p, last, some)) /\ pc[p] = "execute"
    BY <1>0, <1>1, <2>1, PacketIsKnown, ServedWaits
  <2>3. PacketOf(p, last, some).proc = p
    BY DEF PacketOf
  <2> QED
    BY <2>1, <2>2, <2>3 DEF Brings, Asked
<1>2. ASSUME NEW d \in held, MetaDataCome(d) PROVE Brings(d)
  <2>1. Present(d) /\ UNCHANGED <<pc, job, tabVars>> /\ Known(d)
    BY <1>0, <1>2, HeldIsKnown DEF MetaDataCome
  <2>2. d.proc \in Pages => pc[d.proc] # "prepare"
    BY DEF PageJobs
  <2> QED
    BY <2>1, <2>2 DEF Brings, Asked, Known
<1> QED
  BY <1>1, <1>2

LEMMA SubDoes ==
    ASSUME ExecInv, NEW d, Known(d), Present(d), UNCHANGED job,
           NEW q \in Procs, NEW i \in 1..Len(job[q].script)
    PROVE  sub'[q][i] = IF d.last /\ q = d.proc /\ i = d.pos THEN sub[q][i] + 1 ELSE sub[q][i]
<1> DEFINE p == d.proc
           k == d.pos
<1>1. sub' = IF d.last THEN [sub EXCEPT ![p][k] = @ + 1] ELSE sub
  BY PresentExec
<1>2. p \in Procs /\ k \in 1..Len(job[p].script) /\ DOMAIN sub = Procs
  BY DEF Known, ExecInv, JobsTyped
<1>3. DOMAIN sub[p] = 1..Len(job[p].script)
  BY <1>2, ProcTyped
<1> HIDE DEF p, k
<1>4. CASE ~d.last
  BY <1>1, <1>4
<1>5. CASE d.last /\ q # p
  BY <1>1, <1>2, <1>5 DEF p
<1>6. CASE d.last /\ q = p
  <2>1. sub' = [sub EXCEPT ![p] = [sub[p] EXCEPT ![k] = sub[p][k] + 1]]
    BY <1>1, <1>6
  <2>2. sub'[p] = [sub[p] EXCEPT ![k] = sub[p][k] + 1]
    BY <1>2, <2>1
  <2>3. sub'[p][k] = sub[p][k] + 1 /\ \A j \in 1..Len(job[p].script) : j # k => sub'[p][j] = sub[p][j]
    BY <1>2, <1>3, <2>2
  <2> QED
    BY <1>6, <2>3 DEF p, k
<1> QED
  BY <1>4, <1>5, <1>6

(* The results of a statement that was begun are counted up.               *)
LEMMA SubStays ==
    ASSUME IInv, PageJobs, [Next]_vars,
           NEW p \in Procs, pc[p] # "new", NEW k \in 1..Len(job[p].script)
    PROVE  sub'[p][k] \in {sub[p][k], sub[p][k] + 1}
<1>0. ExecInv
  BY TwoParts
<1>1. CASE UNCHANGED vars
  BY <1>1 DEF vars, procVars
<1>2. ASSUME NEW r \in Runs, Run(r) PROVE sub'[p] = sub[p]
  BY <1>2, RunBegins
<1>3. ASSUME NEW r \in Runs, HistoryStored(r) \/ ClearEnds(r) PROVE sub' = sub
  BY <1>3 DEF HistoryStored, ClearEnds
<1>4. ASSUME NEW q \in Pages, ShowPage(q) PROVE sub'[p] = sub[p]
  BY <1>4, PageBegins
<1>5. ASSUME NEW q \in Procs, Execute(q) \/ Finish(q) \/ Fail(q) PROVE sub' = sub
  BY <1>5 DEF Execute, Finish, Fail
<1>6. ASSUME NEW d, Brings(d) PROVE sub'[p][k] \in {sub[p][k], sub[p][k] + 1}
  BY <1>0, <1>6, SubDoes DEF Brings
<1>7. ASSUME NEW q \in Procs, NEW last \in BOOLEAN, NEW some \in BOOLEAN, OnData(q, last, some)
      PROVE  sub'[p][k] \in {sub[p][k], sub[p][k] + 1}
  BY <1>6, <1>7, OnDataDoes, DataBrings
<1>8. ASSUME NEW d \in held, MetaDataCome(d) PROVE sub'[p][k] \in {sub[p][k], sub[p][k] + 1}
  BY <1>6, <1>8, DataBrings
<1>9. ASSUME Timer \/ TabStep PROVE sub' = sub
  BY <1>9 DEF Timer, WaitTimerFires, ShowTimedResult, TabStep, Hide, Show, ReadNext, Restore, procVars
<1> QED
  BY <1>1, <1>2, <1>3, <1>4, <1>5, <1>7, <1>8, <1>9 DEF Next, ProcStep, Response

(* What is final stays final.                                              *)
LEMMA FinalStays ==
    ASSUME IInv, Fresh, PageJobs, [Next]_vars, NEW id \in Ids, Final(id) PROVE Final(id)'
<1> DEFINE p == id[1]
           k == id[2]
<1>1. p \in Procs /\ k \in Nat /\ id[3] \in Nat
  BY DEF Ids
<1>2. k \in 1..Len(job[p].script) /\ id[3] < sub[p][k]
  BY DEF Final
<1>3. pc[p] # "new"
  <2>1. Len(<<>>) = 0
    OBVIOUS
  <2> QED
    BY <1>1, <1>2, <2>1 DEF Fresh
<1>4. job'[p] = job[p]
  BY <1>1, <1>3, Begun
<1>5. sub'[p][k] \in {sub[p][k], sub[p][k] + 1}
  BY <1>1, <1>2, <1>3, SubStays
<1>6. sub[p][k] \in Nat
  <2>1. sub[p] \in [1..Len(job[p].script) -> 0..MaxSets] /\ MaxSets \in Nat
    BY <1>1, TwoParts, ProcTyped
  <2> QED
    BY <1>2, <2>1
<1> HIDE DEF p, k
<1>7. k \in 1..Len(job'[p].script) /\ id[3] < sub'[p][k]
  BY <1>1, <1>2, <1>4, <1>5, <1>6
<1> QED
  BY <1>7 DEF Final, p, k

(* A page request is made, sent, and done.                                 *)
LEMMA PageSteps ==
    ASSUME IInv, PageJobs, [Next]_vars, NEW p \in Pages
    PROVE  \/ pc'[p] = pc[p] /\ job'[p] = job[p]
           \/ ShowPage(p)
           \/ Execute(p) /\ pc[p] = "prepare" /\ pc'[p] = "execute" /\ job' = job /\ held' = held
           \/ pc[p] = "execute" /\ pc'[p] = "done" /\ job' = job /\ held' = held
<1>0. ExecInv /\ p \in Procs /\ p \notin Runs /\ pc \in [Procs -> Modes] /\ job \in [Procs -> JobTypes]
  <2>1. p \in Procs /\ p \notin Runs
    BY ExecutionAssumption DEF Procs, Pages, Runs
  <2> QED
    BY <2>1, TwoParts DEF ExecInv, ExecTyped, JobsTyped
<1>1. CASE UNCHANGED vars
  BY <1>1 DEF vars, procVars
<1>2. ASSUME NEW r \in Runs, Run(r) PROVE pc'[p] = pc[p] /\ job'[p] = job[p]
  BY <1>0, <1>2, RunBegins
<1>3. ASSUME NEW r \in Runs, HistoryStored(r) \/ ClearEnds(r) PROVE pc'[p] = pc[p] /\ job'[p] = job[p]
  <2>1. job' = job /\ \E m : pc' = [pc EXCEPT ![r] = m]
    BY <1>3 DEF HistoryStored, ClearEnds, Clear
  <2> QED
    BY <1>0, <2>1
<1>4. ASSUME NEW q \in Pages, ShowPage(q), q # p PROVE pc'[p] = pc[p] /\ job'[p] = job[p]
  BY <1>0, <1>4, PageBegins
<1>5. ASSUME NEW q \in Procs, Execute(q)
      PROVE  \/ pc'[p] = pc[p] /\ job'[p] = job[p]
             \/ q = p /\ pc[p] = "prepare" /\ pc'[p] = "execute" /\ job' = job /\ held' = held
  <2>1. pc[q] = "prepare" /\ pc' = [pc EXCEPT ![q] = "execute"] /\ job' = job /\ held' = held
    BY <1>5 DEF Execute
  <2> QED
    BY <1>0, <2>1
<1>6. ASSUME NEW q \in Procs, Finish(q) \/ Fail(q)
      PROVE  \/ pc'[p] = pc[p] /\ job'[p] = job[p]
             \/ pc[p] = "execute" /\ pc'[p] = "done" /\ job' = job /\ held' = held
  <2>1. /\ IsServed(q) /\ job' = job /\ held' = held
        /\ \E s \in BOOLEAN : NextStatement(q, s)
    BY <1>6 DEF Finish, Fail, IsServed
  <2>2. pc[q] = "execute"
    BY <1>0, <2>1, ServedWaits
  <2>3. PICK m \in {"prepare", "done"} : pc' = [pc EXCEPT ![q] = m]
    BY <2>1 DEF NextStatement
  <2>4. CASE q # p
    BY <1>0, <2>1, <2>3, <2>4
  <2>5. CASE q = p
    <3>1. Len(job[p].script) = 1 /\ pos[p] >= 1 /\ pos[p] \in Nat
      BY <1>0, <2>2, <2>5 DEF PageJobs, ExecInv, Serving, JobsTyped
    <3>2. ~(pos[p] < Len(job[p].script))
      BY <3>1
    <3>3. pc' = [pc EXCEPT ![p] = "done"]
      BY <2>1, <2>5, <3>2 DEF NextStatement
    <3> QED
      BY <1>0, <2>1, <2>2, <2>5, <3>3
  <2> QED
    BY <2>4, <2>5
<1>7. CASE UNCHANGED <<pc, job>>
  BY <1>7
<1>8. ASSUME NEW q \in Procs, NEW last \in BOOLEAN, NEW some \in BOOLEAN, OnData(q, last, some)
      PROVE  UNCHANGED <<pc, job>>
  BY <1>8 DEF OnData
<1>9. ASSUME NEW d \in held, MetaDataCome(d) PROVE UNCHANGED <<pc, job>>
  BY <1>9 DEF MetaDataCome
<1>10. ASSUME Timer \/ TabStep PROVE UNCHANGED <<pc, job>>
  BY <1>10 DEF Timer, WaitTimerFires, ShowTimedResult, TabStep, Hide, Show, ReadNext, Restore, procVars
<1> QED
  BY <1>1, <1>2, <1>3, <1>4, <1>5, <1>6, <1>7, <1>8, <1>9, <1>10 DEF Next, ProcStep, Response

(* A packet that waits for meta data is one of before or the one that came.*)
LEMMA HeldGrows ==
    ASSUME IInv, [Next]_vars, NEW d \in held'
    PROVE  d \in held \/ (IsServed(d.proc) /\ d.proc \in Procs /\ pc' = pc)
<1>1. CASE held' \subseteq held
  BY <1>1
<1>2. CASE UNCHANGED vars
  BY <1>2 DEF vars
<1>3. ASSUME NEW r \in Runs, Run(r) \/ HistoryStored(r) \/ ClearEnds(r) PROVE held' = held
  BY <1>3 DEF Run, HistoryStored, ClearEnds
<1>4. ASSUME NEW p \in Pages, ShowPage(p) PROVE held' = held
  BY <1>4 DEF ShowPage
<1>5. ASSUME NEW p \in Procs, Execute(p) \/ Finish(p) \/ Fail(p) PROVE held' = held
  BY <1>5 DEF Execute, Finish, Fail
<1>6. ASSUME NEW p \in Procs, NEW last \in BOOLEAN, NEW some \in BOOLEAN, OnData(p, last, some)
      PROVE  d \in held \/ (IsServed(d.proc) /\ d.proc \in Procs /\ pc' = pc)
  <2>1. IsServed(p) /\ pc' = pc /\ held' \subseteq held \cup {PacketOf(p, last, some)}
    BY <1>6, OnDataDoes
  <2>2. PacketOf(p, last, some).proc = p
    BY DEF PacketOf
  <2> QED
    BY <2>1, <2>2
<1>7. ASSUME NEW e \in held, MetaDataCome(e) PROVE held' \subseteq held
  BY <1>7 DEF MetaDataCome
<1>8. ASSUME Timer \/ TabStep PROVE held' = held
  BY <1>8 DEF Timer, WaitTimerFires, ShowTimedResult, TabStep, Hide, Show, ReadNext, Restore
<1> QED
  BY <1>1, <1>2, <1>3, <1>4, <1>5, <1>6, <1>7, <1>8 DEF Next, ProcStep, Response

LEMMA PageJobsKept == ASSUME IInv, Fresh, PageJobs, [Next]_vars PROVE PageJobs'
<1>0. ExecInv /\ Pages \subseteq Procs
  BY TwoParts DEF Procs
<1>1. ASSUME NEW p \in Pages
      PROVE  ~job'[p].text /\ (pc'[p] # "new" => Len(job'[p].script) = 1 /\ job'[p].old # NoId)
  <2>1. CASE ShowPage(p)
    BY <2>1, PageBegins DEF PageJobs
  <2>2. CASE job'[p] = job[p] /\ (pc'[p] # "new" => pc[p] # "new")
    BY <2>2 DEF PageJobs
  <2> QED
    BY <2>1, <2>2, PageSteps
<1>2. ASSUME NEW p \in Pages, NEW d \in held', d.proc = p PROVE pc'[p] # "prepare"
  <2>1. CASE d \in held
    <3>1. pc[p] # "prepare" /\ pc[p] # "new"
      BY <1>0, <1>2, <2>1 DEF PageJobs, ExecInv, HeldKnown
    <3>2. ~ShowPage(p)
      BY <3>1 DEF ShowPage
    <3> QED
      BY <3>1, <3>2, PageSteps
  <2>2. CASE IsServed(p) /\ pc' = pc
    BY <1>0, <2>2, ServedWaits
  <2> QED
    BY <1>2, <2>1, <2>2, HeldGrows
<1> QED
  BY <1>1, <1>2 DEF PageJobs

-----------------------------------------------------------------------------
(* Data come                                                                 *)

PacketRows(d) == IF d.some THEN <<[proc |-> d.proc, set |-> d.set, n |-> d.n]>> ELSE <<>>

(* The rows of packet d are stored and shown.                              *)
RowsCome(d, id) ==
    /\ SetAt(stored, id, [rows |-> Stored(id).rows \o PacketRows(d),
                          done |-> Stored(id).done \/ d.last], stored')
    /\ cached' = IF frozen THEN cached \cup {id} ELSE cached
    /\ cut' = IF Races(id) THEN cut \cup {id} ELSE cut
    /\ \/ PacketRows(d) = <<>> /\ id \notin DOMAIN sets /\ sets' = sets
       \/ /\ id \notin DOMAIN sets
          /\ SetAt(sets, id, [rows |-> PacketRows(d), done |-> d.last], sets')
       \/ /\ id \in DOMAIN sets
          /\ SetAt(sets, id,
                   [rows |-> IF d.proc \in replace THEN PacketRows(d)
                             ELSE sets[id].rows \o PacketRows(d),
                    done |-> sets[id].done \/ d.last], sets')

LEMMA PacketTyping == ASSUME NEW d, Known(d) PROVE PacketRows(d) \in Seq(Packets)
<1>1. CASE d.some
  <2>1. [proc |-> d.proc, set |-> d.set, n |-> d.n] \in Packets
    BY DEF Packets, Known
  <2> QED
    BY <1>1, <2>1 DEF PacketRows
<1>2. CASE ~d.some
  BY <1>2 DEF PacketRows
<1> QED
  BY <1>1, <1>2

LEMMA PresentRows ==
    ASSUME IInv, NEW d, Known(d), Present(d), NEW id, id = ResultId(d.proc, d.pos)
    PROVE  /\ replace' = replace \ {d.proc}
           /\ \/ job[d.proc].text /\ UNCHANGED <<sets, stored, cached, cut>>
              \/ RowsCome(d, id)
<1>0. Shows
  BY TwoParts, ViewParts
<1> DEFINE isSelect == job[d.proc].script[d.pos] \in Selects
           packet == PacketRows(d)
           v == [rows |-> Stored(id).rows \o packet, done |-> Stored(id).done \/ d.last]
           isNew == id \notin DOMAIN sets
           asText == packet = <<>> /\ (type = "text" \/ (isNew /\ ~isSelect))
           w == IF isNew THEN [rows |-> packet, done |-> d.last]
                ELSE [rows |-> IF d.proc \in replace THEN packet ELSE sets[id].rows \o packet,
                      done |-> sets[id].done \/ d.last]
<1>1. replace' = replace \ {d.proc}
  BY DEF Present
<1>2. CASE job[d.proc].text
  BY <1>1, <1>2 DEF Present, viewVars
<1>3. CASE ~job[d.proc].text
  <2>1. /\ stored' = With(stored, id, v)
        /\ AddRows(id, packet, d.last, isSelect, d.proc \in replace)
        /\ cached' = IF frozen THEN cached \cup {id} ELSE cached
        /\ cut' = IF Races(id) THEN cut \cup {id} ELSE cut
    BY <1>3 DEF Present, PacketRows
  <2>2. SetAt(stored, id, v, stored')
    <3> HIDE DEF v
    <3> QED
      BY <2>1, WithAt
  <2>3. (asText /\ sets' = sets) \/ (~asText /\ sets' = With(sets, id, w))
    BY <2>1 DEF AddRows
  <2>4. asText => isNew
    <3>1. type = "text" => sets = <<>>
      BY <1>0 DEF Shows, Marked
    <3>2. sets = <<>> => DOMAIN sets = {}
      BY NoResults
    <3> QED
      BY <3>1, <3>2
  <2>5. CASE asText /\ sets' = sets
    BY <1>1, <2>1, <2>2, <2>4, <2>5 DEF RowsCome
  <2>6. CASE sets' = With(sets, id, w)
    <3>1. SetAt(sets, id, w, sets')
      <4> HIDE DEF w
      <4> QED
        BY <2>6, WithAt
    <3>2. CASE isNew
      <4>1. w = [rows |-> packet, done |-> d.last]
        BY <3>2
      <4> QED
        BY <1>1, <2>1, <2>2, <3>1, <3>2, <4>1 DEF RowsCome
    <3>3. CASE ~isNew
      <4>1. w = [rows |-> IF d.proc \in replace THEN packet ELSE sets[id].rows \o packet,
                 done |-> sets[id].done \/ d.last]
        BY <3>3
      <4> HIDE DEF w
      <4>2. SetAt(sets, id, [rows |-> IF d.proc \in replace THEN packet ELSE sets[id].rows \o packet,
                             done |-> sets[id].done \/ d.last], sets')
        BY <3>1, <4>1
      <4> QED
        BY <1>1, <2>1, <2>2, <3>3, <4>2 DEF RowsCome
    <3> QED
      BY <3>2, <3>3
  <2> QED
    BY <2>3, <2>5, <2>6
<1> QED
  BY <1>2, <1>3

(* The ids of a page request: the one of the page that was asked for, or   *)
(* one of its own.                                                         *)
LEMMA ResultIds ==
    ASSUME IInv, PageJobs, NEW d, Known(d), NEW id, id = ResultId(d.proc, d.pos)
    PROVE  /\ id \in Ids
           /\ \/ d.proc \in Pages /\ d.pos = 1 /\ sub[d.proc][1] = 0 /\ id = job[d.proc].old
              \/ id = <<d.proc, d.pos, sub[d.proc][d.pos]>> /\ ~Final(id)
           /\ d.proc \in Pages => /\ d.pos = 1 /\ 1 \in 1..Len(job[d.proc].script)
                                  /\ sub[d.proc][1] = 0 => id = job[d.proc].old
<1> DEFINE p == d.proc
           k == d.pos
<1>0. ExecInv /\ p \in Procs /\ k \in 1..Len(job[p].script) /\ pc[p] # "new"
  BY TwoParts DEF Known
<1>1. id \in Ids /\ sub[p][k] \in Nat
  <2>1. sub[p] \in [1..Len(job[p].script) -> 0..MaxSets] /\ MaxSets \in Nat
    BY <1>0, ProcTyped
  <2> QED
    BY <1>0, <2>1, ResultIdTyped
<1>2. p \in Pages => k = 1 /\ job[p].old # NoId /\ 1 \in 1..Len(job[p].script)
  <2>1. p \in Pages => Len(job[p].script) = 1 /\ job[p].old # NoId
    BY <1>0 DEF PageJobs
  <2>2. Len(job[p].script) = 1 => k = 1 /\ 1 \in 1..Len(job[p].script)
    BY <1>0
  <2> QED
    BY <2>1, <2>2
<1>3. p \in Runs => job[p].old = NoId
  BY <1>0 DEF ExecInv, JobsTyped
<1>4. p \in Runs \/ p \in Pages
  BY <1>0 DEF Procs
<1>5. CASE job[p].old # NoId /\ sub[p][k] = 0
  <2>1. id = job[p].old /\ p \in Pages
    BY <1>3, <1>4, <1>5 DEF ResultId
  <2> QED
    BY <1>1, <1>2, <1>5, <2>1
<1>6. CASE ~(job[p].old # NoId /\ sub[p][k] = 0)
  <2>1. id = <<p, k, sub[p][k]>>
    BY <1>6 DEF ResultId
  <2>2. id[1] = p /\ id[2] = k /\ id[3] = sub[p][k]
    BY <2>1
  <2>3. ~Final(id)
    BY <1>1, <2>2 DEF Final
  <2> QED
    BY <1>1, <1>2, <1>6, <2>1, <2>3
<1> QED
  BY <1>5, <1>6

(* Who sends data of a result that a page was asked of once: only that     *)
(* page, and it finds nothing of the old one.                              *)
LEMMA OneSender ==
    ASSUME IInv, PageJobs, StoreInv, NEW d, Brings(d), NEW id, id = ResultId(d.proc, d.pos)
    PROVE  /\ AskedOnce(id) => ~Stored(id).done
           /\ AskedOnce(id) /\ d.proc \in replace => Stored(id).rows = <<>>
           /\ d.proc \in replace => id = job[d.proc].old
           /\ \A q \in Pages : pc[q] # "new" /\ AskedOnce(id) /\ job[q].old = id =>
                 q = d.proc /\ sub[q][1] = 0
<1> DEFINE p == d.proc
<1>1. Known(d) /\ (p \in Pages => Asked(p))
  BY DEF Brings
<1>2. /\ \/ p \in Pages /\ d.pos = 1 /\ sub[p][1] = 0 /\ id = job[p].old
         \/ ~Final(id)
      /\ p \in Pages => (sub[p][1] = 0 => id = job[p].old)
  BY <1>1, ResultIds
<1>3. p \in replace => p \in Pages /\ sub[p][1] = 0 /\ id = job[p].old
  <2>1. replace \subseteq Pages
    BY TwoParts DEF ExecInv, ExecTyped
  <2> QED
    BY <1>2, <2>1 DEF StoreInv, Cleared
<1>4. \A q \in Pages : pc[q] # "new" => Final(job[q].old)
  BY DEF StoreInv, DoneIsFinal
<1>5. Stored(id).done => Final(id)
  BY DEF StoreInv, DoneIsFinal, Stored
<1>6. CASE p \in Pages /\ sub[p][1] = 0 /\ id = job[p].old
  <2>1. AskedOnce(id) => ~Stored(id).done /\ (p \in replace => Stored(id).rows = <<>>)
    BY <1>1, <1>6 DEF StoreInv, Cleared
  <2>2. \A q \in Pages : AskedOnce(id) /\ job[q].old = id => q = p
    BY <1>6 DEF AskedOnce
  <2> QED
    BY <1>3, <1>6, <2>1, <2>2
<1>7. CASE ~Final(id) /\ ~(p \in Pages /\ sub[p][1] = 0 /\ id = job[p].old)
  <2>1. p \notin replace
    BY <1>3, <1>7
  <2>2. \A q \in Pages : pc[q] # "new" => job[q].old # id
    BY <1>4, <1>7
  <2>3. ~Stored(id).done
    BY <1>5, <1>7
  <2> QED
    BY <2>1, <2>2, <2>3
<1> QED
  BY <1>2, <1>6, <1>7

(* Whatever step it is, the rest of what is final stays so.                *)
LEMMA FinalKept ==
    ASSUME IInv, Fresh, PageJobs, DoneIsFinal, [Next]_vars,
           \A id \in DOMAIN sets' :
              \/ id \in DOMAIN sets /\ (sets'[id].done => sets[id].done)
              \/ id \in DOMAIN copy /\ (sets'[id].done => copy[id].done)
              \/ sets'[id].done => Final(id)',
           \A id \in DOMAIN copy' :
              \/ id \in DOMAIN copy /\ copy'[id] = copy[id]
              \/ copy'[id].done => Final(id)',
           \A id \in DOMAIN stored' :
              \/ id \in DOMAIN stored /\ (stored'[id].done => stored[id].done)
              \/ stored'[id].done => Final(id)'
    PROVE  DoneIsFinal'
<1>0. Shows /\ ExecInv
  BY TwoParts, ViewParts
<1>1. ASSUME NEW id \in DOMAIN sets \cup DOMAIN copy \cup DOMAIN stored, Final(id) PROVE Final(id)'
  <2>1. id \in Ids
    BY <1>0 DEF Shows, IsResults
  <2> QED
    BY <1>1, <2>1, FinalStays
<1>2. ASSUME NEW p \in Pages, pc'[p] # "new" PROVE Final(job[p].old)' 
  <2>1. CASE ShowPage(p)
    <3>1. PICK id : id = job'[p].old
      OBVIOUS
    <3>2. id \in DOMAIN sets /\ sets[id].done
      BY <2>1, <3>1, PageBegins
    <3>3. Final(id)'
      BY <1>1, <3>2 DEF DoneIsFinal
    <3> QED
      BY <3>1, <3>3 DEF Final
  <2>2. CASE job'[p] = job[p] /\ pc[p] # "new"
    <3>1. PICK id : id = job[p].old
      OBVIOUS
    <3>2. id \in Ids /\ Final(id)
      <4>1. id # NoId /\ p \in Procs
        BY <2>2, <3>1 DEF PageJobs, Procs
      <4> QED
        BY <1>0, <2>2, <3>1, <4>1 DEF ExecInv, ExecTyped, DoneIsFinal
    <3>3. Final(id)'
      BY <3>2, FinalStays
    <3> QED
      BY <2>2, <3>1, <3>3 DEF Final
  <2> QED
    BY <1>2, <2>1, <2>2, PageSteps
<1>3. /\ \A id \in DOMAIN sets' : sets'[id].done => Final(id)'
      /\ \A id \in DOMAIN copy' : copy'[id].done => Final(id)'
      /\ \A id \in DOMAIN stored' : stored'[id].done => Final(id)'
  BY <1>1 DEF DoneIsFinal
<1> QED
  BY <1>2, <1>3 DEF DoneIsFinal

(* Another result, of which no data come, stays as it is.                  *)
LEMMA OthersStay ==
    ASSUME IInv, Fresh, PageJobs, StoreInv, [Next]_vars, NEW d, Brings(d),
           NEW id, id = ResultId(d.proc, d.pos), NEW x, x # id
    PROVE  Replaced(x) => Replaced(x)'
<1>1. /\ replace' = replace \ {d.proc} /\ job' = job
  BY PresentRows DEF Brings
<1>2. d.proc \in replace => id = job[d.proc].old
  BY OneSender
<1> QED
  BY <1>1, <1>2 DEF Replaced

LEMMA DataFinal ==
    ASSUME IInv, Fresh, PageJobs, StoreInv, [Next]_vars, NEW d, Brings(d)
    PROVE  DoneIsFinal'
<1>1. PICK id : id = ResultId(d.proc, d.pos)
  OBVIOUS
<1>2. Known(d) /\ Present(d) /\ UNCHANGED <<pc, job, copy>>
  BY DEF Brings, tabVars
<1>3. \/ UNCHANGED <<sets, stored>>
      \/ RowsCome(d, id)
  BY <1>1, <1>2, PresentRows
<1>4. d.last => Final(id)'
  <2>1. CASE d.proc \in Pages /\ id = job[d.proc].old
    <3>1. pc[d.proc] # "new" /\ id \in Ids
      BY <1>1, <1>2, ResultIds DEF Known
    <3>2. Final(id)
      BY <2>1, <3>1 DEF StoreInv, DoneIsFinal
    <3> QED
      BY <3>1, <3>2, FinalStays
  <2>2. CASE id = <<d.proc, d.pos, sub[d.proc][d.pos]>>
    <3>1. /\ d.proc \in Procs /\ d.pos \in 1..Len(job[d.proc].script)
          /\ ExecInv /\ sub[d.proc] \in [1..Len(job[d.proc].script) -> 0..MaxSets] /\ MaxSets \in Nat
      BY <1>2, TwoParts, ProcTyped DEF Known
    <3>2. d.last => sub'[d.proc][d.pos] = sub[d.proc][d.pos] + 1
      BY <1>2, <3>1, SubDoes
    <3>3. sub[d.proc][d.pos] \in Nat
      BY <3>1
    <3>4. id[1] = d.proc /\ id[2] = d.pos /\ id[3] = sub[d.proc][d.pos]
      BY <2>2
    <3>5. d.last => id[3] < sub'[id[1]][id[2]]
      BY <3>2, <3>3, <3>4
    <3>6. id[2] \in 1..Len(job'[id[1]].script)
      BY <1>2, <3>1, <3>4
    <3> QED
      BY <3>5, <3>6 DEF Final
  <2> QED
    BY <1>1, <1>2, <2>1, <2>2, ResultIds
<1>5. \A x \in DOMAIN sets' : \/ x \in DOMAIN sets /\ (sets'[x].done => sets[x].done)
                              \/ sets'[x].done => Final(x)'
  <2>1. CASE sets' = sets
    BY <2>1
  <2>2. CASE id \notin DOMAIN sets /\ SetAt(sets, id, [rows |-> PacketRows(d), done |-> d.last], sets')
    <3>1. sets'[id].done = d.last
      BY <2>2 DEF SetAt
    <3>2. \A x \in DOMAIN sets' : x # id => x \in DOMAIN sets /\ sets'[x] = sets[x]
      BY <2>2 DEF SetAt
    <3> QED
      BY <1>4, <3>1, <3>2
  <2>3. ASSUME NEW rows, id \in DOMAIN sets,
               SetAt(sets, id, [rows |-> rows, done |-> sets[id].done \/ d.last], sets')
        PROVE  \A x \in DOMAIN sets' : \/ x \in DOMAIN sets /\ (sets'[x].done => sets[x].done)
                                       \/ sets'[x].done => Final(x)'
    <3>1. sets'[id].done = (sets[id].done \/ d.last)
      BY <2>3 DEF SetAt
    <3>2. \A x \in DOMAIN sets' : x # id => x \in DOMAIN sets /\ sets'[x] = sets[x]
      BY <2>3 DEF SetAt
    <3> QED
      BY <1>4, <2>3, <3>1, <3>2
  <2> QED
    BY <1>3, <2>1, <2>2, <2>3 DEF RowsCome
<1>6. \A x \in DOMAIN stored' : \/ x \in DOMAIN stored /\ (stored'[x].done => stored[x].done)
                                \/ stored'[x].done => Final(x)'
  <2>1. CASE UNCHANGED stored
    BY <2>1
  <2>2. CASE RowsCome(d, id)
    <3>1. stored'[id].done = (Stored(id).done \/ d.last)
      BY <2>2 DEF RowsCome, SetAt
    <3>2. Stored(id).done => id \in DOMAIN stored /\ stored[id].done
      BY DEF Stored
    <3>3. \A x \in DOMAIN stored' : x # id => x \in DOMAIN stored /\ stored'[x] = stored[x]
      BY <2>2 DEF RowsCome, SetAt
    <3> QED
      BY <1>4, <3>1, <3>2, <3>3
  <2> QED
    BY <1>3, <2>1, <2>2
<1>7. DoneIsFinal
  BY DEF StoreInv
<1> QED
  BY <1>2, <1>5, <1>6, <1>7, FinalKept

LEMMA DataCleared ==
    ASSUME IInv, Fresh, PageJobs, StoreInv, [Next]_vars, NEW d, Brings(d)
    PROVE  Cleared'
<1> DEFINE p == d.proc
<1>1. PICK id : id = ResultId(d.proc, d.pos)
  OBVIOUS
<1>2. /\ Known(d) /\ Present(d) /\ UNCHANGED <<pc, job>> /\ ExecInv /\ Pages \subseteq Procs
      /\ id \in Ids
  BY <1>1, TwoParts, ResultIds DEF Brings, Procs
<1>3. /\ replace' = replace \ {p}
      /\ \A x : x # id => Stored(x)' = Stored(x)
      /\ \/ Stored(id)' = Stored(id)
         \/ Stored(id)'.done = (Stored(id).done \/ d.last)
  <2>1. replace' = replace \ {p} /\ (stored' = stored \/ RowsCome(d, id))
    BY <1>1, <1>2, PresentRows
  <2>2. CASE stored' = stored
    BY <2>1, <2>2 DEF Stored
  <2>3. CASE RowsCome(d, id)
    <3>1. SetAt(stored, id, [rows |-> Stored(id).rows \o PacketRows(d),
                             done |-> Stored(id).done \/ d.last], stored')
      BY <2>3 DEF RowsCome
    <3>2. \A x : x # id => Stored(x)' = Stored(x)
      BY <3>1 DEF SetAt, Stored
    <3>3. id \in DOMAIN stored' /\ stored'[id].done = (Stored(id).done \/ d.last)
      BY <3>1 DEF SetAt
    <3>4. Stored(id)'.done = (Stored(id).done \/ d.last)
      BY <3>3 DEF Stored
    <3> QED
      BY <2>1, <3>2, <3>4
  <2> QED
    BY <2>1, <2>2, <2>3
<1>4. ASSUME NEW q \in Pages, Asked(q)
      PROVE  /\ q = p => sub'[q][1] # 0 \/ (sub[q][1] = 0 /\ ~d.last)
             /\ q # p => sub'[q][1] = sub[q][1]
  <2>1. 1 \in 1..Len(job[q].script) /\ q \in Procs
    <3>1. Len(job[q].script) = 1
      BY <1>4 DEF PageJobs, Asked
    <3> QED
      BY <1>2, <3>1
  <2>2. sub'[q][1] = IF d.last /\ q = p /\ 1 = d.pos THEN sub[q][1] + 1 ELSE sub[q][1]
    BY <1>2, <2>1, SubDoes
  <2>3. q = p => d.pos = 1
    BY <1>1, <1>2, <1>4, ResultIds
  <2>4. sub[q][1] \in Nat
    <3>1. sub[q] \in [1..Len(job[q].script) -> 0..MaxSets] /\ MaxSets \in Nat
      BY <1>2, <2>1, ProcTyped
    <3> QED
      BY <2>1, <3>1
  <2> QED
    BY <2>2, <2>3, <2>4
<1>5. \A q \in Pages : q \in replace' => Asked(q)' /\ sub'[q][1] = 0
  BY <1>2, <1>3, <1>4 DEF StoreInv, Cleared, Asked
<1>6. ASSUME NEW q \in Pages, Asked(q)', AskedOnce(job[q].old)'
      PROVE  /\ sub'[q][1] = 0 => ~Stored(job[q].old)'.done
             /\ q \in replace' => Stored(job[q].old)'.rows = <<>>
  <2>1. PICK o : o = job[q].old
    OBVIOUS
  <2>2. Asked(q) /\ job'[q].old = o /\ pc[q] # "new" /\ o # NoId
    BY <1>2, <1>6, <2>1 DEF Asked, PageJobs
  <2>3. AskedOnce(o)' /\ Stored(job[q].old)' = Stored(o)'
    BY <1>2, <1>6, <2>1 DEF AskedOnce, Stored
  <2>4. AskedOnce(o)
    BY <2>2, <2>3, AskedStays
  <2>5. /\ sub[q][1] = 0 => ~Stored(o).done
        /\ q \in replace => Stored(o).rows = <<>>
    BY <2>1, <2>2, <2>4 DEF StoreInv, Cleared
  <2>6. CASE o # id
    <3>1. Stored(o)' = Stored(o)
      BY <1>3, <2>6
    <3>2. sub'[q][1] = 0 => sub[q][1] = 0
      BY <1>4, <2>2
    <3> QED
      BY <1>3, <2>3, <2>5, <3>1, <3>2
  <2>7. CASE o = id
    <3>1. q = p /\ sub[q][1] = 0
      BY <1>1, <2>1, <2>2, <2>4, <2>7, OneSender
    <3>2. sub'[q][1] = 0 => ~d.last
      BY <1>4, <2>2, <3>1
    <3>3. q \notin replace'
      BY <1>3, <3>1
    <3> QED
      BY <1>3, <2>3, <2>5, <2>7, <3>1, <3>2, <3>3
  <2> QED
    BY <2>6, <2>7
<1>7. \A q \in Pages : job'[q] = job[q]
  BY <1>2
<1> QED
  BY <1>5, <1>6, <1>7 DEF Cleared, AskedOnce, Stored

(* Two descriptions of a result that agree stay so when neither changes.   *)
LEMMA AgreesStays ==
    ASSUME IInv, Fresh, [Next]_vars, NEW x \in Ids, NEW v, Agrees(x, v), Stored(x)' = Stored(x)
    PROVE  Agrees(x, v)'
<1>1. AskedOnce(x)' => AskedOnce(x)
  BY SomeId, AskedStays
<1>2. EndsWith(Stored(x).rows, v.rows)'
  <2>1. Stored(x).rows' = Stored(x).rows
    OBVIOUS
  <2> QED
    BY <2>1 DEF Agrees, EndsWith
<1> QED
  BY <1>1, <1>2 DEF Agrees

LEMMA DataCopied ==
    ASSUME IInv, Fresh, PageJobs, StoreInv, [Next]_vars, NEW d, Brings(d)
    PROVE  Copied' /\ LoadsMarked'
<1>0. Shows
  BY TwoParts, ViewParts
<1>1. PICK id : id = ResultId(d.proc, d.pos)
  OBVIOUS
<1>2. /\ Known(d) /\ Present(d) /\ UNCHANGED <<pc, job, frozen, loading, copy>>
  BY DEF Brings, tabVars
<1>3. UNCHANGED <<sets, stored, cached, cut>> \/ RowsCome(d, id)
  BY <1>1, <1>2, PresentRows
<1>4. ASSUME NEW x \in DOMAIN copy, x \notin cut' PROVE Replaced(x)' \/ Agrees(x, copy[x])'
  <2>1. x \in Ids /\ x \notin cut /\ loading
    BY <1>0, <1>3, <1>4 DEF Shows, IsResults, RowsCome, StoreInv, LoadsMarked
  <2>2. Replaced(x) \/ Agrees(x, copy[x])
    BY <1>4, <2>1 DEF StoreInv, Copied
  <2>3. x # id \/ (Stored(x)' = Stored(x) /\ replace' = replace)
    <3>1. CASE UNCHANGED stored /\ ~RowsCome(d, id)
      <4>1. job[d.proc].text /\ replace' = replace \ {d.proc}
        BY <1>1, <1>2, <3>1, PresentRows
      <4>2. d.proc \notin replace
        BY <4>1, TwoParts DEF ExecInv, ExecTyped, PageJobs
      <4> QED
        BY <3>1, <4>1, <4>2 DEF Stored
    <3>2. CASE RowsCome(d, id)
      <4>1. Races(x)
        BY <1>4, <2>1 DEF Races
      <4> QED
        BY <1>4, <3>2, <4>1 DEF RowsCome
    <3> QED
      BY <1>3, <3>1, <3>2
  <2>4. x # id => Stored(x)' = Stored(x)
    BY <1>3 DEF RowsCome, SetAt, Stored
  <2>5. Replaced(x) => Replaced(x)'
    <3>1. CASE x # id
      BY <1>1, <3>1, OthersStay
    <3>2. CASE replace' = replace
      BY <1>2, <3>2 DEF Replaced
    <3> QED
      BY <2>3, <3>1, <3>2
  <2>6. ASSUME Agrees(x, copy[x]) PROVE Agrees(x, copy[x])'
    <3>1. PICK v : v = copy[x]
      OBVIOUS
    <3>2. Agrees(x, v)
      BY <2>6, <3>1
    <3>3. Agrees(x, v)'
      BY <2>1, <2>3, <2>4, <3>2, AgreesStays
    <3> QED
      BY <1>2, <3>1, <3>3
  <2> QED
    BY <2>2, <2>5, <2>6
<1>5. LoadsMarked'
  BY <1>2, <1>3 DEF StoreInv, LoadsMarked, RowsCome
<1> QED
  BY <1>2, <1>4, <1>5 DEF Copied

LEMMA DataHomeless ==
    ASSUME IInv, Fresh, PageJobs, StoreInv, [Next]_vars, NEW d, Brings(d)
    PROVE  Homeless'
<1>0. Shows
  BY TwoParts, ViewParts
<1>1. PICK id : id = ResultId(d.proc, d.pos)
  OBVIOUS
<1>2. Known(d) /\ Present(d)
  BY DEF Brings
<1>3. UNCHANGED <<sets, stored, cached, cut>> \/ RowsCome(d, id)
  BY <1>1, <1>2, PresentRows
<1>4. ASSUME NEW x \in DOMAIN stored', x \notin DOMAIN sets', x \notin cached', x \notin cut', AskedOnce(x)'
      PROVE  stored'[x].rows = <<>>
  <2>1. DOMAIN sets \subseteq DOMAIN sets' /\ cached \subseteq cached' /\ cut \subseteq cut'
    BY <1>3 DEF RowsCome, SetAt
  <2>2. x \in DOMAIN stored => x \in Ids /\ (AskedOnce(x) => stored[x].rows = <<>>)
    BY <1>0, <1>4, <2>1 DEF StoreInv, Homeless, Shows, IsResults
  <2>3. x \in DOMAIN stored => stored[x].rows = <<>>
    BY <1>4, <2>2, SomeId, AskedStays
  <2>4. CASE x \in DOMAIN stored /\ stored'[x] = stored[x]
    BY <2>3, <2>4
  <2>5. CASE RowsCome(d, id) /\ x = id
    <3>1. id \notin DOMAIN sets'
      BY <1>4, <2>5
    <3>2. PacketRows(d) = <<>> /\ stored'[id].rows = Stored(id).rows \o PacketRows(d)
      BY <2>5, <3>1 DEF RowsCome, SetAt
    <3>3. Stored(id).rows = <<>>
      BY <2>3, <2>5 DEF Stored
    <3> QED
      BY <2>5, <3>2, <3>3
  <2> QED
    BY <1>3, <2>4, <2>5 DEF RowsCome, SetAt
<1> QED
  BY <1>4 DEF Homeless

(* What is shown of the result the data are for is what is stored of it.   *)
LEMMA DataAgree ==
    ASSUME IInv, Fresh, PageJobs, StoreInv, [Next]_vars, NEW d, Brings(d),
           NEW id, id = ResultId(d.proc, d.pos), RowsCome(d, id),
           ~Clearing, ~loading, ~frozen, id \in DOMAIN sets', id \notin cut
    PROVE  Replaced(id)' \/ Agrees(id, sets[id])'
<1> DEFINE rows == Stored(id).rows
           new == PacketRows(d)
<1>1. /\ Shows /\ id \in Ids /\ Known(d) /\ Present(d) /\ job' = job /\ d.last \in BOOLEAN
  BY TwoParts, ViewParts, ResultIds DEF Brings, Known
<1>2. rows \in Seq(Packets) /\ Stored(id).done \in BOOLEAN /\ new \in Seq(Packets)
  BY <1>1, StoredTyped, PacketTyping DEF Result
<1>3. /\ Stored(id)'.rows = rows \o new
      /\ Stored(id)'.done = (Stored(id).done \/ d.last)
  BY DEF RowsCome, SetAt, Stored
<1>4. /\ AskedOnce(id)' => AskedOnce(id)
      /\ AskedOnce(id) => ~Stored(id).done
      /\ AskedOnce(id) /\ d.proc \in replace => rows = <<>>
  BY <1>1, SomeId, AskedStays, OneSender
<1> HIDE DEF rows, new
<1>5. ASSUME sets'[id].rows = new, d.last => sets'[id].done,
             AskedOnce(id) => rows = <<>>
      PROVE  Agrees(id, sets[id])'
  <2>1. EndsWith(rows \o new, new) /\ <<>> \o new = new
    BY <1>2, EndsWithLast
  <2>2. EndsWith(Stored(id)'.rows, sets'[id].rows)
    BY <1>3, <1>5, <2>1
  <2>3. AskedOnce(id)' => Stored(id)'.rows = sets'[id].rows
    BY <1>3, <1>4, <1>5, <2>1
  <2>4. AskedOnce(id)' => (Stored(id)'.done => sets'[id].done)
    BY <1>3, <1>4, <1>5
  <2> QED
    BY <2>2, <2>3, <2>4 DEF Agrees, EndsWith
<1>6. CASE id \notin DOMAIN sets /\ SetAt(sets, id, [rows |-> PacketRows(d), done |-> d.last], sets')
  <2>1. sets'[id].rows = new /\ sets'[id].done = d.last
    BY <1>6 DEF SetAt, new
  <2>2. AskedOnce(id) => rows = <<>>
    <3>1. CASE id \in DOMAIN stored
      <4>1. id \notin cached
        BY DEF StoreInv, LoadsMarked
      <4> QED
        BY <1>6, <3>1, <4>1 DEF StoreInv, Homeless, Stored, rows
    <3>2. CASE id \notin DOMAIN stored
      BY <3>2 DEF Stored, rows
    <3> QED
      BY <3>1, <3>2
  <2> QED
    BY <1>5, <2>1, <2>2
<1>7. CASE /\ id \in DOMAIN sets
           /\ SetAt(sets, id,
                    [rows |-> IF d.proc \in replace THEN PacketRows(d)
                              ELSE sets[id].rows \o PacketRows(d),
                     done |-> sets[id].done \/ d.last], sets')
  <2>1. /\ sets'[id].rows = IF d.proc \in replace THEN new ELSE sets[id].rows \o new
        /\ sets'[id].done = (sets[id].done \/ d.last)
    BY <1>7 DEF SetAt, new
  <2>2. sets[id].rows \in Seq(Packets) /\ sets[id].done \in BOOLEAN
    BY <1>1, <1>7 DEF Shows, IsResults
  <2>3. CASE d.proc \in replace
    BY <1>4, <1>5, <2>1, <2>2, <2>3
  <2>4. CASE d.proc \notin replace /\ Replaced(id)
    BY <1>1, <2>4, PresentRows DEF Replaced
  <2>5. CASE d.proc \notin replace /\ Agrees(id, sets[id])
    <3>1. EndsWith(rows, sets[id].rows) /\ (AskedOnce(id) => rows = sets[id].rows)
      BY <2>5 DEF Agrees, rows
    <3>2. EndsWith(rows \o new, sets[id].rows \o new)
      BY <1>2, <2>2, <3>1, EndsWithMore
    <3>3. EndsWith(Stored(id)'.rows, sets'[id].rows)
      BY <1>3, <2>1, <2>5, <3>2
    <3>4. AskedOnce(id)' => Stored(id)'.rows = sets'[id].rows
      BY <1>3, <1>4, <2>1, <2>5, <3>1
    <3>5. AskedOnce(id)' => (Stored(id)'.done => sets'[id].done)
      BY <1>1, <1>3, <1>4, <2>1, <2>2
    <3> QED
      BY <3>3, <3>4, <3>5 DEF Agrees, EndsWith
  <2>6. Replaced(id) \/ Agrees(id, sets[id])
    BY <1>7 DEF StoreInv, ShowsStored
  <2> QED
    BY <2>3, <2>4, <2>5, <2>6
<1>8. CASE id \notin DOMAIN sets /\ sets' = sets
  BY <1>8
<1> QED
  BY <1>6, <1>7, <1>8 DEF RowsCome

LEMMA DataShows ==
    ASSUME IInv, Fresh, PageJobs, StoreInv, [Next]_vars, NEW d, Brings(d)
    PROVE  ShowsStored'
<1>0. Shows
  BY TwoParts, ViewParts
<1>1. PICK id : id = ResultId(d.proc, d.pos)
  OBVIOUS
<1>2. /\ Known(d) /\ Present(d) /\ UNCHANGED <<pc, job, frozen, loading>>
  BY DEF Brings, tabVars
<1>3. replace' = replace \ {d.proc}
  BY <1>1, <1>2, PresentRows
<1> SUFFICES ASSUME ~Clearing', ~loading', ~frozen', NEW x \in DOMAIN sets', x \notin cut'
             PROVE  Replaced(x)' \/ (x \in DOMAIN stored' /\ Agrees(x, sets[x])')
  BY DEF ShowsStored
<1>4. ~Clearing /\ ~loading /\ ~frozen
  BY <1>2 DEF Clearing
<1>5. CASE UNCHANGED <<sets, stored, cut>> /\ job[d.proc].text
  <2>1. d.proc \notin replace
    BY <1>5, TwoParts DEF ExecInv, ExecTyped, PageJobs
  <2>2. replace' = replace /\ x \in Ids /\ Stored(x)' = Stored(x)
    BY <1>0, <1>3, <1>5, <2>1 DEF Shows, IsResults, Stored
  <2>3. Replaced(x) \/ (x \in DOMAIN stored /\ Agrees(x, sets[x]))
    BY <1>4, <1>5 DEF StoreInv, ShowsStored
  <2>4. PICK v : v = sets[x]
    OBVIOUS
  <2>5. Agrees(x, v) => Agrees(x, v)'
    BY <2>2, AgreesStays
  <2> QED
    BY <1>2, <1>5, <2>2, <2>3, <2>4, <2>5 DEF Replaced
<1>6. CASE RowsCome(d, id)
  <2>1. CASE x = id
    <3>1. id \in DOMAIN stored' /\ id \notin cut
      BY <1>6, <2>1 DEF RowsCome, SetAt
    <3> QED
      BY <1>1, <1>4, <1>6, <2>1, <3>1, DataAgree
  <2>2. CASE x # id
    <3>1. x \in DOMAIN sets /\ sets'[x] = sets[x] /\ x \notin cut
      BY <1>6, <2>2 DEF RowsCome, SetAt
    <3>2. Stored(x)' = Stored(x) /\ (x \in DOMAIN stored => x \in DOMAIN stored')
      BY <1>6, <2>2 DEF RowsCome, SetAt, Stored
    <3>3. Replaced(x) \/ (x \in DOMAIN stored /\ Agrees(x, sets[x]))
      BY <1>4, <3>1 DEF StoreInv, ShowsStored
    <3>4. Replaced(x) => Replaced(x)'
      BY <1>1, <2>2, OthersStay
    <3>5. PICK v : v = sets[x]
      OBVIOUS
    <3>6. x \in Ids
      BY <1>0, <3>1 DEF Shows, IsResults
    <3>7. Agrees(x, v) => Agrees(x, v)'
      BY <3>2, <3>6, AgreesStays
    <3> QED
      BY <3>1, <3>2, <3>3, <3>4, <3>5, <3>7
  <2> QED
    BY <2>1, <2>2
<1> QED
  BY <1>1, <1>2, <1>5, <1>6, PresentRows

LEMMA DataKept ==
    ASSUME IInv, Fresh, PageJobs, StoreInv, [Next]_vars, NEW d, Brings(d) PROVE StoreInv'
  BY DataFinal, DataCleared, DataCopied, DataHomeless, DataShows DEF StoreInv

-----------------------------------------------------------------------------
(* The other steps                                                           *)

(* Each result in the DB is left as it is, or is deleted.                  *)
OnlyDeletes ==
    /\ DOMAIN stored' \subseteq DOMAIN stored
    /\ \A id \in DOMAIN stored' : stored'[id] = stored[id]

LEMMA DeletesStored ==
    ASSUME OnlyDeletes, NEW id
    PROVE  Stored(id)' \in {Stored(id), [rows |-> <<>>, done |-> FALSE]}
  BY DEF OnlyDeletes, Stored

(* What is said of the page requests depends on the requests and on the DB.*)
LEMMA ClearedKept ==
    ASSUME IInv, Fresh, PageJobs, Cleared, [Next]_vars, OnlyDeletes,
           \A p \in Pages : pc[p] # "new" => sub'[p] = sub[p],
           \A p \in Pages : \/ p \in replace' => p \in replace
                            \/ /\ pc'[p] = "execute" /\ sub'[p][1] = 0
                               /\ Stored(job[p].old)' = [rows |-> <<>>, done |-> FALSE],
           \A p \in Pages : Asked(p)' => Asked(p) \/ Stored(job[p].old)' = [rows |-> <<>>, done |-> FALSE],
           \A p \in Pages : Asked(p) => Asked(p)'
    PROVE  Cleared'
<1>0. Pages \subseteq Procs
  BY DEF Procs
<1>1. ASSUME NEW p \in Pages, p \in replace' PROVE Asked(p)' /\ sub'[p][1] = 0
  BY <1>1 DEF Cleared, Asked
<1>2. ASSUME NEW p \in Pages, Asked(p)', AskedOnce(job[p].old)'
      PROVE  /\ sub'[p][1] = 0 => ~Stored(job[p].old)'.done
             /\ p \in replace' => Stored(job[p].old)'.rows = <<>>
  <2>1. CASE Stored(job[p].old)' = [rows |-> <<>>, done |-> FALSE]
    BY <2>1
  <2>2. CASE Stored(job[p].old)' # [rows |-> <<>>, done |-> FALSE]
    <3>1. Asked(p) /\ (p \in replace' => p \in replace) /\ sub'[p] = sub[p]
      BY <1>2, <2>2 DEF Asked
    <3>2. PICK o : o = job[p].old
      OBVIOUS
    <3>3. pc[p] # "new" /\ o # NoId /\ job'[p].old = o
      BY <1>0, <3>1, <3>2, Begun DEF Asked, PageJobs
    <3>4. AskedOnce(o)' /\ Stored(job[p].old)' = Stored(o)'
      BY <1>2, <3>3 DEF AskedOnce, Stored
    <3>5. AskedOnce(o)
      BY <3>3, <3>4, AskedStays
    <3>6. Stored(o)' = Stored(o)
      BY <2>2, <3>4, DeletesStored
    <3> QED
      BY <3>1, <3>2, <3>4, <3>5, <3>6 DEF Cleared
  <2> QED
    BY <2>1, <2>2
<1>3. Cleared' = \A p \in Pages :
         /\ p \in replace' => Asked(p)' /\ sub'[p][1] = 0
         /\ Asked(p)' /\ AskedOnce(job[p].old)' =>
               /\ sub'[p][1] = 0 => ~Stored(job[p].old)'.done
               /\ p \in replace' => Stored(job[p].old)'.rows = <<>>
  BY DEF Cleared, AskedOnce, Stored
<1> QED
  BY <1>1, <1>2, <1>3

(* A step that neither shows, loads nor stores, and deletes only what is   *)
(* going to be replaced.                                                   *)
LEMMA StillKept ==
    ASSUME IInv, Fresh, PageJobs, StoreInv, [Next]_vars, Cleared', OnlyDeletes,
           UNCHANGED <<sets, copy, cached, frozen, loading>>, cut \subseteq cut',
           Clearing => Clearing',
           \A p \in replace : p \in replace' \/ job[p].old \in cut',
           \A id \in DOMAIN stored : id \in DOMAIN stored' \/ Replaced(id)'
    PROVE  StoreInv'
<1>0. Shows /\ replace \subseteq Pages /\ Pages \subseteq Procs
  BY TwoParts, ViewParts DEF ExecInv, ExecTyped, Procs
<1>1. DoneIsFinal'
  BY FinalKept DEF StoreInv, OnlyDeletes
<1>2. ASSUME NEW x, Replaced(x), x \notin cut' PROVE Replaced(x)'
  <2>1. PICK p \in replace : job[p].old = x
    BY <1>2 DEF Replaced
  <2>2. p \in replace' /\ pc[p] # "new"
    BY <1>2, <2>1 DEF IInv, Replacing
  <2>3. job'[p] = job[p]
    BY <1>0, <2>2, Begun
  <2> QED
    BY <2>1, <2>2, <2>3 DEF Replaced
<1>3. ASSUME NEW x \in Ids PROVE Stored(x)' = Stored(x) \/ Replaced(x)'
  BY DEF OnlyDeletes, Stored
<1>4. ASSUME NEW x \in DOMAIN copy, x \notin cut' PROVE Replaced(x)' \/ Agrees(x, copy[x])'
  <2>1. x \in Ids /\ x \notin cut
    BY <1>0, <1>4 DEF Shows, IsResults
  <2>2. PICK v : v = copy[x]
    OBVIOUS
  <2>3. Replaced(x) \/ Agrees(x, v)
    BY <2>1, <2>2 DEF StoreInv, Copied
  <2>4. Agrees(x, v) => Agrees(x, v)' \/ Replaced(x)'
    BY <1>3, <2>1, AgreesStays
  <2> QED
    BY <1>2, <1>4, <2>2, <2>3, <2>4
<1>5. ASSUME ~Clearing', ~loading', ~frozen', NEW x \in DOMAIN sets, x \notin cut'
      PROVE  Replaced(x)' \/ (x \in DOMAIN stored' /\ Agrees(x, sets[x])')
  <2>1. x \in Ids /\ x \notin cut
    BY <1>0, <1>5 DEF Shows, IsResults
  <2>2. PICK v : v = sets[x]
    OBVIOUS
  <2>3. Replaced(x) \/ (x \in DOMAIN stored /\ Agrees(x, v))
    BY <1>5, <2>1, <2>2 DEF StoreInv, ShowsStored
  <2>4. Agrees(x, v) => Agrees(x, v)' \/ Replaced(x)'
    BY <1>3, <2>1, AgreesStays
  <2> QED
    BY <1>2, <1>5, <2>2, <2>3, <2>4
<1>6. ASSUME NEW x \in DOMAIN stored', x \notin DOMAIN sets', x \notin cached', x \notin cut', AskedOnce(x)'
      PROVE  stored'[x].rows = <<>>
  <2>1. x \in DOMAIN stored /\ x \in Ids /\ stored'[x] = stored[x] /\ x \notin cut
    BY <1>0, <1>6 DEF OnlyDeletes, Shows, IsResults
  <2>2. AskedOnce(x)
    BY <1>6, <2>1, SomeId, AskedStays
  <2> QED
    BY <1>6, <2>1, <2>2 DEF StoreInv, Homeless
<1>7. Copied'
  BY <1>4 DEF Copied
<1>8. ShowsStored'
  BY <1>5 DEF ShowsStored
<1>9. Homeless' /\ LoadsMarked'
  BY <1>6 DEF Homeless, StoreInv, LoadsMarked
<1> QED
  BY <1>1, <1>7, <1>8, <1>9 DEF StoreInv

(* A step that leaves the results alone; a page request that fails does    *)
(* not replace the old page any more, which has lost its rows.             *)
LEMMA QuietKept ==
    ASSUME IInv, Fresh, PageJobs, StoreInv, [Next]_vars,
           UNCHANGED <<sub, sets, copy, cached, stored, frozen, loading>>,
           cut \subseteq cut', replace' \subseteq replace,
           \A p \in replace : p \in replace' \/ job[p].old \in cut',
           Clearing => Clearing',
           \A p \in Pages : Asked(p)' = Asked(p)
    PROVE  StoreInv'
<1>1. OnlyDeletes
  BY DEF OnlyDeletes
<1>2. Cleared'
  BY <1>1, ClearedKept DEF StoreInv
<1> QED
  BY <1>1, <1>2, StillKept

LEMMA ExecuteKept ==
    ASSUME IInv, Fresh, PageJobs, StoreInv, [Next]_vars, NEW p \in Procs, Execute(p)
    PROVE  StoreInv'
<1>0. /\ ExecInv /\ Shows /\ replace \subseteq Pages /\ Pages \subseteq Procs
      /\ \A r \in Runs : job[r].old = NoId /\ r \notin Pages
      /\ pc \in [Procs -> Modes]
  <2>1. \A r \in Runs : r \notin Pages
    BY ExecutionAssumption DEF Runs, Pages
  <2> QED
    BY <2>1, TwoParts, ViewParts DEF ExecInv, ExecTyped, JobsTyped, Procs
<1>1. /\ pc[p] = "prepare" /\ pc' = [pc EXCEPT ![p] = "execute"]
      /\ \/ /\ job[p].old # NoId /\ replace' = replace \cup {p}
            /\ stored' = Restrict(stored, DOMAIN stored \ {job[p].old})
         \/ job[p].old = NoId /\ UNCHANGED <<replace, stored>>
      /\ UNCHANGED <<job, sub, sets, copy, cached, frozen, loading, cut>>
  BY DEF Execute, ExecutionStarts, tabVars
<1>2. OnlyDeletes /\ \A id \in DOMAIN stored : id \in DOMAIN stored' \/ (job[p].old # NoId /\ id = job[p].old)
  <2>1. CASE stored' = stored
    BY <2>1 DEF OnlyDeletes
  <2>2. CASE job[p].old # NoId /\ stored' = Restrict(stored, DOMAIN stored \ {job[p].old})
    <3>1. /\ DOMAIN stored' = DOMAIN stored \ {job[p].old}
          /\ \A id \in DOMAIN stored' : stored'[id] = stored[id]
      BY <2>2, Restricts
    <3> QED
      BY <2>2, <3>1 DEF OnlyDeletes
  <2> QED
    BY <1>1, <2>1, <2>2
<1>3. /\ job[p].old # NoId => p \in Pages /\ p \in replace' /\ Stored(job[p].old)' = [rows |-> <<>>, done |-> FALSE]
      /\ p \in Pages => job[p].old # NoId
  <2>1. job[p].old # NoId => p \in Pages /\ p \in replace'
    BY <1>0, <1>1 DEF Procs
  <2>2. p \in Pages => job[p].old # NoId
    BY <1>1 DEF PageJobs
  <2>3. job[p].old # NoId => job'[p].old \notin DOMAIN stored'
    BY <1>1, Restricts
  <2> QED
    BY <1>1, <2>1, <2>2, <2>3 DEF Stored
<1>4. pc'[p] = "execute" /\ \A q \in Procs : q # p => pc'[q] = pc[q]
  BY <1>0, <1>1
<1>5. p \in Pages => sub'[p][1] = 0
  <2>1. ASSUME p \in Pages PROVE sub[p][1] = 0
    <3>1. Len(job[p].script) = 1 /\ pos[p] \in 0..Len(job[p].script) /\ pos[p] >= 1
      BY <1>0, <1>1, <2>1, ProcTyped DEF PageJobs, ExecInv, Serving
    <3>2. pos[p] = 1 /\ 1 \in 1..Len(job[p].script)
      BY <3>1
    <3>3. ~IsServed(p)
      BY <1>0, <1>1, ServedWaits
    <3>4. sub[p][1] + Owed(p, 1) <= Sent(p) /\ Sent(p) = 0
      BY <1>0, <1>1, <3>2, <3>3 DEF ExecInv, Counted, Sent
    <3>5. sub[p] \in [1..Len(job[p].script) -> 0..MaxSets] /\ MaxSets \in Nat
      BY <1>0, ProcTyped
    <3>6. sub[p][1] \in Nat /\ Owed(p, 1) \in Nat
      BY <3>2, <3>5 DEF Owed
    <3> QED
      BY <3>4, <3>6
  <2> QED
    BY <1>1, <2>1
<1>6. \A q \in Pages : q # p => pc'[q] = pc[q] /\ (q \in replace' => q \in replace)
  BY <1>0, <1>1, <1>4
<1>7. Cleared'
  <2>1. \A q \in Pages : \/ q \in replace' => q \in replace
                         \/ /\ pc'[q] = "execute" /\ sub'[q][1] = 0
                            /\ Stored(job[q].old)' = [rows |-> <<>>, done |-> FALSE]
    BY <1>3, <1>4, <1>5, <1>6
  <2>2. \A q \in Pages : Asked(q)' => Asked(q) \/ Stored(job[q].old)' = [rows |-> <<>>, done |-> FALSE]
    BY <1>3, <1>6 DEF Asked
  <2>3. \A q \in Pages : Asked(q) => Asked(q)'
    BY <1>1, <1>6 DEF Asked
  <2> QED
    BY <1>1, <1>2, <2>1, <2>2, <2>3, ClearedKept DEF StoreInv
<1>8. \A id \in DOMAIN stored : id \in DOMAIN stored' \/ Replaced(id)'
  BY <1>1, <1>2, <1>3 DEF Replaced
<1>9. Clearing => Clearing'
  BY <1>1, <1>4 DEF Clearing
<1> QED
  BY <1>1, <1>2, <1>7, <1>8, <1>9, StillKept

LEMMA ShowPageKept ==
    ASSUME IInv, Fresh, PageJobs, StoreInv, [Next]_vars, NEW p \in Pages, ShowPage(p)
    PROVE  StoreInv'
<1>1. /\ pc[p] = "new" /\ pc'[p] = "prepare" /\ p \in Procs /\ Pages \subseteq Procs
      /\ \A q \in Procs : q # p => pc'[q] = pc[q] /\ sub'[q] = sub[q]
      /\ UNCHANGED <<replace, sets, copy, cached, stored, frozen, loading, cut>>
  BY PageBegins DEF Procs, viewVars, tabVars
<1>2. OnlyDeletes
  BY <1>1 DEF OnlyDeletes
<1>3. \A q \in Pages : Asked(q)' = Asked(q) /\ (pc[q] # "new" => sub'[q] = sub[q])
  BY <1>1 DEF Asked
<1>4. Cleared'
  BY <1>1, <1>2, <1>3, ClearedKept DEF StoreInv
<1>5. Clearing => Clearing'
  BY <1>1 DEF Clearing
<1> QED
  BY <1>1, <1>2, <1>4, <1>5, StillKept

LEMMA RestoreKept ==
    ASSUME IInv, Fresh, PageJobs, StoreInv, [Next]_vars, Restore PROVE StoreInv'
<1>0. Shows /\ Marked /\ Copied /\ Homeless /\ LoadsMarked /\ Cleared /\ DoneIsFinal /\ replace \subseteq Pages
  BY TwoParts, ViewParts DEF Shows, StoreInv, ExecInv, ExecTyped
<1>1. /\ UNCHANGED <<pc, job, sub, replace, stored, frozen>>
      /\ loading /\ cached \subseteq DOMAIN copy
      /\ cached' = {} /\ loading' = FALSE /\ DOMAIN copy' = {} /\ cut \subseteq cut'
      /\ sets' = RestrictValues(copy, LAMBDA set : set.rows # <<>>)
  BY NoResults DEF Restore, procVars
<1>2. /\ DOMAIN sets' = {x \in DOMAIN copy : copy[x].rows # <<>>}
      /\ \A x \in DOMAIN sets' : sets'[x] = copy[x]
  <2>1. sets' = Restrict(copy, {x \in DOMAIN copy : copy[x].rows # <<>>})
    BY <1>1 DEF RestrictValues
  <2> QED
    BY <2>1, Restricts
<1>3. \A x : Replaced(x)' = Replaced(x) /\ AskedOnce(x)' = AskedOnce(x) /\ Stored(x)' = Stored(x)
  BY <1>1 DEF Replaced, AskedOnce, Stored
<1>4. Cleared'
  <2>1. OnlyDeletes
    BY <1>1 DEF OnlyDeletes
  <2> QED
    BY <1>0, <1>1, <2>1, ClearedKept DEF Asked
<1>5. DoneIsFinal'
  BY <1>0, <1>1, <1>2, FinalKept
<1>6. LoadsMarked' /\ Copied'
  BY <1>1 DEF LoadsMarked, Copied
<1>7. ASSUME NEW x \in DOMAIN stored, x \notin DOMAIN sets', x \notin cut', AskedOnce(x)
      PROVE  stored[x].rows = <<>>
  <2>1. x \notin cut /\ (x \in DOMAIN sets => x \in cached)
    BY <1>0, <1>1, <1>7 DEF Marked
  <2>2. CASE x \notin cached
    BY <1>0, <1>7, <2>1, <2>2 DEF Homeless
  <2>3. CASE x \in cached
    <3>1. x \in DOMAIN copy /\ copy[x].rows = <<>>
      BY <1>1, <1>2, <1>7, <2>3
    <3>2. Stored(x) = stored[x]
      BY <1>7 DEF Stored
    <3>3. CASE Agrees(x, copy[x])
      BY <1>7, <3>1, <3>2, <3>3 DEF Agrees
    <3>4. CASE Replaced(x)
      BY <1>0, <1>7, <3>2, <3>4 DEF Replaced, Cleared
    <3> QED
      BY <1>0, <2>1, <3>1, <3>3, <3>4 DEF Copied
  <2> QED
    BY <2>2, <2>3
<1>8. Homeless'
  BY <1>1, <1>3, <1>7 DEF Homeless
<1>9. ASSUME NEW x \in DOMAIN sets', x \notin cut'
      PROVE  Replaced(x)' \/ (x \in DOMAIN stored' /\ Agrees(x, sets[x])')
  <2>1. x \in DOMAIN copy /\ copy[x].rows # <<>> /\ sets'[x] = copy[x] /\ x \notin cut
    BY <1>1, <1>2, <1>9
  <2>2. PICK v : v = copy[x]
    OBVIOUS
  <2>3. ASSUME Agrees(x, v) PROVE x \in DOMAIN stored' /\ Agrees(x, sets[x])'
    <3>1. EndsWith(Stored(x).rows, v.rows) /\ v.rows \in Seq(Packets)
      BY <1>0, <2>1, <2>2, <2>3 DEF Agrees, Shows, IsResults
    <3>2. x \in DOMAIN stored
      BY <2>1, <2>2, <3>1, EndsWithNothing DEF Stored
    <3>3. Agrees(x, v)'
      BY <1>3, <2>3 DEF Agrees, EndsWith
    <3> QED
      BY <1>1, <2>1, <2>2, <3>2, <3>3
  <2>4. Replaced(x) \/ Agrees(x, v)
    BY <1>0, <2>1, <2>2 DEF Copied
  <2> QED
    BY <1>3, <2>3, <2>4
<1>10. ShowsStored'
  BY <1>9 DEF ShowsStored
<1> QED
  BY <1>4, <1>5, <1>6, <1>8, <1>10 DEF StoreInv

LEMMA ClearStartsKept ==
    ASSUME IInv, Fresh, PageJobs, StoreInv, [Next]_vars, NEW r \in Runs, Run(r) \/ HistoryStored(r)
    PROVE  StoreInv'
<1>0. /\ ExecInv /\ Shows /\ Pages \subseteq Procs /\ r \in Procs /\ r \notin Pages
      /\ pc \in [Procs -> Modes]
  <2>1. r \notin Pages
    BY ExecutionAssumption DEF Runs, Pages
  <2> QED
    BY <2>1, TwoParts, ViewParts DEF ExecInv, ExecTyped, Procs
<1>1. /\ cut' = cut \cup DOMAIN copy
      /\ \/ stored' = stored
         \/ stored' = Restrict(stored, DOMAIN stored \ (DOMAIN sets \cup texts))
      /\ type # "none" => pc'[r] \in {"clear", "clear again"}
      /\ UNCHANGED <<type, sets, copy, cached, frozen, loading, replace>>
      /\ \A q \in Procs : q # r => pc'[q] = pc[q] /\ sub'[q] = sub[q]
  <2>1. CASE Run(r)
    <3>1. /\ ClearStarts /\ UNCHANGED <<type, sets, copy, cached, frozen, loading, replace>>
          /\ pc' = [pc EXCEPT ![r] = IF type = "none" THEN "history" ELSE "clear"]
      BY <2>1 DEF Run, Clear, tabVars
    <3>2. \A q \in Procs : q # r => pc'[q] = pc[q] /\ sub'[q] = sub[q]
      BY <2>1, RunBegins
    <3> QED
      BY <1>0, <3>1, <3>2 DEF ClearStarts
  <2>2. CASE HistoryStored(r)
    <3>1. /\ ClearStarts /\ UNCHANGED <<type, sets, copy, cached, frozen, loading, replace, sub>>
          /\ pc' = [pc EXCEPT ![r] = IF type = "none" THEN "prepare" ELSE "clear again"]
      BY <2>2 DEF HistoryStored, Clear, tabVars
    <3> QED
      BY <1>0, <3>1 DEF ClearStarts
  <2> QED
    BY <2>1, <2>2
<1>2. OnlyDeletes
  <2>1. CASE stored' = stored
    BY <2>1 DEF OnlyDeletes
  <2>2. CASE stored' = Restrict(stored, DOMAIN stored \ (DOMAIN sets \cup texts))
    <3>1. /\ DOMAIN stored' = DOMAIN stored \ (DOMAIN sets \cup texts)
          /\ \A id \in DOMAIN stored' : stored'[id] = stored[id]
      BY <2>2, Restricts
    <3> QED
      BY <3>1 DEF OnlyDeletes
  <2> QED
    BY <1>1, <2>1, <2>2
<1>3. \A q \in Pages : Asked(q)' = Asked(q) /\ sub'[q] = sub[q]
  BY <1>0, <1>1 DEF Asked
<1>4. Cleared'
  BY <1>1, <1>2, <1>3, ClearedKept DEF StoreInv
<1>5. DoneIsFinal'
  BY <1>1, <1>2, FinalKept DEF StoreInv, OnlyDeletes
<1>6. Copied' /\ LoadsMarked'
  BY <1>1 DEF Copied, StoreInv, LoadsMarked
<1>7. ASSUME NEW x \in DOMAIN stored', x \notin DOMAIN sets', x \notin cached', x \notin cut', AskedOnce(x)'
      PROVE  stored'[x].rows = <<>>
  <2>1. x \in DOMAIN stored /\ x \in Ids /\ stored'[x] = stored[x] /\ x \notin cut
    BY <1>0, <1>1, <1>2, <1>7 DEF OnlyDeletes, Shows, IsResults
  <2>2. AskedOnce(x)
    BY <1>7, <2>1, SomeId, AskedStays
  <2> QED
    BY <1>1, <1>7, <2>1, <2>2 DEF StoreInv, Homeless
<1>8. ShowsStored'
  <2>1. ~Clearing' => type = "none"
    BY <1>0, <1>1 DEF Clearing
  <2>2. type = "none" => DOMAIN sets' = {}
    BY <1>0, <1>1, NoResults DEF Shows, Marked
  <2> QED
    BY <2>1, <2>2 DEF ShowsStored
<1>9. Homeless'
  BY <1>7 DEF Homeless
<1> QED
  BY <1>4, <1>5, <1>6, <1>8, <1>9 DEF StoreInv

LEMMA ClearEndsKept ==
    ASSUME IInv, Fresh, PageJobs, StoreInv, [Next]_vars, NEW r \in Runs, ClearEnds(r)
    PROVE  StoreInv'
<1>0. /\ ExecInv /\ Shows /\ Pages \subseteq Procs /\ r \in Procs /\ r \notin Pages
      /\ pc \in [Procs -> Modes]
  <2>1. r \notin Pages
    BY ExecutionAssumption DEF Runs, Pages
  <2> QED
    BY <2>1, TwoParts, ViewParts DEF ExecInv, ExecTyped, Procs
<1>1. /\ cut' = cut \cup DOMAIN stored /\ sets' = <<>> /\ DOMAIN sets' = {}
      /\ UNCHANGED <<job, sub, replace, frozen, loading, copy, cached, stored>>
      /\ \A q \in Procs : q # r => pc'[q] = pc[q]
  <2>1. \E m : pc' = [pc EXCEPT ![r] = m]
    BY DEF ClearEnds
  <2> QED
    BY <1>0, <2>1, NoResults DEF ClearEnds, tabVars
<1>2. OnlyDeletes
  BY <1>1 DEF OnlyDeletes
<1>3. \A q \in Pages : Asked(q)' = Asked(q)
  BY <1>0, <1>1 DEF Asked
<1>4. Cleared'
  BY <1>1, <1>2, <1>3, ClearedKept DEF StoreInv
<1>5. DoneIsFinal'
  BY <1>1, FinalKept DEF StoreInv
<1>6. ASSUME NEW x \in DOMAIN copy, x \notin cut' PROVE Replaced(x)' \/ Agrees(x, copy[x])'
  <2>1. PICK v : v = copy[x]
    OBVIOUS
  <2>2. x \in Ids /\ (Replaced(x) \/ Agrees(x, v))
    BY <1>0, <1>1, <1>6, <2>1 DEF StoreInv, Copied, Shows, IsResults
  <2>3. Agrees(x, v) => Agrees(x, v)'
    BY <1>1, <2>2, AgreesStays DEF Stored
  <2> QED
    BY <1>1, <2>1, <2>2, <2>3 DEF Replaced
<1>7. Copied'
  BY <1>1, <1>6 DEF Copied
<1>8. Homeless' /\ ShowsStored' /\ LoadsMarked'
  BY <1>1 DEF Homeless, ShowsStored, StoreInv, LoadsMarked
<1> QED
  BY <1>4, <1>5, <1>7, <1>8 DEF StoreInv

(* The results of a tab that is hidden are marked, read again when it is   *)
(* shown, and set.                                                         *)
LEMMA AgreesAsStored ==
    ASSUME IInv, NEW x, stored' = stored PROVE Agrees(x, Stored(x))'
<1>1. Stored(x)' = Stored(x) /\ Stored(x) \in Result
  BY TwoParts, ViewParts, StoredTyped DEF Stored
<1>2. Stored(x).rows \in Seq(Packets)
  BY <1>1 DEF Result
<1>3. EndsWith(Stored(x).rows, Stored(x).rows)'
  BY <1>1, <1>2, EndsWithSelf DEF EndsWith
<1> QED
  BY <1>1, <1>3 DEF Agrees, EndsWith

LEMMA TabKept ==
    ASSUME IInv, Fresh, PageJobs, StoreInv, [Next]_vars, TabStep PROVE StoreInv'
<1>0. Shows /\ Marked /\ Copied /\ Homeless /\ LoadsMarked /\ Cleared /\ DoneIsFinal
  BY TwoParts, ViewParts DEF Shows, StoreInv
<1>1. UNCHANGED <<pc, job, sub, replace, stored>>
  BY DEF TabStep, Hide, Show, ReadNext, Restore, procVars
<1>2. OnlyDeletes /\ Cleared'
  <2>1. OnlyDeletes
    BY <1>1 DEF OnlyDeletes
  <2> QED
    BY <1>0, <1>1, <2>1, ClearedKept DEF Asked
<1>3. \A x : Replaced(x)' = Replaced(x) /\ AskedOnce(x)' = AskedOnce(x) /\ Stored(x)' = Stored(x)
  BY <1>1 DEF Replaced, AskedOnce, Stored
<1>4. ASSUME NEW x, NEW v, Agrees(x, v) PROVE Agrees(x, v)'
  BY <1>3, <1>4 DEF Agrees, EndsWith
<1>5. CASE Hide
  <2>1. /\ ~loading /\ loading' = loading /\ frozen' = TRUE /\ copy' = copy /\ cut' = cut
        /\ \/ type = "sets" /\ cached' = cached \cup DOMAIN sets \cup texts /\ sets' = <<>>
           \/ type # "sets" /\ cached' = cached /\ sets' = sets
    BY <1>5 DEF Hide
  <2>2. DOMAIN sets' = {} /\ cached \cup DOMAIN sets \subseteq cached'
    BY <1>0, <2>1, NoResults DEF Marked
  <2>3. DoneIsFinal'
    BY <1>0, <1>1, <2>1, <2>2, FinalKept
  <2>4. Copied' /\ LoadsMarked' /\ ShowsStored'
    BY <1>0, <2>1 DEF Copied, LoadsMarked, ShowsStored
  <2>5. Homeless'
    BY <1>0, <1>1, <1>3, <2>1, <2>2 DEF Homeless
  <2> QED
    BY <1>2, <2>3, <2>4, <2>5 DEF StoreInv
<1>6. CASE Show
  <2>1. /\ frozen /\ ~frozen' /\ ~loading
        /\ \/ cached # {} /\ loading' = TRUE /\ \E x \in cached : copy' = With(<<>>, x, Stored(x))
           \/ cached = {} /\ loading' = loading /\ copy' = copy
        /\ UNCHANGED <<sets, cached, cut>>
    BY <1>0, <1>6 DEF Show, Marked
  <2>2. \A x \in DOMAIN copy' : copy'[x] = Stored(x)
    <3>1. ASSUME NEW i, copy' = With(<<>>, i, Stored(i)) PROVE \A x \in DOMAIN copy' : copy'[x] = Stored(x)
      <4>1. SetAt(<<>>, i, Stored(i), copy')
        BY <3>1, WithAt
      <4> QED
        BY <4>1 DEF SetAt
    <3> QED
      BY <1>0, <2>1, <3>1 DEF LoadsMarked
  <2>3. Copied'
    BY <1>3, <2>2, AgreesAsStored, <1>1 DEF Copied, Agrees
  <2>4. DoneIsFinal'
    <3>1. \A x \in DOMAIN copy' : copy'[x].done => Final(x)'
      <4>1. ASSUME NEW x \in DOMAIN copy', copy'[x].done PROVE Final(x)'
        <5>1. x \in DOMAIN stored /\ stored[x].done
          BY <2>2, <4>1 DEF Stored
        <5>2. x \in Ids
          BY <1>0, <5>1 DEF Shows, IsResults
        <5>3. Final(x)
          BY <1>0, <5>1 DEF DoneIsFinal
        <5> QED
          BY <5>2, <5>3, FinalStays
      <4> QED
        BY <4>1
    <3> QED
      BY <1>0, <1>1, <2>1, <3>1, FinalKept
  <2>5. LoadsMarked' /\ Homeless'
    BY <1>0, <1>1, <1>3, <2>1 DEF LoadsMarked, Homeless
  <2>6. ShowsStored'
    BY <1>0, <2>1 DEF ShowsStored, Marked
  <2> QED
    BY <1>2, <2>3, <2>4, <2>5, <2>6 DEF StoreInv
<1>7. CASE ReadNext
  <2>1. PICK i \in cached \ DOMAIN copy : copy' = With(copy, i, Stored(i))
    BY <1>7 DEF ReadNext
  <2>2. loading /\ UNCHANGED <<sets, cached, cut, frozen, loading>>
    BY <1>7 DEF ReadNext, viewVars
  <2>3. SetAt(copy, i, Stored(i), copy')
    BY <2>1, WithAt
  <2>4. Copied'
    <3>1. ASSUME NEW x \in DOMAIN copy', x \notin cut' PROVE Replaced(x)' \/ Agrees(x, copy[x])'
      <4>1. CASE x = i
        BY <1>1, <1>3, <2>3, <4>1, AgreesAsStored DEF SetAt, Agrees
      <4>2. CASE x # i
        <5>1. x \in DOMAIN copy /\ copy'[x] = copy[x]
          BY <2>3, <3>1, <4>2 DEF SetAt
        <5>2. PICK v : v = copy[x]
          OBVIOUS
        <5>3. Replaced(x) \/ Agrees(x, v)
          BY <1>0, <2>2, <3>1, <5>1, <5>2 DEF Copied
        <5> QED
          BY <1>3, <1>4, <5>1, <5>2, <5>3
      <4> QED
        BY <4>1, <4>2
    <3> QED
      BY <3>1 DEF Copied
  <2>5. DoneIsFinal'
    <3>1. ASSUME Stored(i).done PROVE Final(i)'
      <4>1. i \in DOMAIN stored /\ stored[i].done
        BY <3>1 DEF Stored
      <4>2. i \in Ids
        BY <1>0, <4>1 DEF Shows, IsResults
      <4> QED
        BY <1>0, <4>1, <4>2, FinalStays DEF DoneIsFinal
    <3>2. \A x \in DOMAIN copy' : \/ x \in DOMAIN copy /\ copy'[x] = copy[x]
                                  \/ copy'[x].done => Final(x)'
      BY <2>3, <3>1 DEF SetAt
    <3> QED
      BY <1>0, <1>1, <2>2, <3>2, FinalKept
  <2>6. LoadsMarked' /\ Homeless' /\ ShowsStored'
    BY <1>0, <1>1, <1>3, <2>2 DEF LoadsMarked, Homeless, ShowsStored
  <2> QED
    BY <1>2, <2>4, <2>5, <2>6 DEF StoreInv
<1>8. CASE Restore
  BY <1>8, RestoreKept
<1> QED
  BY <1>5, <1>6, <1>7, <1>8 DEF TabStep

LEMMA StoreInvKept ==
    ASSUME IInv, Fresh, PageJobs, StoreInv, [Next]_vars PROVE StoreInv'
<1>0. ExecInv /\ replace \subseteq Pages /\ Pages \subseteq Procs
  BY TwoParts DEF ExecInv, ExecTyped, Procs
<1>1. CASE UNCHANGED vars
  <2>1. UNCHANGED <<pc, job, sub, sets, copy, cached, stored, frozen, loading, cut, replace>>
    BY <1>1 DEF vars, procVars, viewVars, tabVars
  <2> QED
    BY <2>1, QuietKept DEF Clearing, Asked
<1>2. ASSUME NEW r \in Runs, Run(r) \/ HistoryStored(r) \/ ClearEnds(r) PROVE StoreInv'
  BY <1>2, ClearStartsKept, ClearEndsKept
<1>3. ASSUME NEW p \in Pages, ShowPage(p) PROVE StoreInv'
  BY <1>3, ShowPageKept
<1>4. ASSUME NEW p \in Procs, Execute(p) PROVE StoreInv'
  BY <1>4, ExecuteKept
<1>5. ASSUME NEW d, Brings(d) PROVE StoreInv'
  BY <1>5, DataKept
<1>6. ASSUME NEW p \in Procs, NEW last \in BOOLEAN, NEW some \in BOOLEAN, OnData(p, last, some)
      PROVE  StoreInv'
  <2>1. CASE ~Waits(p, last, some)
    BY <1>5, <1>6, <2>1, DataBrings
  <2>2. CASE Waits(p, last, some)
    <3>1. UNCHANGED <<pc, sub, sets, copy, cached, stored, frozen, loading, cut, replace>>
      BY <1>6, <2>2, OnDataDoes DEF viewVars
    <3> QED
      BY <3>1, QuietKept DEF Clearing, Asked
  <2> QED
    BY <2>1, <2>2
<1>7. ASSUME NEW d \in held, MetaDataCome(d) PROVE StoreInv'
  BY <1>5, <1>7, DataBrings
<1>8. ASSUME NEW p \in Procs, Finish(p) \/ Fail(p) PROVE StoreInv'
  <2>1. /\ UNCHANGED <<job, sub, sets, copy, cached, stored, frozen, loading>>
        /\ cut \subseteq cut' /\ replace' \subseteq replace
        /\ \A q \in replace : q \in replace' \/ job[q].old \in cut'
        /\ IsServed(p) /\ \E m : m \notin {"clear", "clear again"} /\ pc' = [pc EXCEPT ![p] = m]
    <3>1. CASE Finish(p)
      BY <3>1 DEF Finish, NextStatement, IsServed, viewVars, tabVars
    <3>2. CASE Fail(p)
      <4>1. /\ UNCHANGED <<job, sub, sets, copy, cached, stored, frozen, loading>>
            /\ cut' = IF p \in replace THEN cut \cup {job[p].old} ELSE cut
            /\ replace' = replace \ {p} /\ IsServed(p)
            /\ \E s \in BOOLEAN : NextStatement(p, s)
        BY <3>2 DEF Fail, IsServed, viewVars, tabVars
      <4>2. \E m : m \notin {"clear", "clear again"} /\ pc' = [pc EXCEPT ![p] = m]
        BY <4>1 DEF NextStatement
      <4> QED
        BY <4>1, <4>2
    <3> QED
      BY <1>8, <3>1, <3>2
  <2>2. pc[p] = "execute" /\ pc \in [Procs -> Modes]
    BY <1>0, <2>1, ServedWaits DEF ExecInv, ExecTyped
  <2>3. \A q \in Procs : q # p => pc'[q] = pc[q]
    BY <2>1, <2>2
  <2>4. Clearing => Clearing'
    BY <2>2, <2>3 DEF Clearing
  <2>5. ASSUME NEW q \in Pages PROVE Asked(q)' = Asked(q)
    <3>1. ~ShowPage(q) \/ q # p
      BY <2>2 DEF ShowPage
    <3>2. q = p => pc'[q] \in {"execute", "done"}
      BY <2>2, <3>1, PageSteps
    <3> QED
      BY <1>0, <2>2, <2>3, <3>2 DEF Asked
  <2> QED
    BY <2>1, <2>4, <2>5, QuietKept
<1>9. CASE Timer
  <2>1. UNCHANGED <<pc, sub, sets, copy, cached, stored, frozen, loading, cut, replace>>
    BY <1>9 DEF Timer, WaitTimerFires, ShowTimedResult, AddText, procVars, tabVars
  <2> QED
    BY <2>1, QuietKept DEF Clearing, Asked
<1>10. CASE TabStep
  BY <1>10, TabKept
<1> QED
  BY <1>1, <1>2, <1>3, <1>4, <1>6, <1>7, <1>8, <1>9, <1>10 DEF Next, ProcStep, Response

(* What is shown is what the DB holds, whatever runs and page requests     *)
(* overlap, however often the tab is hidden: the rows that are shown are   *)
(* the last ones that were stored, and all of them if no second page was   *)
(* asked for.                                                              *)
THEOREM HidingLosesNothing == Spec => []ShowsStored
<1>1. Init => IInv /\ Fresh /\ PageJobs /\ StoreInv
  <2>1. ASSUME Init PROVE Fresh /\ PageJobs
    BY <2>1 DEF Init, Fresh, PageJobs, Procs
  <2>2. ASSUME Init PROVE StoreInv
    <3>1. DOMAIN sets = {} /\ DOMAIN stored = {} /\ DOMAIN copy = {} /\ cached = {} /\ replace = {}
      BY <2>2, NoResults DEF Init
    <3>2. \A p \in Pages : pc[p] = "new"
      BY <2>2 DEF Init, Procs
    <3> QED
      BY <3>1, <3>2
      DEF StoreInv, DoneIsFinal, Cleared, Asked, LoadsMarked, Copied, Homeless, ShowsStored
  <2> QED
    BY <2>1, <2>2, IInvInit
<1>2. IInv /\ Fresh /\ PageJobs /\ StoreInv /\ [Next]_vars
        => IInv' /\ Fresh' /\ PageJobs' /\ StoreInv'
  BY IInvKept, FreshKept, PageJobsKept, StoreInvKept
<1>3. StoreInv => ShowsStored
  BY DEF StoreInv
<1> QED
  BY <1>1, <1>2, <1>3, PTL DEF Spec
=============================================================================
