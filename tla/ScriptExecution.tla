--------------------------- MODULE ScriptExecution ---------------------------
(***************************************************************************)
(* One block of a notebook, or one script: its code is run statement by    *)
(* statement (ConnectionTab.tsx, SqlQueryExecutor.ts), the responses of    *)
(* the backend are written to the application DB and added to the result   *)
(* area (ExecutionContext.ts, PresentationInterface.tsx), which is frozen  *)
(* while its tab is hidden and restored from the DB afterwards.            *)
(*                                                                         *)
(* The browser runs one handler at a time: an action reaches from one      *)
(* await to the next. A process is a run of the block or a request for     *)
(* another page of a result set; the backend serves the requests in the    *)
(* order they were sent. A result is known by its process, its statement   *)
(* and the number of results this statement finished before.               *)
(***************************************************************************)
EXTENDS Integers, Sequences, FiniteSets, Functions

CONSTANTS
    MaxRuns,      \* bound: runs of the block
    MaxPages,     \* bound: requests for another page
    Budgets,      \* bound: how many runs, pages and times the tab is hidden,
                  \* and how many data responses a result has
    Jobs,         \* what may be run: statements, stopOnErrors, asText
    MaxPackets,   \* bound: data responses of one result
    MaxSets       \* bound: results of one call

(* A select from one table, which is updatable; one which leaves out the   *)
(* primary key, as its first columns tell; another select; a statement     *)
(* without rows; a call, which has one or more results.                    *)
Selects == {"table", "keyless", "query"}
Kinds == Selects \cup {"update", "call"}

NoId == <<>>

ASSUME ExecutionAssumption ==
    /\ Jobs \subseteq [script : Seq(Kinds) \ {<<>>}, stop : BOOLEAN, text : BOOLEAN,
                      old : {NoId}]
    /\ MaxPackets \in Nat \ {0}
    /\ MaxSets \in Nat \ {0}
    /\ Budgets \subseteq [run : Nat, page : Nat, hide : Nat, packets : Nat]
    /\ MaxRuns \in Nat /\ MaxPages \in Nat

Runs == 1..MaxRuns
Pages == MaxRuns + 1 .. MaxRuns + MaxPages
Procs == Runs \cup Pages
SummaryId == <<"">>   \* the result id "" of a script's closing line
NoAnswer == [set |-> 0, n |-> 0, done |-> FALSE]

(* Map f, with value v at id.                                              *)
With(f, id, v) == [x \in DOMAIN f \cup {id} |-> IF x = id THEN v ELSE f[x]]

VARIABLES
    \* the executor
    pc,          \* the await each process is at
    job,         \* its statements, its options and its oldResultId
    pos,         \* the statement it is at
    sub,         \* results it finished, per statement
    replace,     \* page requests whose next data replace the old page
    \* the requests at the backend
    queue,
    answer,      \* of the first one: result, packets of it so far, its summary
    held,        \* onData callbacks that wait for meta data
    mixed,       \* history: results whose packets or pages got mixed, and why
    pending,     \* addTimedResult: what the timer of each id has to show
    \* the presentation
    state,       \* loadingState
    waitTimer,
    type,        \* resultData.type
    sets,        \* resultData.sets: by id, its packets and execution info
    texts,       \* empty results in the output, by id
    notes,       \* timed results in the output
    \* the context and the DB
    frozen,
    cached,      \* cachedResultIds
    loading,     \* loadResultSets is under way
    copy,        \* what it has read
    stored,      \* the DB: by id, the packets and execution info
    cut,         \* results which miss data in the result area, or in the DB
    budget       \* the commands the user still gives

procVars == <<pc, job, pos, sub, replace>>
backendVars == <<queue, answer>>
viewVars == <<state, waitTimer, type, sets, texts, notes>>
tabVars == <<frozen, loading, copy>>
vars == <<procVars, backendVars, held, mixed, pending, viewVars, tabVars, cached, stored, cut,
          budget>>

Init ==
    /\ pc = [p \in Procs |-> "new"]
    /\ job = [p \in Procs |-> [script |-> <<>>, stop |-> FALSE, text |-> FALSE,
                               old |-> NoId]]
    /\ pos = [p \in Procs |-> 0]
    /\ sub = [p \in Procs |-> <<>>]
    /\ replace = {}
    /\ queue = <<>> /\ answer = NoAnswer
    /\ held = {} /\ mixed = {} /\ pending = <<>>
    /\ state = "idle" /\ waitTimer = FALSE
    /\ type = "none" /\ sets = <<>> /\ texts = {} /\ notes = {}
    /\ frozen = FALSE /\ cached = {} /\ loading = FALSE /\ copy = <<>>
    /\ stored = <<>> /\ cut = {} /\ budget \in Budgets

-----------------------------------------------------------------------------
(* The presentation                                                        *)

(* A command of the user.                                                  *)
Command(c) == budget[c] > 0 /\ budget' = [budget EXCEPT ![c] = @ - 1]

Clearing == \E p \in Procs : pc[p] \in {"clear", "clear again"}

(* clearResult up to its await: the stored data of everything shown goes.  *)
(* What is being loaded will nevertheless be shown.                        *)
ClearStarts ==
    /\ cut' = cut \cup DOMAIN copy
    /\ state' = "idle" /\ waitTimer' = FALSE
    /\ stored' = IF type = "sets"
                 THEN Restrict(stored, DOMAIN stored \ (DOMAIN sets \cup texts))
                 ELSE stored

(* What data do to the state when they arrive. "absent" data have no key   *)
(* executionInfo; those of a packet have it, defined or not.               *)
StateOnArrival(info) ==
    IF ~waitTimer /\ state \notin {"waiting", "loading"} THEN state
    ELSE IF type = "none" /\ info # "absent" THEN "idle" ELSE "loading"

AllFinished == \A id \in DOMAIN sets' : sets'[id].done

\* Mutant of AddRows: data of another statement do not end the loading state.
AddRowsStillLoading(id, packet, last, isSelect, replaces) ==
    LET isNew == id \notin DOMAIN sets
        asText == packet = <<>> /\ (type = "text" \/ (isNew /\ ~isSelect))
        set == IF isNew THEN [rows |-> packet, done |-> last]
               ELSE [rows |-> IF replaces THEN packet ELSE sets[id].rows \o packet,
                     done |-> sets[id].done \/ last]
    IN  /\ waitTimer' = FALSE
        /\ IF asText
           THEN /\ texts' = texts \cup {id} /\ sets' = sets
                /\ type' = IF type = "none" THEN "text" ELSE type
           ELSE /\ sets' = With(sets, id, set) /\ type' = "sets" /\ texts' = texts
        /\ state' = StateOnArrival("given")
        /\ notes' = notes

(* addResultData for the rows of a packet.                                 *)
AddRows(id, packet, last, isSelect, replaces) ==
    LET isNew == id \notin DOMAIN sets
        asText == packet = <<>> /\ (type = "text" \/ (isNew /\ ~isSelect))
        set == IF isNew THEN [rows |-> packet, done |-> last]
               ELSE [rows |-> IF replaces THEN packet ELSE sets[id].rows \o packet,
                     done |-> sets[id].done \/ last]
    IN  /\ waitTimer' = FALSE
        /\ IF asText
           THEN /\ texts' = texts \cup {id} /\ sets' = sets
                /\ type' = IF type = "none" THEN "text" ELSE type
           ELSE /\ sets' = With(sets, id, set) /\ type' = "sets" /\ texts' = texts
        /\ state' = IF type # "none" /\ (type' = "sets" => AllFinished)
                    THEN "idle" ELSE StateOnArrival("given")
        /\ notes' = notes

(* addResultData for text.                                                 *)
AddText(note) ==
    /\ waitTimer' = FALSE
    /\ state' = IF type = "text" /\ note.info = "given" THEN "idle"
                ELSE StateOnArrival(note.info)
    /\ type' = IF type = "none" THEN "text" ELSE type
    /\ notes' = notes \cup {note}
    /\ UNCHANGED <<sets, texts>>

ExecutionStarts ==
    /\ IF waitTimer \/ state # "idle"
       THEN UNCHANGED <<state, waitTimer>>
       ELSE state' = "pending" /\ waitTimer' = TRUE
    /\ UNCHANGED <<type, sets, texts, notes>>

WaitTimerFires ==
    /\ waitTimer
    /\ waitTimer' = FALSE /\ state' = "waiting"
    /\ UNCHANGED <<procVars, backendVars, held, mixed, pending, type, sets, texts, notes,
                   tabVars, cached, stored, cut, budget>>

-----------------------------------------------------------------------------
(* Runs                                                                    *)

(* handleExecution clears the results, stores the code in the history and  *)
(* has runSQLCode clear the results once more.                             *)
Clear(p, waits, next) ==
    /\ ClearStarts
    /\ pc' = [pc EXCEPT ![p] = IF type = "none" THEN next ELSE waits]

Run(r) ==
    /\ pc[r] = "new" /\ ~frozen /\ Command("run")
    /\ \E j \in Jobs :
          /\ job' = [job EXCEPT ![r] = j]
          /\ sub' = [sub EXCEPT ![r] = [k \in 1..Len(j.script) |-> 0]]
    /\ pos' = [pos EXCEPT ![r] = 1]
    /\ Clear(r, "clear", "history")
    /\ UNCHANGED <<replace, backendVars, held, mixed, pending, type, sets, texts,
                   notes, tabVars, cached>>

HistoryStored(r) ==
    /\ pc[r] = "history"
    /\ Clear(r, "clear again", "prepare")
    /\ UNCHANGED <<job, pos, sub, replace, backendVars, held, mixed, pending, type,
                   sets, texts, notes, tabVars, cached, budget>>

(* The rest of clearResult. Data that came meanwhile are dropped, but      *)
(* stay in the DB.                                                         *)
ClearEnds(r) ==
    /\ cut' = cut \cup DOMAIN stored
    /\ \/ pc[r] = "clear" /\ pc' = [pc EXCEPT ![r] = "history"]
       \/ pc[r] = "clear again" /\ pc' = [pc EXCEPT ![r] = "prepare"]
    /\ type' = "none" /\ sets' = <<>> /\ texts' = {} /\ notes' = {}
    /\ UNCHANGED <<job, pos, sub, replace, backendVars, held, mixed, pending, state,
                   waitTimer, tabVars, cached, stored, budget>>

(* sqlShowDataAtPage                                                       *)
ShowPage(p) ==
    /\ pc[p] = "new" /\ ~frozen /\ Command("page")
    /\ \E id \in DOMAIN sets :
          LET kind == job[id[1]].script[id[2]] IN
          /\ sets[id].done /\ kind \in Selects
          /\ job' = [job EXCEPT ![p] = [@ EXCEPT !.script = <<kind>>, !.old = id]]
    /\ sub' = [sub EXCEPT ![p] = <<0>>]
    /\ pos' = [pos EXCEPT ![p] = 1]
    /\ pc' = [pc EXCEPT ![p] = "prepare"]
    /\ UNCHANGED <<replace, backendVars, held, mixed, pending, viewVars, tabVars,
                   cached, stored, cut>>

(* The data of a page are not all handled.                                 *)
Fetching(q) == pc[q] = "execute" \/ q \in replace \/ \E d \in held : d.proc = q

(* History: another page of the same result is still being fetched.        *)
PagesMixed(p) ==
    {<<"pages", job[p].old>> : q \in {q \in Pages \ {p} :
                                         job[q].old = job[p].old /\ Fetching(q)}}

\* Mutant of Execute: the data of the old page stay in the DB.
ExecuteKeepsOldPage(p) ==
    /\ pc[p] = "prepare"
    /\ pc' = [pc EXCEPT ![p] = "execute"]
    /\ queue' = Append(queue, p)
    /\ replace' = IF job[p].old # NoId THEN replace \cup {p} ELSE replace
    /\ mixed' = mixed \cup PagesMixed(p)
    /\ ExecutionStarts
    /\ UNCHANGED <<job, pos, sub, answer, held, pending, tabVars, cached, stored, cut,
                   budget>>

(* doExecution up to the call of the backend, once the statement is        *)
(* analyzed.                                                               *)
Execute(p) ==
    /\ pc[p] = "prepare"
    /\ pc' = [pc EXCEPT ![p] = "execute"]
    /\ queue' = Append(queue, p)
    /\ IF job[p].old # NoId
       THEN /\ replace' = replace \cup {p}
            /\ stored' = Restrict(stored, DOMAIN stored \ {job[p].old})
       ELSE UNCHANGED <<replace, stored>>
    /\ mixed' = mixed \cup PagesMixed(p)
    /\ ExecutionStarts
    /\ UNCHANGED <<job, pos, sub, answer, held, pending, tabVars,
                   cached, cut, budget>>

\* Mutant of NextStatement: an error that stops the run leaves its promise open.
NextStatementHangs(p, stops) ==
    /\ pos' = IF pos[p] < Len(job[p].script) /\ ~stops
              THEN [pos EXCEPT ![p] = @ + 1] ELSE pos
    /\ pc' = CASE stops -> pc
               [] pos[p] < Len(job[p].script) -> [pc EXCEPT ![p] = "prepare"]
               [] OTHER -> [pc EXCEPT ![p] = "done"]

(* A statement is done: the next one, or the script's closing line.        *)
NextStatement(p, stops) ==
    IF pos[p] < Len(job[p].script) /\ ~stops
    THEN /\ pos' = [pos EXCEPT ![p] = @ + 1]
         /\ pc' = [pc EXCEPT ![p] = "prepare"]
    ELSE /\ pos' = pos
         /\ pc' = [pc EXCEPT ![p] = "done"]

-----------------------------------------------------------------------------
(* Responses                                                               *)

Pending(id) == IF id \in DOMAIN pending THEN pending[id] ELSE <<>>

(* The line a script of several statements ends with.                      *)
WithClosingLine(p, f) ==
    IF pc'[p] = "done" /\ p \in Runs /\ Len(job[p].script) > 1
    THEN With(f, SummaryId, Append(Pending(SummaryId),
                                   [id |-> SummaryId, n |-> 0, info |-> "absent"]))
    ELSE f

\* Mutant of ResultId: a call does not renew the id with each result.
ResultIdOfStatement(p, k) == IF job[p].old # NoId THEN job[p].old ELSE <<p, k, 0>>

(* The resultId of the data of a statement.                                *)
ResultId(p, k) ==
    IF job[p].old # NoId /\ sub[p][k] = 0 THEN job[p].old ELSE <<p, k, sub[p][k]>>

(* Data which arrive while a clear waits, or while the results are loaded  *)
(* and their own were read before or will not be.                          *)
Races(id) == Clearing \/ (loading /\ (id \in DOMAIN copy \/ id \notin cached))

Stored(id) == IF id \in DOMAIN stored THEN stored[id] ELSE [rows |-> <<>>, done |-> FALSE]

(* The last packet of d's statement, or its error, is behind it.           *)
IsLate(d) == ~d.last /\ (pc[d.proc] = "done" \/ pos[d.proc] # d.pos)

(* History: a packet is handled late, or while an earlier one of its       *)
(* statement waits for meta data, which then goes to this result or, after *)
(* its end, to the next.                                                   *)
PacketsMixed(d) ==
    {<<"packets", id>> : id \in {id \in {ResultId(d.proc, d.pos),
                                       <<d.proc, d.pos, sub[d.proc][d.pos] + 1>>} :
        \/ IsLate(d)
        \/ \E e \in held : e.proc = d.proc /\ e.pos = d.pos /\ e.n < d.n}}

(* The callback onData, or the rest of it after the meta data came.        *)
Present(d) ==
    LET id == ResultId(d.proc, d.pos)
        packet == IF d.some THEN <<[proc |-> d.proc, set |-> d.set, n |-> d.n]>> ELSE <<>>
        isSelect == job[d.proc].script[d.pos] \in Selects
    IN  /\ IF job[d.proc].text
           THEN /\ pending' = With(pending, id, Append(Pending(id),
                      [id |-> id, n |-> d.n,
                       info |-> IF d.last THEN "given" ELSE "undefined"]))
                /\ UNCHANGED <<viewVars, cached, stored, cut>>
           ELSE /\ stored' = With(stored, id, [rows |-> Stored(id).rows \o packet,
                                               done |-> Stored(id).done \/ d.last])
                /\ AddRows(id, packet, d.last, isSelect, d.proc \in replace)
                /\ cached' = IF frozen THEN cached \cup {id} ELSE cached
                /\ cut' = IF Races(id) THEN cut \cup {id} ELSE cut
                /\ UNCHANGED pending
        /\ sub' = IF d.last THEN [sub EXCEPT ![d.proc][d.pos] = @ + 1] ELSE sub
        /\ replace' = replace \ {d.proc}
        /\ mixed' = mixed \cup PacketsMixed(d)

(* A packet without columns, when the row count is not known or zero.      *)
LooksEmpty(d) == IF d.n = 1 THEN ~d.some ELSE ~d.last

(* While a select is taken to be updatable, the handling of a packet that  *)
(* looks empty asks for the meta data of the table first.                  *)
NeedsMetaData(d) ==
    LET kind == job[d.proc].script[d.pos] IN
    LooksEmpty(d) /\ (kind = "table" \/ (kind = "keyless" /\ d.n = 1))

(* A packet of the request in progress.                                    *)
OnData(p, last, some) ==
    /\ queue # <<>> /\ p = Head(queue)
    /\ LET kind == job[p].script[pos[p]]
           next == IF answer.done THEN [set |-> answer.set + 1, n |-> 1, done |-> last]
                   ELSE [answer EXCEPT !.n = @ + 1, !.done = last]
           d == [proc |-> p, pos |-> pos[p], set |-> next.set, n |-> next.n,
                 last |-> last, some |-> some]
       IN  /\ answer.done => kind = "call" /\ next.set < MaxSets
           /\ ~last => some /\ next.n < MaxPackets /\ next.n < budget.packets
           /\ ~some => next.n = 1
           /\ kind = "update" => last /\ ~some
           /\ answer' = next
           /\ IF NeedsMetaData(d)
              THEN held' = held \cup {d}
                   /\ UNCHANGED <<mixed, pending, sub, replace, viewVars, cached, stored, cut>>
              ELSE held' = held /\ Present(d)
    /\ UNCHANGED <<pc, job, pos, queue, tabVars, budget>>

MetaDataCome(d) ==
    /\ d \in held /\ held' = held \ {d}
    /\ Present(d)
    /\ UNCHANGED <<pc, job, pos, backendVars, tabVars, budget>>

Dequeue == queue' = Tail(queue) /\ answer' = NoAnswer

(* The promise of execute resolves ...                                     *)
Finish(p) ==
    /\ queue # <<>> /\ p = Head(queue) /\ answer.done
    /\ Dequeue
    /\ NextStatement(p, FALSE)
    /\ pending' = WithClosingLine(p, pending)
    /\ UNCHANGED <<job, sub, replace, held, mixed, viewVars, tabVars, cached,
                   stored, cut, budget>>

\* Mutant of Fail: the error is not shown.
FailSilently(p) ==
    /\ queue # <<>> /\ p = Head(queue)
    /\ answer.done => job[p].script[pos[p]] = "call" /\ answer.set + 1 < MaxSets
    /\ Dequeue
    /\ NextStatement(p, job[p].stop \/ p \in Pages)
    /\ pending' = WithClosingLine(p,
           Restrict(pending, DOMAIN pending \ {ResultId(p, pos[p])}))
    /\ cut' = IF p \in replace THEN cut \cup {job[p].old} ELSE cut
    /\ replace' = replace \ {p}
    /\ UNCHANGED <<job, sub, held, mixed, viewVars, tabVars, cached, stored, budget>>

(* ... or it is rejected, also because the query was killed. Text which    *)
(* still waits for the timer is dropped for the error.                     *)
Fail(p) ==
    /\ queue # <<>> /\ p = Head(queue)
    /\ answer.done => job[p].script[pos[p]] = "call" /\ answer.set + 1 < MaxSets
    /\ Dequeue
    /\ NextStatement(p, job[p].stop \/ p \in Pages)
    /\ LET id == ResultId(p, pos[p]) IN
       pending' = WithClosingLine(p,
           With(pending, id, <<[id |-> id, n |-> 0, info |-> "given"]>>))
    /\ cut' = IF p \in replace THEN cut \cup {job[p].old} ELSE cut
    /\ replace' = replace \ {p}
    /\ UNCHANGED <<job, sub, held, mixed, viewVars, tabVars, cached, stored, budget>>

\* Mutant of ShowTimedResult: a timer without results stays.
ShowTimedResultKeepsTimer(id) ==
    /\ id \in DOMAIN pending
    /\ pending[id] # <<>> /\ AddText(Head(pending[id]))
    /\ pending' = [pending EXCEPT ![id] = Tail(@)]
    /\ UNCHANGED <<procVars, backendVars, held, mixed, tabVars, cached, stored, cut, budget>>

(* The timer of addTimedResult                                             *)
ShowTimedResult(id) ==
    /\ id \in DOMAIN pending
    /\ AddText(Head(pending[id]))
    /\ pending' = IF Len(pending[id]) = 1
                  THEN Restrict(pending, DOMAIN pending \ {id})
                  ELSE [pending EXCEPT ![id] = Tail(@)]
    /\ UNCHANGED <<procVars, backendVars, held, mixed, tabVars, cached, stored, cut, budget>>

-----------------------------------------------------------------------------
(* Hiding the tab and showing it again                                     *)

Hide ==
    /\ ~frozen /\ ~loading /\ Command("hide")
    /\ frozen' = TRUE
    /\ IF type = "sets"
       THEN cached' = cached \cup DOMAIN sets \cup texts /\ sets' = <<>>
       ELSE UNCHANGED <<cached, sets>>
    /\ UNCHANGED <<procVars, backendVars, held, mixed, pending, state, waitTimer, type, texts,
                   notes, loading, copy, stored, cut>>

(* activate: the first read is issued. Without results to load, what is    *)
(* there is set again.                                                     *)
Show ==
    /\ frozen
    /\ frozen' = FALSE
    /\ IF cached # {}
       THEN /\ loading' = TRUE
            /\ \E id \in cached : copy' = With(<<>>, id, Stored(id))
            /\ UNCHANGED waitTimer
       ELSE /\ waitTimer' = (waitTimer /\ type = "none")
            /\ UNCHANGED <<loading, copy>>
    /\ UNCHANGED <<procVars, backendVars, held, mixed, pending, state, type, sets, texts,
                   notes, budget, cached, stored, cut>>

(* loadResultSets: a read is done, the next is issued ...                  *)
ReadNext ==
    /\ loading
    /\ \E id \in cached \ DOMAIN copy : copy' = With(copy, id, Stored(id))
    /\ UNCHANGED <<procVars, backendVars, held, mixed, pending, viewVars, frozen, loading,
                   budget, cached, stored, cut>>

(* ... and setResult with everything that was read and has rows. The output*)
(* is kept if there were result sets.                                      *)
Lost ==
    {id \in DOMAIN copy : copy[id].rows = <<>> /\ (type # "sets" \/ id \notin texts)}
    \cup IF type = "sets" THEN {} ELSE texts \cup {note.id : note \in notes}

Restore ==
    /\ loading /\ cached \subseteq DOMAIN copy
    /\ waitTimer' = FALSE
    /\ sets' = RestrictValues(copy, LAMBDA set : set.rows # <<>>)
    /\ type' = "sets"
    /\ IF type = "sets" THEN UNCHANGED <<texts, notes>> ELSE texts' = {} /\ notes' = {}
    /\ cut' = cut \cup Lost
    /\ cached' = {} /\ loading' = FALSE /\ copy' = <<>>
    /\ UNCHANGED <<procVars, backendVars, held, mixed, pending, state, frozen, budget,
                   stored>>

-----------------------------------------------------------------------------
ProcStep ==
    \/ \E r \in Runs : Run(r) \/ HistoryStored(r) \/ ClearEnds(r)
    \/ \E p \in Pages : ShowPage(p)
    \/ \E p \in Procs : Execute(p)

Response ==
    \E p \in Procs : \/ \E last, some \in BOOLEAN : OnData(p, last, some)
                     \/ Finish(p) \/ Fail(p)

Timer == WaitTimerFires \/ \E id \in DOMAIN pending : ShowTimedResult(id)

TabStep == Hide \/ Show \/ ReadNext \/ Restore

Next == ProcStep \/ Response \/ (\E d \in held : MetaDataCome(d)) \/ Timer \/ TabStep

(* Everything but the user's commands: the browser resumes what waits and  *)
(* fires timers, the backend serves what it was sent.                      *)
Fairness ==
    /\ \A r \in Runs : WF_vars(HistoryStored(r)) /\ WF_vars(ClearEnds(r))
    /\ \A p \in Procs : WF_vars(Execute(p))
    /\ WF_vars(Response) /\ WF_vars(\E d \in held : MetaDataCome(d))
    /\ WF_vars(WaitTimerFires)
    /\ WF_vars(\E id \in DOMAIN pending : ShowTimedResult(id))
    /\ WF_vars(ReadNext) /\ WF_vars(Restore)

Spec == Init /\ [][Next]_vars /\ Fairness

-----------------------------------------------------------------------------
(* Properties                                                              *)

Ids == Procs \X Nat \X Nat
Packets == [proc : Procs, set : Nat, n : Nat \ {0}]
IsResults(f) ==
    /\ DOMAIN f \subseteq Ids
    /\ \A id \in DOMAIN f : f[id] \in [rows : Seq(Packets), done : BOOLEAN]
Notes == [id : Ids \cup {SummaryId}, n : Nat, info : {"absent", "undefined", "given"}]

TypeOK ==
    /\ pc \in [Procs -> {"new", "clear", "history", "clear again", "prepare",
                         "execute", "done"}]
    /\ \A p \in Procs :
          /\ job[p].script \in Seq(Kinds) /\ job[p].old \in Ids \cup {NoId}
          /\ pos[p] \in 0..Len(job[p].script)
          /\ sub[p] \in [1..Len(job[p].script) -> 0..MaxSets]
    /\ replace \subseteq Pages
    /\ queue \in Seq(Procs)
    /\ answer \in [set : 0..MaxSets - 1, n : 0..MaxPackets, done : BOOLEAN]
    /\ held \subseteq [proc : Procs, pos : Nat, set : Nat, n : 1..MaxPackets,
                       last : BOOLEAN, some : BOOLEAN]
    /\ mixed \subseteq {"packets", "pages"} \X (Ids \cup {NoId})
    /\ \A id \in DOMAIN pending : pending[id] \in Seq(Notes) \ {<<>>}
    /\ state \in {"idle", "pending", "waiting", "loading"}
    /\ waitTimer \in BOOLEAN /\ type \in {"none", "text", "sets"}
    /\ IsResults(sets) /\ IsResults(copy) /\ IsResults(stored)
    /\ texts \subseteq Ids /\ notes \subseteq Notes
    /\ cached \subseteq Ids /\ cut \subseteq Ids \cup {SummaryId}
    /\ frozen \in BOOLEAN /\ loading \in BOOLEAN

(* Nothing is under way for this block any more.                           *)
Quiet ==
    /\ \A p \in Procs : pc[p] \in {"new", "done"}
    /\ held = {} /\ pending = <<>> /\ ~loading

(* Whatever runs, pages and restores overlap: a result set shows the rows  *)
(* of its own result only, in the order they were sent; and without gap,   *)
(* and of one page only. Excepted are results with data that came while a  *)
(* clear or a load waited, those with a packet that overtook one which     *)
(* waited for meta data, and those with pages that were fetched together.  *)
RowsInOrder ==
    \A id \in DOMAIN sets :
       LET r == sets[id].rows IN
       /\ <<"packets", id>> \notin mixed =>
             \A i, j \in DOMAIN r : i < j /\ r[i].proc = r[j].proc =>
                r[i].set = r[j].set /\ r[i].n < r[j].n
       /\ ~frozen /\ ~loading /\ id \notin cut /\ mixed \cap ({"packets", "pages"} \X {id}) = {} =>
             \A i \in 2..Len(r) : /\ r[i].proc = r[i - 1].proc
                                  /\ r[i].n = r[i - 1].n + 1

(* As SqlQueryExecutor.ts says of adding the data directly, without a timer*)
(* ("to ensure proper ordering of data rendering"): the rows of a result   *)
(* set are in the order they were sent.                                    *)
ProperOrder ==
    \A id \in DOMAIN sets \ cut :
       LET r == sets[id].rows IN
       ~frozen /\ ~loading =>
          \A i \in 2..Len(r) : /\ r[i].proc = r[i - 1].proc
                               /\ r[i].n = r[i - 1].n + 1

(* The sequence s ends with the sequence t.                                *)
EndsWith(s, t) ==
    /\ Len(t) <= Len(s)
    /\ \A i \in 1..Len(t) : t[i] = s[Len(s) - Len(t) + i]

(* At most one request asks for another page of the result.               *)
AskedOnce(id) == \A p, q \in Pages : job[p].old = id /\ job[q].old = id => p = q

(* A page of the result is on its way, and the old rows are deleted.       *)
Replaced(id) == \E p \in replace : job[p].old = id

(* The rows of the set are the last ones stored; and all of them, in a set *)
(* as complete as the stored one, unless more than one page is asked for.  *)
Agrees(id, set) ==
    /\ EndsWith(Stored(id).rows, set.rows)
    /\ AskedOnce(id) => /\ Stored(id).rows = set.rows
                        /\ Stored(id).done => set.done

(* What is shown is what the DB holds, so that hiding the tab and showing  *)
(* it again (deactivate, loadResultSets) loses nothing: every shown result *)
(* agrees with the stored one, but for a page that is on its way.          *)
ShowsStored ==
    ~Clearing /\ ~loading /\ ~frozen =>
       \A id \in DOMAIN sets \ cut :
          Replaced(id) \/ (id \in DOMAIN stored /\ Agrees(id, sets[id]))

(* What the block shows, or has kept to show it later.                     *)
Shown ==
    DOMAIN sets \cup texts \cup {note.id : note \in notes} \cup DOMAIN pending
    \cup cached \cup cut \cup {ResultId(d.proc, d.pos) : d \in held}

(* No statement passes silently: each one that is done, answered or failed *)
(* is shown as a set or text, or will be. Two runs that overlap clear each *)
(* other's results.                                                        *)
NoSilentStatement ==
    \A r \in Runs : \A k \in 1..Len(job[r].script) :
       (/\ \A q \in Runs \ {r} : pc[q] = "new"
        /\ k < pos[r] \/ (k = pos[r] /\ pc[r] = "done"))
       => \E id \in Shown \ {SummaryId} : id[1] = r /\ id[2] = k

(* A late packet made a set of its own, which never ends.                  *)
Endless(id) ==
    <<"packets", id>> \in mixed /\ ~(IF id \in DOMAIN sets THEN sets[id] ELSE Stored(id)).done

(* When all is done the block is idle and can be run again. Three ways into*)
(* loading are left without a way out, and excepted: data that came while a*)
(* clear or a load waited; text (an error, say) behind a result set; and a *)
(* packet that waited for meta data until its result or its statement was  *)
(* over.                                                                   *)
SettledIsIdle ==
    /\ Quiet /\ cut = {} /\ (notes = {} \/ type = "text")
    /\ \A id \in DOMAIN sets \cup cached : ~Endless(id)
    => state = "idle"

(* Every run and page request comes to its end, whatever fails: no await   *)
(* waits for ever, no timer or callback is left behind.                    *)
Settles == []<>Quiet
=============================================================================
