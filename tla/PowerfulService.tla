--------------------------- MODULE PowerfulService ---------------------------
(***************************************************************************)
(* The execution engine of one Powerful instance: PowerfulService.execute  *)
(* and what it calls, for several requests that are served at the same     *)
(* time.                                                                   *)
(*                                                                         *)
(* A request r is served by a thread of the web container, which the model *)
(* calls r as well.  An instruction with times > 1 and threads > 1 is cut  *)
(* into subtasks for the pool that all requests share; otherwise the web   *)
(* thread runs every iteration itself, and the model treats its work as    *)
(* subtask 0.  A runner is a thread that executes iterations: a web thread *)
(* or a pool worker.                                                       *)
(*                                                                         *)
(* Three things are shared between threads and modelled step by step: the  *)
(* pool, the trace node of the next hop (Instruction.getNext copies the    *)
(* trace list, not the nodes), and the rendering context, whose result is  *)
(* one slot per thread.                                                    *)
(***************************************************************************)
EXTENDS Integers, Sequences, FiniteSets

CONSTANTS
  Requests,       \* requests to this instance; also their web threads
  Workers,        \* pool threads: maximumPoolSize of them can exist
  CorePoolSize,   \* corePoolSize of the pool
  Instructions,   \* the instructions a request may carry
  MaxThreads,     \* the largest "threads" of an instruction
  Protocols       \* the protocols setInvoker registered in this instance

\* What a node's "call" can hold.  "dubbo" is a template with the dubbo://
\* prefix, "tmpl" a template, "url" the rendered target, "cut" a target that
\* lost eight more characters, "" no target.
Calls == {"dubbo", "tmpl", "url", "cut", ""}

\* What the rendering of a template can come to: a target, nothing, or an
\* exception (an invalid expression, an unknown function).
Outcomes == {"url", "", "throw"}

\* The protocols an instruction can name in "by".
Bys == {"http", "dubbo", "grpc"}

\* The part of a PowerTraceNode that call() reads and rewrites.
Nodes == [call : Calls, by : Bys]

\* How collectBy treats the stream of results: "each" for list, string and
\* stat_ with count, avg or a number; "badstat" for stat_ with anything else;
\* "other" for a name that is none of them; "null" for none at all.
CollectBys == {"each", "badstat", "other", "null"}

Runners == Requests \cup Workers

\* Indexes of subtasks.
Slots == 0 .. (MaxThreads - 1)

ASSUME EngineAssumption ==
  /\ Requests # {}
  /\ Requests \cap Workers = {}
  /\ IsFiniteSet(Workers)
  /\ CorePoolSize \in Nat /\ MaxThreads \in Nat \ {0}
  /\ Instructions \subseteq
       [times : Nat, threads : 0 .. MaxThreads, leaf : BOOLEAN, call : Calls \ {"cut"},
        by : Bys, prep : SUBSET {"ok", "throw"}, renders : SUBSET Outcomes,
        tmplOk : BOOLEAN, rr : Nat, collectBy : CollectBys, headersOk : BOOLEAN]
  /\ \A i \in Instructions : i.prep # {} /\ i.renders # {}

VARIABLES
  ins,       \* ins[r]: the instruction of request r
  node,      \* node[r]: call and by of the next hop's node, shared by r's threads
  http,      \* http[r]: where the web thread of r is
  nsub,      \* nsub[r]: subtasks r handed to the pool
  ncol,      \* ncol[r]: futures r has taken the results of
  fut,       \* fut[r][i]: the future of subtask i
  out,       \* out[r][i]: results subtask i has produced
  results,   \* results[r]: the stream that collectBy consumes
  pool,      \* pool[w]: absent, polling the queue, busy, or leaving a task
  job,       \* job[t]: the subtask <<r, i>> runner t executes
  pc,        \* pc[t]: the next step of runner t in executeSingle
  it,        \* it[t]: the loop index, "executed"
  reg,       \* reg[t]: the String and the invoker t holds in locals
  copy,      \* copy[t]: the node of processLoop's deep copy
  local,     \* local[r][t]: RenderingContext.results of context r in thread t
  sent       \* the invocations made so far: iteration, protocol and target

vars == <<ins, node, http, nsub, ncol, fut, out, results, pool, job, pc, it, reg,
          copy, local, sent>>

webVars  == <<ins, http, nsub, ncol, results>>
taskVars == <<fut, out>>
iterVars == <<node, reg, copy, local, sent>>

-----------------------------------------------------------------------------
(* Instructions and the division of work *)

\* threads > 1 and times > 1: the subtasks go to the pool.
Pooled(r) == ins[r].times > 1 /\ ins[r].threads > 1

\* The subtasks of r; one for a request that its web thread executes.
NumSubs(r) == IF Pooled(r) THEN ins[r].threads ELSE 1

Subs(r) == 0 .. (NumSubs(r) - 1)

\* Mutant: the remainder of the division is dropped.
SubtaskTimesNoRemainder(total, threads, i) == total \div threads

\* The iterations subtask i of "threads" performs, out of "total".
SubtaskTimes(total, threads, i) ==
  (total \div threads) + (IF i < total % threads THEN 1 ELSE 0)

\* The iterations of subtask i of request r.  An instruction with times <= 1
\* is executed once.
Share(r, i) ==
  IF Pooled(r) THEN SubtaskTimes(ins[r].times, ins[r].threads, i)
  ELSE IF ins[r].times > 1 THEN ins[r].times ELSE 1

\* The number of executions a request stands for.
Total(r) == IF ins[r].times > 1 THEN ins[r].times ELSE 1

\* Mutant: only pooled iterations handle their exceptions.
HandleExceptionPooled(r) == Pooled(r)

\* executeSingle's handleException.
HandleException(r) == ins[r].times > 1

\* The response slot of a thread: nothing yet, the message of an exception, or
\* an invoker's answer, with the iteration that wrote it.
Response(kind, r, i, j) == [kind |-> kind, req |-> r, sub |-> i, iter |-> j]

\* The response a context holds for a thread that has written none.
NoResponse(r) == Response("none", r, 0, 0)

Responses ==
  [kind : {"none", "exception", "reply"}, req : Requests, sub : Nat, iter : Nat]

\* One element of the collected stream: the rendered response, the iteration
\* that rendered it and the position its round-robin values were taken from.
Results == [resp : Responses, sub : Nat, iter : Nat, rr : Nat]

\* Mutant: the loop index is divided, not wrapped.
RoundRobinDiv(r, j) == IF ins[r].rr = 0 THEN 0 ELSE j \div ins[r].rr

\* Position of the value processLoop patches in at iteration j.
RoundRobin(r, j) == IF ins[r].rr = 0 THEN 0 ELSE j % ins[r].rr

\* Does collectBy consume the stream of results?
Consumes(r) == ins[r].times <= 1 \/ ins[r].collectBy \in {"each", "badstat"}

\* Does execute return once there is nothing left to take from the stream?  With
\* times > 1 startsWith of no collectBy, the finisher of a stat_ that is not a
\* number and the rendering of a response header may throw.
Returns(r) ==
  ins[r].times > 1 => ins[r].collectBy \notin {"badstat", "null"} /\ ins[r].headersOk

\* Where execute ends.
Outcome(r) == IF Returns(r) THEN "returned" ELSE "failed"

-----------------------------------------------------------------------------
(* The node of the next hop: shared, or private after processLoop's copy *)

NodeOf(t) == IF ins[job[t][1]].rr = 0 THEN node[job[t][1]] ELSE copy[t]

\* Runner t stores n as the node of the next hop.
SetNode(t, n) ==
  IF ins[job[t][1]].rr = 0
  THEN node' = [node EXCEPT ![job[t][1]] = n] /\ UNCHANGED copy
  ELSE copy' = [copy EXCEPT ![t] = n] /\ UNCHANGED node

\* What substring("dubbo://".length()) can leave of a target.
Substring(call) == IF call = "dubbo" THEN {"tmpl"} ELSE {"cut", ""}

\* Mutant: the expression is cut out but nothing replaces it.
RenderedNothing(r, call) == IF call = "tmpl" THEN {"broken"} ELSE {call}

\* StringRenderer.render on a target of r; a cut template can still hold an
\* expression.
Rendered(r, call) ==
  IF call = "tmpl" THEN ins[r].renders
  ELSE IF call = "cut" THEN {"cut"} \cup (ins[r].renders \ {"url"})
  ELSE {call}

\* Mutant: one slot per thread, shared by all contexts (a static ThreadLocal).
SetResultStatic(r, t, resp) == local' = [q \in Requests |-> [local[q] EXCEPT ![t] = resp]]

\* RenderingContext.setResult by thread t: the slot of this context and thread.
SetResult(r, t, resp) == local' = [local EXCEPT ![r][t] = resp]

-----------------------------------------------------------------------------
NoReg == [call |-> "", by |-> "http"]

Init ==
  /\ ins \in [Requests -> Instructions]
  /\ node = [r \in Requests |-> [call |-> ins[r].call, by |-> ins[r].by]]
  /\ http = [r \in Requests |-> "idle"]
  /\ nsub = [r \in Requests |-> 0]
  /\ ncol = [r \in Requests |-> 0]
  /\ fut = [r \in Requests |-> [i \in Slots |-> "none"]]
  /\ out = [r \in Requests |-> [i \in Slots |-> <<>>]]
  /\ results = [r \in Requests |-> <<>>]
  /\ pool = [w \in Workers |-> "absent"]
  /\ job = [t \in Runners |-> <<IF t \in Requests THEN t ELSE CHOOSE r \in Requests : TRUE, 0>>]
  /\ pc = [t \in Runners |-> "off"]
  /\ it = [t \in Runners |-> 0]
  /\ reg = [t \in Runners |-> NoReg]
  /\ copy = [t \in Runners |-> NoReg]
  /\ local = [r \in Requests |-> [t \in Runners |-> NoResponse(r)]]
  /\ sent = {}

-----------------------------------------------------------------------------
(* The web thread: execute and executeForTimes *)

\* A request arrives and execute chooses its path.  The stream of a request
\* that is not pooled is lazy: if collectBy never consumes it, no iteration runs.
Execute(r) ==
  /\ http[r] = "idle"
  /\ \/ /\ Pooled(r)
        /\ http' = [http EXCEPT ![r] = "submit"]
        /\ UNCHANGED <<pc, fut>>
     \/ /\ ~Pooled(r) /\ Consumes(r)
        /\ http' = [http EXCEPT ![r] = "inline"]
        /\ fut' = [fut EXCEPT ![r][0] = "pending"]
        /\ pc' = [pc EXCEPT ![r] = "begin"]
     \/ /\ ~Pooled(r) /\ ~Consumes(r)
        /\ http' = [http EXCEPT ![r] = Outcome(r)]
        /\ UNCHANGED <<pc, fut>>
  /\ UNCHANGED <<ins, node, nsub, ncol, out, results, pool, job, it, reg, copy, local, sent>>

Alive == {w \in Workers : pool[w] # "absent"}

Polling == {w \in Workers : pool[w] = "polling"}

\* Mutant: the pool never grows beyond corePoolSize.
CandidatesCore == IF Cardinality(Alive) >= CorePoolSize THEN Polling ELSE Workers \ Alive

\* The threads ThreadPoolExecutor may give a submitted task to: a new one below
\* corePoolSize, else one that waits on the SynchronousQueue, else a new one.
Candidates ==
  IF Cardinality(Alive) >= CorePoolSize /\ Polling # {} THEN Polling
  ELSE Workers \ Alive

\* threadPool.submit of the next subtask succeeds.
Submit(r) ==
  /\ http[r] = "submit" /\ nsub[r] < NumSubs(r)
  /\ \E w \in Candidates :
       /\ pool' = [pool EXCEPT ![w] = "busy"]
       /\ job' = [job EXCEPT ![w] = <<r, nsub[r]>>]
       /\ pc' = [pc EXCEPT ![w] = "begin"]
       /\ it' = [it EXCEPT ![w] = 0]
  /\ fut' = [fut EXCEPT ![r][nsub[r]] = "pending"]
  /\ nsub' = [nsub EXCEPT ![r] = @ + 1]
  /\ UNCHANGED <<ins, http, ncol, results, out, iterVars>>

\* threadPool.submit throws RejectedExecutionException: execute fails, and the
\* subtasks submitted before keep running.
Reject(r) ==
  /\ http[r] = "submit" /\ nsub[r] < NumSubs(r)
  /\ Candidates = {}
  /\ http' = [http EXCEPT ![r] = "failed"]
  /\ UNCHANGED <<ins, nsub, ncol, results, taskVars, pool, job, pc, it, iterVars>>

\* All subtasks are submitted; without a known collectBy execute returns, or
\* fails, without looking at the futures.
Submitted(r) ==
  /\ http[r] = "submit" /\ nsub[r] = NumSubs(r)
  /\ http' = [http EXCEPT ![r] = IF Consumes(r) THEN "collect" ELSE Outcome(r)]
  /\ UNCHANGED <<ins, nsub, ncol, results, taskVars, pool, job, pc, it, iterVars>>

\* Mutant: the results are taken without waiting for the future.
CollectNoWait(r) ==
  /\ http[r] = "collect" /\ ncol[r] < NumSubs(r)
  /\ results' = [results EXCEPT ![r] = @ \o out[r][ncol[r]]]
  /\ ncol' = [ncol EXCEPT ![r] = @ + 1]
  /\ UNCHANGED <<ins, http, nsub, taskVars, pool, job, pc, it, iterVars>>

\* flatMap: future.get of the next future, in the order of submission.
Collect(r) ==
  /\ http[r] = "collect" /\ ncol[r] < NumSubs(r)
  /\ fut[r][ncol[r]] \in {"value", "exception"}
  /\ IF fut[r][ncol[r]] = "value"
     THEN /\ results' = [results EXCEPT ![r] = @ \o out[r][ncol[r]]]
          /\ ncol' = [ncol EXCEPT ![r] = @ + 1]
          /\ UNCHANGED http
     ELSE /\ http' = [http EXCEPT ![r] = "failed"]
          /\ UNCHANGED <<results, ncol>>
  /\ UNCHANGED <<ins, nsub, taskVars, pool, job, pc, it, iterVars>>

\* The stream is exhausted: execute returns, or fails in the finisher of
\* collectBy or in a response header.
Collected(r) ==
  /\ http[r] = "collect" /\ ncol[r] = NumSubs(r)
  /\ http' = [http EXCEPT ![r] = Outcome(r)]
  /\ UNCHANGED <<ins, nsub, ncol, results, taskVars, pool, job, pc, it, iterVars>>

-----------------------------------------------------------------------------
(* The pool's threads between two tasks *)

\* A worker that left a task waits on the queue again.
Poll(w) ==
  /\ pool[w] = "leaving"
  /\ pool' = [pool EXCEPT ![w] = "polling"]
  /\ UNCHANGED <<webVars, taskVars, job, pc, it, iterVars>>

\* Keep-alive ran out: a worker above corePoolSize ends.
Expire(w) ==
  /\ pool[w] = "polling"
  /\ Cardinality(Alive) > CorePoolSize
  /\ pool' = [pool EXCEPT ![w] = "absent"]
  /\ UNCHANGED <<webVars, taskVars, job, pc, it, iterVars>>

-----------------------------------------------------------------------------
(* One iteration: executeSingle, by a web thread or a worker *)

Goto(t, label) == pc' = [pc EXCEPT ![t] = label]

\* Mutant: a failed subtask ends without completing its future.
EndTaskSilent(t, f) ==
  /\ fut' = [fut EXCEPT ![job[t][1]][job[t][2]] = IF f = "value" THEN f ELSE @]
  /\ Goto(t, "off")
  /\ it' = [it EXCEPT ![t] = 0]
  /\ pool' = [w \in Workers |-> IF w = t THEN "leaving" ELSE pool[w]]
  /\ UNCHANGED http

\* The subtask of runner t ends with its future in state f.  The future of a
\* web thread's "subtask" is execute's own control flow.
EndTask(t, f) ==
  LET r == job[t][1] IN
  /\ fut' = [fut EXCEPT ![r][job[t][2]] = f]
  /\ Goto(t, "off")
  /\ it' = [it EXCEPT ![t] = 0]
  /\ IF t \in Workers
     THEN pool' = [pool EXCEPT ![t] = "leaving"] /\ UNCHANGED http
     ELSE /\ http' = [http EXCEPT ![r] = IF f = "value" THEN "collect" ELSE "failed"]
          /\ UNCHANGED pool

\* Mutant: the exception is only logged.
RaiseLogged(t) == Goto(t, "result") /\ UNCHANGED <<http, fut, pool, it, local>>

\* An exception in executeSingle's try block: with handleException its message
\* becomes the response and the iteration goes on, otherwise execute fails.
Raise(t) ==
  LET r == job[t][1] IN
  IF HandleException(r)
  THEN /\ SetResult(r, t, Response("exception", r, job[t][2], it[t]))
       /\ Goto(t, "result")
       /\ UNCHANGED <<http, fut, pool, it>>
  ELSE /\ EndTask(t, "exception")
       /\ UNCHANGED local

\* Mutant: the loop stops one iteration early.
FinishEarly(t) ==
  /\ pc[t] = "begin" /\ it[t] + 1 >= Share(job[t][1], job[t][2])
  /\ EndTask(t, "value")
  /\ UNCHANGED <<ins, nsub, ncol, results, out, job, iterVars>>

\* The iterations of the subtask are done.
Finish(t) ==
  /\ pc[t] = "begin" /\ it[t] = Share(job[t][1], job[t][2])
  /\ EndTask(t, "value")
  /\ UNCHANGED <<ins, nsub, ncol, results, out, job, iterVars>>

\* Head of an iteration: the wait for qps, processLoop's copy, then
\* doExecuteSingle up to code(): headers, test method, delay, errorByPercent.
Begin(t) ==
  LET r == job[t][1] IN
  /\ pc[t] = "begin" /\ it[t] < Share(r, job[t][2])
  /\ copy' = [copy EXCEPT ![t] = IF ins[r].rr = 0 THEN @ ELSE node[r]]
  /\ \/ /\ "ok" \in ins[r].prep
        /\ Goto(t, IF ins[r].leaf THEN "result" ELSE "check")
        /\ UNCHANGED <<http, fut, pool, it, local>>
     \/ /\ "throw" \in ins[r].prep
        /\ Raise(t)
  /\ UNCHANGED <<ins, nsub, ncol, results, out, job, node, reg, sent>>

\* Mutant: eight characters are cut from every target.
CheckCallAlways(t) ==
  /\ pc[t] = "check"
  /\ Goto(t, "strip")
  /\ UNCHANGED <<webVars, taskVars, pool, job, it, iterVars>>

\* call(): does the target start with dubbo:// ?
CheckCall(t) ==
  /\ pc[t] = "check"
  /\ Goto(t, IF NodeOf(t).call = "dubbo" THEN "strip" ELSE "lookup")
  /\ UNCHANGED <<webVars, taskVars, pool, job, it, iterVars>>

\* call() reads the target again and cuts it, which throws when fewer than
\* eight characters are left.
StripCall(t) ==
  /\ pc[t] = "strip"
  /\ \/ /\ \E c \in Substring(NodeOf(t).call) : reg' = [reg EXCEPT ![t].call = c]
        /\ Goto(t, "stripped")
        /\ UNCHANGED <<http, fut, pool, it, local>>
     \/ /\ NodeOf(t).call # "dubbo"
        /\ Raise(t)
        /\ UNCHANGED reg
  /\ UNCHANGED <<ins, nsub, ncol, results, out, job, node, copy, sent>>

\* node.setCall with what is left.
StoreStripped(t) ==
  /\ pc[t] = "stripped"
  /\ SetNode(t, [NodeOf(t) EXCEPT !.call = reg[t].call])
  /\ Goto(t, "by")
  /\ UNCHANGED <<webVars, taskVars, pool, job, it, reg, local, sent>>

\* node.setBy("dubbo").
StoreBy(t) ==
  /\ pc[t] = "by"
  /\ SetNode(t, [NodeOf(t) EXCEPT !.by = "dubbo"])
  /\ Goto(t, "lookup")
  /\ UNCHANGED <<webVars, taskVars, pool, job, it, reg, local, sent>>

\* invokers.get(node.getBy()).
Lookup(t) ==
  /\ pc[t] = "lookup"
  /\ IF NodeOf(t).by \in Protocols
     THEN /\ reg' = [reg EXCEPT ![t].by = NodeOf(t).by]
          /\ Goto(t, "render")
          /\ UNCHANGED <<http, fut, pool, it, local>>
     ELSE Raise(t) /\ UNCHANGED reg
  /\ UNCHANGED <<ins, nsub, ncol, results, out, job, node, copy, sent>>

\* stringRenderer.render(node.getCall()), which may throw.
RenderCall(t) ==
  /\ pc[t] = "render"
  /\ \E c \in Rendered(job[t][1], NodeOf(t).call) :
       IF c = "throw"
       THEN Raise(t) /\ UNCHANGED reg
       ELSE /\ reg' = [reg EXCEPT ![t].call = c]
            /\ Goto(t, "rendered")
            /\ UNCHANGED <<http, fut, pool, it, local>>
  /\ UNCHANGED <<ins, nsub, ncol, results, out, job, node, copy, sent>>

\* node.setCall with the rendered target, for every thread of the request.
StoreRendered(t) ==
  /\ pc[t] = "rendered"
  /\ SetNode(t, [NodeOf(t) EXCEPT !.call = reg[t].call])
  /\ Goto(t, "target")
  /\ UNCHANGED <<webVars, taskVars, pool, job, it, reg, local, sent>>

\* Is there a target?  Without one nothing is invoked, and the slot keeps what an
\* earlier iteration of this thread left in it.
CheckTarget(t) ==
  /\ pc[t] = "target"
  /\ Goto(t, IF NodeOf(t).call = "" THEN "result" ELSE "invoke")
  /\ UNCHANGED <<webVars, taskVars, pool, job, it, iterVars>>

\* invoker.invoke with what the node holds now: an answer, whatever its status,
\* or an exception.
Invoke(t) ==
  LET r == job[t][1] IN
  /\ pc[t] = "invoke"
  /\ sent' = sent \cup {[req |-> r, sub |-> job[t][2], iter |-> it[t],
                         by |-> reg[t].by, call |-> NodeOf(t).call]}
  /\ \/ /\ SetResult(r, t, Response("reply", r, job[t][2], it[t]))
        /\ Goto(t, "result")
        /\ UNCHANGED <<http, fut, pool, it>>
     \/ Raise(t)
  /\ UNCHANGED <<ins, nsub, ncol, results, out, job, node, reg, copy>>

\* Mutant: an iteration whose template fails is tried again.
RenderResultRetry(t) ==
  /\ pc[t] = "result"
  /\ Goto(t, "begin")
  /\ IF ins[job[t][1]].tmplOk THEN it' = [it EXCEPT ![t] = @ + 1] ELSE UNCHANGED it
  /\ UNCHANGED <<webVars, taskVars, pool, job, iterVars>>

\* The tail of executeSingle, outside its try block: the template is rendered
\* with the response of this context and thread.
RenderResult(t) ==
  LET r == job[t][1]
      i == job[t][2]
  IN
  /\ pc[t] = "result"
  /\ IF ins[r].tmplOk
     THEN /\ out' = [out EXCEPT ![r][i] =
                       Append(@, [resp |-> local[r][t], sub |-> i, iter |-> it[t],
                                  rr |-> RoundRobin(r, it[t])])]
          /\ it' = [it EXCEPT ![t] = @ + 1]
          /\ Goto(t, "begin")
          /\ UNCHANGED <<fut, pool, http>>
     ELSE /\ EndTask(t, "exception")
          /\ UNCHANGED out
  /\ UNCHANGED <<ins, nsub, ncol, results, job, iterVars>>

-----------------------------------------------------------------------------
RunnerStep(t) ==
  \/ Finish(t) \/ Begin(t) \/ CheckCall(t) \/ StripCall(t) \/ StoreStripped(t)
  \/ StoreBy(t) \/ Lookup(t) \/ RenderCall(t) \/ StoreRendered(t) \/ CheckTarget(t)
  \/ Invoke(t) \/ RenderResult(t)

WebStep(r) ==
  Execute(r) \/ Submit(r) \/ Reject(r) \/ Submitted(r) \/ Collect(r) \/ Collected(r)

Ended(r) == http[r] \in {"returned", "failed"}

\* No request is left and the pool waits: the instance idles.
Idle ==
  /\ \A r \in Requests : Ended(r)
  /\ \A w \in Workers : pool[w] \in {"absent", "polling"}
  /\ UNCHANGED vars

Next ==
  \/ \E r \in Requests : WebStep(r)
  \/ \E w \in Workers : Poll(w) \/ Expire(w)
  \/ \E t \in Runners : RunnerStep(t)
  \/ Idle

Spec == Init /\ [][Next]_vars

\* Threads are scheduled and every invocation ends: with an answer, an error
\* or a broken connection.
FairSpec ==
  /\ Spec
  /\ \A r \in Requests : WF_vars(WebStep(r))
  /\ \A w \in Workers : WF_vars(Poll(w))
  /\ \A t \in Runners : WF_vars(RunnerStep(t))

-----------------------------------------------------------------------------
(* Properties *)

Phases == {"idle", "submit", "inline", "collect", "returned", "failed"}
Futures == {"none", "pending", "value", "exception"}
ThreadStates == {"absent", "polling", "busy", "leaving"}
Labels == {"off", "begin", "check", "strip", "stripped", "by", "lookup", "render",
           "rendered", "target", "invoke", "result"}

\* The variables have their types: in particular no target, protocol or future
\* ever takes a value that the code's branches do not know.
TypeOK ==
  /\ ins \in [Requests -> Instructions]
  /\ node \in [Requests -> Nodes]
  /\ http \in [Requests -> Phases]
  /\ nsub \in [Requests -> Nat] /\ ncol \in [Requests -> Nat]
  /\ fut \in [Requests -> [Slots -> Futures]]
  /\ out \in [Requests -> [Slots -> Seq(Results)]]
  /\ results \in [Requests -> Seq(Results)]
  /\ pool \in [Workers -> ThreadStates]
  /\ job \in [Runners -> Requests \X Slots]
  /\ pc \in [Runners -> Labels]
  /\ it \in [Runners -> Nat]
  /\ reg \in [Runners -> Nodes]
  /\ copy \in [Runners -> Nodes]
  /\ local \in [Requests -> [Runners -> Responses]]
  /\ sent \subseteq [req : Requests, sub : Slots, iter : Nat, by : Bys, call : Calls]

\* execute with times > 1 performs every requested iteration exactly once: the
\* stream an execute that returned has collected has "times" elements and no
\* (subtask, loop index) twice, however the iterations were divided.
ExactlyTimes ==
  \A r \in Requests : http[r] = "returned" /\ Consumes(r) =>
    /\ Len(results[r]) = Total(r)
    /\ \A m, n \in DOMAIN results[r] : m # n =>
         <<results[r][m].sub, results[r][m].iter>> # <<results[r][n].sub, results[r][n].iter>>

\* The target without its prefix, not yet rendered, and what rendering it leaves.
Unprefixed(r) == IF ins[r].call = "dubbo" THEN "tmpl" ELSE ins[r].call
Final(r) == Rendered(r, Unprefixed(r)) \ {"throw"}

\* The threads of r do not race on the node of the next hop: there is one
\* thread, or every iteration has its own copy, or there is no prefix to strip
\* and the target is not rendered to nothing by one thread only.
Undisturbed(r) ==
  \/ ~Pooled(r)
  \/ ins[r].rr # 0
  \/ ins[r].call # "dubbo" /\ ~({"url", ""} \subseteq Final(r))

\* Every iteration of r has a target to invoke, unless it throws before that.
Calling(r) == ~ins[r].leaf /\ Undisturbed(r) /\ "" \notin Final(r)

\* Iteration j of subtask i of r has invoked its target.
Invoked(r, i, j) == \E s \in sent : s.req = r /\ s.sub = i /\ s.iter = j

\* What iteration j of subtask i of r can have received.
Answers(r, i, j) == {Response(k, r, i, j) : k \in {"exception", "reply"}}

\* The thread's response slot is never cleared, yet the result of an iteration
\* that invoked its target, and of every iteration of an instruction whose target
\* never comes out empty, is what that very iteration received, or the message of
\* the exception it met: never what an earlier iteration left in the slot.
FreshResult ==
  \A r \in Requests : \A i \in Subs(r) : \A n \in DOMAIN out[r][i] :
    Calling(r) \/ Invoked(r, i, n - 1) => out[r][i][n].resp \in Answers(r, i, n - 1)

\* Pool threads serve many requests, but a result never shows a response that
\* another request received: the slot belongs to the context and the thread.
NoForeignResult ==
  \A r \in Requests : \A i \in Subs(r) : \A n \in DOMAIN out[r][i] : out[r][i][n].resp.req = r

\* When execute has returned a collected result, none of its subtasks runs any
\* more (an execute that failed, or that ignored its stream, may leave some).
NoStragglers ==
  \A r \in Requests : http[r] = "returned" /\ Consumes(r) =>
    \A t \in Runners : pc[t] # "off" => job[t][1] # r

\* With times > 1 an exception of an iteration is an element of the result: an
\* instruction whose template, collectBy and response headers can be evaluated
\* fails only when the pool rejects one of its subtasks.
ErrorsAbsorbed ==
  \A r \in Requests :
    (http[r] = "failed" /\ ins[r].times > 1 /\ ins[r].tmplOk /\ Returns(r))
      => Pooled(r) /\ nsub[r] < NumSubs(r)

\* The pool rejects a subtask only after it accepted as many as it has threads.
RejectedOnlyWhenFull ==
  (\E r \in Requests : http[r] = "failed" /\ Pooled(r) /\ nsub[r] < NumSubs(r))
    => Cardinality({s \in Requests \X Slots : s[2] < nsub[s[1]]}) >= Cardinality(Workers)

\* What call() is meant to invoke: the rendered target without the prefix, with
\* the protocol of the prefix or of the node.
Target(r) ==
  [by   |-> IF ins[r].call = "dubbo" THEN "dubbo" ELSE ins[r].by,
   call |-> IF Unprefixed(r) = "tmpl" THEN "url" ELSE Unprefixed(r)]

\* call() rewrites the node it reads, in every iteration: as long as its threads
\* do not race on it, every iteration that invokes anything invokes the
\* instruction's target with the instruction's protocol.
CallIntact ==
  \A s \in sent : Undisturbed(s.req) =>
    s.by = Target(s.req).by /\ s.call = Target(s.req).call

\* processLoop: every thread starts the round at the first value, so two values
\* of a loop are used equally often up to one use per subtask.
RoundRobinBalanced ==
  \A r \in Requests : http[r] = "returned" /\ Consumes(r) =>
    LET Uses(v) == Cardinality({n \in DOMAIN results[r] : results[r][n].rr = v})
    IN \A u, v \in 0 .. (ins[r].rr - 1) : Uses(u) <= Uses(v) + NumSubs(r)

\* Every request is answered: no thread waits for a future that nobody completes.
RequestsEnd == \A r \in Requests : <>Ended(r)

\* Subtasks that an execute left behind do not occupy the pool for ever.
PoolDrains == <>[](\A w \in Workers : pool[w] # "busy")
=============================================================================
