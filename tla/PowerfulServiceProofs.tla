------------------------ MODULE PowerfulServiceProofs ------------------------
(* Theorems about PowerfulService, for every pool size and every instruction. *)
EXTENDS PowerfulServiceInvariants, TLAPS

\* What the assumptions say of one instruction.
LEMMA InstructionType ==
  ASSUME NEW i \in Instructions
  PROVE  /\ i.times \in Nat /\ i.threads \in 0 .. MaxThreads /\ i.leaf \in BOOLEAN
         /\ i.call \in Calls \ {"cut"} /\ i.by \in Bys /\ i.tmplOk \in BOOLEAN /\ i.rr \in Nat
         /\ i.collectBy \in CollectBys /\ i.renders \in SUBSET Outcomes
BY EngineAssumption

\* The subtask indexes of a request are slots.
LEMMA SubsAreSlots ==
  ASSUME TypeOK, NEW r \in Requests
  PROVE  NumSubs(r) \in 1 .. MaxThreads /\ NumSubs(r) - 1 \in Slots /\ 0 \in Slots
<1>1. ins[r] \in Instructions
  BY DEF TypeOK
<1>2. ins[r].threads \in 0 .. MaxThreads /\ MaxThreads \in Nat \ {0}
  BY <1>1, InstructionType, EngineAssumption
<1> QED
  BY <1>2 DEF NumSubs, Pooled, Slots

\* The node a runner works on has the type of a node.
LEMMA NodeType ==
  ASSUME TypeOK, NEW t \in Runners
  PROVE  /\ job[t][1] \in Requests /\ job[t][2] \in Slots
         /\ NodeOf(t) \in Nodes
<1>1. job[t] \in Requests \X Slots
  BY DEF TypeOK
<1>2. job[t][1] \in Requests /\ job[t][2] \in Slots
  BY <1>1
<1>3. node[job[t][1]] \in Nodes /\ copy[t] \in Nodes
  BY <1>2 DEF TypeOK
<1> QED
  BY <1>2, <1>3 DEF NodeOf

\* A node that lost its prefix, was rendered or got a protocol is a node.
LEMMA StringType ==
  ASSUME NEW c \in Calls
  PROVE  /\ Substring(c) \subseteq Calls
         /\ TypeOK => \A r \in Requests : Rendered(r, c) \subseteq Calls \cup {"throw"}
<1>1. Substring(c) \subseteq Calls
  BY DEF Substring, Calls
<1>2. ASSUME TypeOK, NEW r \in Requests PROVE Rendered(r, c) \subseteq Calls \cup {"throw"}
  <2>1. ins[r].renders \subseteq Outcomes
    BY <1>2, InstructionType DEF TypeOK
  <2> QED
    BY <2>1 DEF Rendered, Calls, Outcomes
<1> QED
  BY <1>1, <1>2

\* Storing a node keeps the types of the two places a node can be in.
LEMMA SetNodeType ==
  ASSUME TypeOK, NEW t \in Runners, NEW n \in Nodes, SetNode(t, n)
  PROVE  /\ node' \in [Requests -> Nodes]
         /\ copy' \in [Runners -> Nodes]
<1>0. node \in [Requests -> Nodes] /\ copy \in [Runners -> Nodes]
  BY DEF TypeOK
<1>1. CASE ins[job[t][1]].rr = 0
  BY <1>0, <1>1 DEF SetNode
<1>2. CASE ins[job[t][1]].rr # 0
  BY <1>0, <1>2 DEF SetNode
<1> QED
  BY <1>1, <1>2

\* The parts of TypeOK that an exception or the end of a subtask can change.
ControlType ==
  /\ http \in [Requests -> Phases]
  /\ fut \in [Requests -> [Slots -> Futures]]
  /\ pool \in [Workers -> ThreadStates]
  /\ pc \in [Runners -> Labels]
  /\ it \in [Runners -> Nat]
  /\ local \in [Requests -> [Runners -> Responses]]

\* Ending a subtask keeps the types of the control state.
LEMMA EndTaskType ==
  ASSUME TypeOK, NEW t \in Runners, NEW f \in {"value", "exception"}, EndTask(t, f),
         UNCHANGED local
  PROVE  ControlType'
<1> DEFINE r == job[t][1]
<1>1. r \in Requests /\ job[t][2] \in Slots
  BY NodeType
<1> HIDE DEF r
<1>2. fut' = [fut EXCEPT ![r][job[t][2]] = f] /\ pc' = [pc EXCEPT ![t] = "off"]
      /\ it' = [it EXCEPT ![t] = 0]
  BY DEF EndTask, Goto, r
<1>3. fut' \in [Requests -> [Slots -> Futures]]
  BY <1>1, <1>2 DEF TypeOK, Futures
<1>4. /\ pc' \in [Runners -> Labels]
      /\ it' \in [Runners -> Nat]
      /\ local' \in [Requests -> [Runners -> Responses]]
  BY <1>2 DEF TypeOK, Labels
<1>5. pool' \in [Workers -> ThreadStates]
  BY DEF EndTask, TypeOK, ThreadStates
<1>6. \/ http' = http \/ http' = [http EXCEPT ![r] = "collect"]
      \/ http' = [http EXCEPT ![r] = "failed"]
  BY DEF EndTask, r
<1>7. http' \in [Requests -> Phases]
  BY <1>1, <1>6 DEF TypeOK, Phases
<1> QED
  BY <1>3, <1>4, <1>5, <1>7 DEF ControlType

\* The response an iteration writes is a response.
LEMMA ResponseType ==
  ASSUME TypeOK, NEW t \in Runners, NEW k \in {"none", "exception", "reply"}
  PROVE  Response(k, job[t][1], job[t][2], it[t]) \in Responses
<1>1. job[t][1] \in Requests /\ job[t][2] \in Slots
  BY NodeType
<1>2. job[t][2] \in Nat
  BY <1>1, EngineAssumption DEF Slots
<1>3. it[t] \in Nat
  BY DEF TypeOK
<1> QED
  BY <1>1, <1>2, <1>3 DEF Response, Responses

\* Storing a response keeps the type of the response slots.
LEMMA SetResultType ==
  ASSUME TypeOK, NEW t \in Runners, NEW resp \in Responses, SetResult(job[t][1], t, resp)
  PROVE  local' \in [Requests -> [Runners -> Responses]]
BY NodeType DEF TypeOK, SetResult

\* An exception, absorbed or not, keeps the types of what it changes.
LEMMA RaiseType ==
  ASSUME TypeOK, NEW t \in Runners, Raise(t)
  PROVE  ControlType'
<1>1. CASE HandleException(job[t][1])
  <2>1. SetResult(job[t][1], t, Response("exception", job[t][1], job[t][2], it[t]))
        /\ Goto(t, "result") /\ UNCHANGED <<http, fut, pool, it>>
    BY <1>1 DEF Raise
  <2>2. local' \in [Requests -> [Runners -> Responses]]
    BY <2>1, ResponseType, SetResultType
  <2> QED
    BY <2>1, <2>2 DEF TypeOK, ControlType, Goto, Labels
<1>2. CASE ~HandleException(job[t][1])
  BY <1>2, EndTaskType DEF Raise
<1> QED
  BY <1>1, <1>2

\* The parts of TypeOK that only the actions named below change.
DataType ==
  /\ ins \in [Requests -> Instructions]
  /\ node \in [Requests -> Nodes]
  /\ nsub \in [Requests -> Nat] /\ ncol \in [Requests -> Nat]
  /\ out \in [Requests -> [Slots -> Seq(Results)]]
  /\ results \in [Requests -> Seq(Results)]
  /\ job \in [Runners -> Requests \X Slots]
  /\ reg \in [Runners -> Nodes]
  /\ copy \in [Runners -> Nodes]
  /\ sent \subseteq [req : Requests, sub : Slots, iter : Nat, by : Bys, call : Calls]

\* The type invariant splits into its control and its data half, now and next.
LEMMA TypeParts == (TypeOK <=> ControlType /\ DataType) /\ (TypeOK' <=> ControlType' /\ DataType')
BY DEF TypeOK, ControlType, DataType

\* Every step of a web thread in execute keeps the types.
LEMMA WebStepType ==
  ASSUME TypeOK, NEW r \in Requests, WebStep(r)
  PROVE  TypeOK'
<1>0. NumSubs(r) \in 1 .. MaxThreads /\ 0 \in Slots
  BY SubsAreSlots
<1>1. CASE Execute(r)
  <2>1. http' \in [Requests -> Phases]
    BY <1>1 DEF Execute, Outcome, TypeOK, Phases
  <2>2. fut' = fut \/ fut' = [fut EXCEPT ![r][0] = "pending"]
    BY <1>1 DEF Execute
  <2>3. fut' \in [Requests -> [Slots -> Futures]]
    <3>1. fut \in [Requests -> [Slots -> Futures]]
      BY DEF TypeOK
    <3> QED
      BY <1>0, <2>2, <3>1 DEF Futures
  <2>4. pc' \in [Runners -> Labels]
    BY <1>1 DEF Execute, TypeOK, Labels
  <2> QED
    BY <1>1, <2>1, <2>3, <2>4 DEF Execute, TypeOK
<1>2. CASE Submit(r)
  <2>1. nsub[r] \in Slots
    BY <1>0, <1>2, EngineAssumption DEF Submit, TypeOK, Slots
  <2>2. PICK w \in Candidates :
          /\ pool' = [pool EXCEPT ![w] = "busy"]
          /\ job' = [job EXCEPT ![w] = <<r, nsub[r]>>]
          /\ pc' = [pc EXCEPT ![w] = "begin"]
          /\ it' = [it EXCEPT ![w] = 0]
    BY <1>2 DEF Submit
  <2>3. w \in Workers /\ w \in Runners
    BY DEF Candidates, Polling, Runners
  <2>4. job' \in [Runners -> Requests \X Slots]
    BY <2>1, <2>2, <2>3 DEF TypeOK
  <2>5. fut' \in [Requests -> [Slots -> Futures]]
    BY <1>2, <2>1 DEF Submit, TypeOK, Futures
  <2>6. pool' \in [Workers -> ThreadStates] /\ pc' \in [Runners -> Labels] /\ it' \in [Runners -> Nat]
    BY <2>2, <2>3 DEF TypeOK, ThreadStates, Labels
  <2>7. nsub' \in [Requests -> Nat]
    BY <1>2 DEF Submit, TypeOK
  <2>8. UNCHANGED <<ins, http, ncol, results, out, node, reg, copy, local, sent>>
    BY <1>2 DEF Submit, iterVars
  <2> QED
    BY <2>4, <2>5, <2>6, <2>7, <2>8 DEF TypeOK
<1>3. CASE Reject(r) \/ Submitted(r) \/ Collected(r)
  BY <1>3 DEF Reject, Submitted, Collected, Outcome, TypeOK, Phases, taskVars, iterVars
<1>4. CASE Collect(r)
  <2>1. ncol[r] \in Slots
    BY <1>0, <1>4, EngineAssumption DEF Collect, TypeOK, Slots
  <2>2. results[r] \o out[r][ncol[r]] \in Seq(Results)
    <3>1. results \in [Requests -> Seq(Results)] /\ out \in [Requests -> [Slots -> Seq(Results)]]
      BY DEF TypeOK
    <3>2. results[r] \in Seq(Results) /\ out[r][ncol[r]] \in Seq(Results)
      BY <2>1, <3>1
    <3> QED
      BY <3>2
  <2>3. results' \in [Requests -> Seq(Results)]
    BY <1>4, <2>2 DEF Collect, TypeOK
  <2>4. ncol' \in [Requests -> Nat] /\ http' \in [Requests -> Phases]
    <3>1. ncol' = ncol \/ ncol' = [ncol EXCEPT ![r] = @ + 1]
      BY <1>4 DEF Collect
    <3>2. http' = http \/ http' = [http EXCEPT ![r] = "failed"]
      BY <1>4 DEF Collect
    <3>3. ncol \in [Requests -> Nat] /\ http \in [Requests -> Phases] /\ "failed" \in Phases
      BY DEF TypeOK, Phases
    <3> QED
      BY <3>1, <3>2, <3>3
  <2> QED
    BY <1>4, <2>3, <2>4 DEF Collect, TypeOK, taskVars, iterVars
<1> QED
  BY <1>1, <1>2, <1>3, <1>4 DEF WebStep

\* What the tail of an iteration renders is a result.
LEMMA RenderedResultType ==
  ASSUME TypeOK, NEW t \in Runners
  PROVE  [resp |-> local[job[t][1]][t], sub |-> job[t][2], iter |-> it[t],
          rr |-> RoundRobin(job[t][1], it[t])] \in Results
<1> DEFINE r == job[t][1]
<1>1. r \in Requests /\ job[t][2] \in Slots
  BY NodeType
<1>2. ins[r] \in Instructions /\ it[t] \in Nat /\ local[r][t] \in Responses
  BY <1>1 DEF TypeOK
<1>3. ins[r].rr \in Nat
  BY <1>2, InstructionType
<1>4. RoundRobin(r, it[t]) \in Nat
  BY <1>2, <1>3 DEF RoundRobin
<1>5. job[t][2] \in Nat
  BY <1>1, EngineAssumption DEF Slots
<1> QED
  BY <1>2, <1>4, <1>5 DEF Results

\* Every step of an iteration keeps the types.
LEMMA RunnerStepType ==
  ASSUME TypeOK, NEW t \in Runners, RunnerStep(t)
  PROVE  TypeOK'
<1> DEFINE r == job[t][1]
<1>0. r \in Requests /\ job[t][2] \in Slots /\ NodeOf(t) \in Nodes
  BY NodeType
<1>a. ControlType /\ DataType
  BY TypeParts
<1>b. /\ [NodeOf(t) EXCEPT !.call = reg[t].call] \in Nodes
      /\ [NodeOf(t) EXCEPT !.by = "dubbo"] \in Nodes
  <2>1. reg[t] \in Nodes
    BY <1>a DEF DataType
  <2> QED
    BY <1>0, <2>1 DEF Nodes, Bys
<1>c. NodeOf(t).call \in Calls /\ NodeOf(t).by \in Bys
  BY <1>0 DEF Nodes
<1>d. \A c \in Calls : [reg EXCEPT ![t].call = c] \in [Runners -> Nodes]
  BY <1>a DEF DataType, Nodes
<1>e. \A b \in Bys : [reg EXCEPT ![t].by = b] \in [Runners -> Nodes]
  BY <1>a DEF DataType, Nodes
<1>1. CASE Finish(t)
  <2>1. ControlType'
    BY <1>1, EndTaskType DEF Finish, iterVars
  <2>2. DataType'
    BY <1>1, <1>a DEF Finish, DataType, iterVars
  <2> QED
    BY <2>1, <2>2, TypeParts
<1>2. CASE Begin(t)
  <2>1. ControlType'
    BY <1>2, <1>a, RaiseType DEF Begin, ControlType, Goto, Labels
  <2>2. DataType'
    BY <1>2, <1>a, <1>0 DEF Begin, DataType
  <2> QED
    BY <2>1, <2>2, TypeParts
<1>3. CASE CheckCall(t)
  BY <1>3 DEF CheckCall, Goto, TypeOK, Labels, webVars, taskVars, iterVars
<1>4. CASE StripCall(t)
  <2>1. ControlType'
    BY <1>4, <1>a, RaiseType DEF StripCall, ControlType, Goto, Labels
  <2>2. DataType'
    <3>1. reg' \in [Runners -> Nodes]
      <4>1. \/ reg' = reg
            \/ \E c \in Substring(NodeOf(t).call) : reg' = [reg EXCEPT ![t].call = c]
        BY <1>4 DEF StripCall
      <4>2. Substring(NodeOf(t).call) \subseteq Calls
        BY <1>c, StringType
      <4> QED
        <5>1. reg \in [Runners -> Nodes]
          BY <1>a DEF DataType
        <5>2. ASSUME NEW c \in Substring(NodeOf(t).call), reg' = [reg EXCEPT ![t].call = c]
              PROVE  reg' \in [Runners -> Nodes]
          <6>1. c \in Calls
            BY <4>2
          <6>2. [reg EXCEPT ![t].call = c] \in [Runners -> Nodes]
            BY <6>1, <1>d
          <6> QED
            BY <5>2, <6>2
        <5> QED
          BY <4>1, <5>1, <5>2
    <3> QED
      BY <1>4, <1>a, <3>1 DEF StripCall, DataType
  <2> QED
    BY <2>1, <2>2, TypeParts
<1>5. CASE StoreStripped(t)
  BY <1>5, <1>b, SetNodeType DEF StoreStripped, Goto, TypeOK, Labels, webVars, taskVars
<1>6. CASE StoreBy(t)
  BY <1>6, <1>b, SetNodeType DEF StoreBy, Goto, TypeOK, Labels, webVars, taskVars
<1>7. CASE Lookup(t)
  <2>1. ControlType'
    BY <1>7, <1>a, RaiseType DEF Lookup, ControlType, Goto, Labels
  <2>2. DataType'
    BY <1>7, <1>a, <1>c, <1>e DEF Lookup, DataType
  <2> QED
    BY <2>1, <2>2, TypeParts
<1>8. CASE RenderCall(t)
  <2>1. ControlType'
    BY <1>8, <1>a, RaiseType DEF RenderCall, ControlType, Goto, Labels
  <2>2. DataType'
    <3>1. reg' = reg \/ \E c \in Calls : reg' = [reg EXCEPT ![t].call = c]
      BY <1>8, <1>0, <1>c, StringType DEF RenderCall
    <3>2. reg' \in [Runners -> Nodes]
      BY <1>a, <1>d, <3>1 DEF DataType
    <3> QED
      BY <1>8, <1>a, <3>2 DEF RenderCall, DataType
  <2> QED
    BY <2>1, <2>2, TypeParts
<1>9. CASE StoreRendered(t)
  BY <1>9, <1>b, SetNodeType DEF StoreRendered, Goto, TypeOK, Labels, webVars, taskVars
<1>12. CASE CheckTarget(t)
  BY <1>12 DEF CheckTarget, Goto, TypeOK, Labels, webVars, taskVars, iterVars
<1>10. CASE Invoke(t)
  <2>1. local' \in [Requests -> [Runners -> Responses]] \/ Raise(t)
    BY <1>10, <1>a, ResponseType, SetResultType DEF Invoke, ControlType
  <2>2. ControlType'
    BY <1>10, <1>a, <2>1, RaiseType DEF Invoke, ControlType, Goto, Labels
  <2>3. [req |-> r, sub |-> job[t][2], iter |-> it[t], by |-> reg[t].by, call |-> NodeOf(t).call]
          \in [req : Requests, sub : Slots, iter : Nat, by : Bys, call : Calls]
    BY <1>0, <1>a, <1>c DEF ControlType, DataType, Nodes
  <2>4. DataType'
    BY <1>10, <1>a, <2>3 DEF Invoke, DataType
  <2> QED
    BY <2>2, <2>4, TypeParts
<1>11. CASE RenderResult(t)
  <2>1. CASE ins[r].tmplOk
    <3> DEFINE e == [resp |-> local[r][t], sub |-> job[t][2], iter |-> it[t], rr |-> RoundRobin(r, it[t])]
    <3>4. e \in Results
      BY RenderedResultType
    <3> HIDE DEF e
    <3>5. out' = [out EXCEPT ![r][job[t][2]] = Append(@, e)]
      BY <1>11, <2>1 DEF RenderResult, e
    <3>6. out' \in [Requests -> [Slots -> Seq(Results)]]
      BY <3>4, <3>5, <1>0, <1>a DEF DataType
    <3>7. it' \in [Runners -> Nat] /\ pc' \in [Runners -> Labels]
      <4>1. it' = [it EXCEPT ![t] = @ + 1] /\ pc' = [pc EXCEPT ![t] = "begin"]
        BY <1>11, <2>1 DEF RenderResult, Goto
      <4> QED
        BY <4>1 DEF TypeOK, Labels
    <3>8. UNCHANGED <<ins, nsub, ncol, results, job, fut, pool, http, node, reg, copy, local, sent>>
      BY <1>11, <2>1 DEF RenderResult, iterVars
    <3> QED
      BY <3>6, <3>7, <3>8 DEF TypeOK
  <2>2. CASE ~ins[r].tmplOk
    <3>1. ControlType'
      BY <1>11, <2>2, EndTaskType DEF RenderResult, iterVars
    <3>2. DataType'
      BY <1>11, <2>2, <1>a DEF RenderResult, DataType, iterVars
    <3> QED
      BY <3>1, <3>2, TypeParts
  <2> QED
    BY <2>1, <2>2
<1> QED
  BY <1>1, <1>2, <1>3, <1>4, <1>5, <1>6, <1>7, <1>8, <1>9, <1>10, <1>11, <1>12 DEF RunnerStep

\* The initial states have the types.
LEMMA InitType == Init => TypeOK
<1> SUFFICES ASSUME Init PROVE TypeOK
  OBVIOUS
<1>1. \A r \in Requests : ins[r] \in Instructions /\ ins[r].call \in Calls /\ ins[r].by \in Bys
  BY InstructionType DEF Init
<1>2. 0 \in Slots /\ (CHOOSE r \in Requests : TRUE) \in Requests
  BY EngineAssumption DEF Slots
<1>3. job \in [Runners -> Requests \X Slots]
  BY <1>2 DEF Init
<1>4. local \in [Requests -> [Runners -> Responses]]
  BY DEF Init, NoResponse, Response, Responses
<1>5. NoReg \in Nodes /\ node \in [Requests -> Nodes]
  <2>1. \A c \in Calls, b \in Bys : [call |-> c, by |-> b] \in Nodes
    BY DEF Nodes
  <2>2. NoReg \in Nodes
    BY DEF NoReg, Nodes, Calls, Bys
  <2> QED
    BY <1>1, <2>1, <2>2 DEF Init
<1>6. out \in [Requests -> [Slots -> Seq(Results)]] /\ results \in [Requests -> Seq(Results)]
  BY DEF Init
<1> QED
  BY <1>3, <1>4, <1>5, <1>6 DEF Init, TypeOK, Phases, Futures, ThreadStates, Labels

\* The types hold in every state, for any number of requests, threads and any
\* instructions.
THEOREM TypeCorrect == Spec => []TypeOK
<1>1. Init => TypeOK
  BY InitType
<1>2. TypeOK /\ [Next]_vars => TypeOK'
  <2> SUFFICES ASSUME TypeOK, [Next]_vars PROVE TypeOK'
    OBVIOUS
  <2>1. ASSUME NEW w \in Workers, Poll(w) \/ Expire(w) PROVE TypeOK'
    BY <2>1 DEF Poll, Expire, TypeOK, ThreadStates, webVars, taskVars, iterVars
  <2>2. CASE UNCHANGED vars
    BY <2>2 DEF vars, TypeOK
  <2> QED
    BY <2>1, <2>2, WebStepType, RunnerStepType DEF Next, Idle
<1> QED
  BY <1>1, <1>2, PTL DEF Spec

-----------------------------------------------------------------------------
(* The division of "times" iterations among "threads" subtasks *)

\* The shares of executeForTimes tile the interval of iterations: subtask i
\* begins where the subtasks before it end, and the last one ends at "total".
LEMMA SplitTiles ==
  ASSUME NEW total \in Nat, NEW threads \in Nat \ {0}
  PROVE  /\ SubtaskOffset(total, threads, 0) = 0
         /\ SubtaskOffset(total, threads, threads) = total
         /\ \A i \in 0 .. (threads - 1) :
              SubtaskOffset(total, threads, i + 1)
                = SubtaskOffset(total, threads, i) + SubtaskTimes(total, threads, i)
<1> DEFINE q == total \div threads
           m == total % threads
<1>1. q \in Nat /\ m \in 0 .. (threads - 1) /\ total = threads * q + m
  OBVIOUS
<1> HIDE DEF q, m
<1>2. \A i \in Nat : SubtaskOffset(total, threads, i) = i * q + (IF i < m THEN i ELSE m)
  BY DEF SubtaskOffset, q, m
<1>3. \A i \in Nat : SubtaskTimes(total, threads, i) = q + (IF i < m THEN 1 ELSE 0)
  BY DEF SubtaskTimes, q, m
<1>4. \A i \in Nat : (i + 1) * q = i * q + q
  BY <1>1
<1>5. SubtaskOffset(total, threads, 0) = 0
  BY <1>1, <1>2
<1>6. SubtaskOffset(total, threads, threads) = total
  BY <1>1, <1>2
<1>7. ASSUME NEW i \in 0 .. (threads - 1)
      PROVE  SubtaskOffset(total, threads, i + 1)
               = SubtaskOffset(total, threads, i) + SubtaskTimes(total, threads, i)
  <2>1. i \in Nat /\ i + 1 \in Nat /\ i * q \in Nat
    BY <1>1
  <2>2. SubtaskOffset(total, threads, i + 1) = i * q + q + (IF i + 1 < m THEN i + 1 ELSE m)
    BY <1>2, <1>4, <2>1
  <2>3. (IF i + 1 < m THEN i + 1 ELSE m) = (IF i < m THEN i ELSE m) + (IF i < m THEN 1 ELSE 0)
    BY <1>1, <2>1
  <2> QED
    BY <1>1, <1>2, <1>3, <2>1, <2>2, <2>3
<1> QED
  BY <1>5, <1>6, <1>7

\* The operators that only depend on the instruction keep their values.
LEMMA InsFixed ==
  ASSUME ins' = ins
  PROVE  /\ \A r : Pooled(r)' <=> Pooled(r)
         /\ \A r : NumSubs(r)' = NumSubs(r) /\ Total(r)' = Total(r)
         /\ \A r : Consumes(r)' <=> Consumes(r)
         /\ \A r, i : Share(r, i)' = Share(r, i)
         /\ \A r, i : Offset(r, i)' = Offset(r, i)
BY DEF Pooled, NumSubs, Total, Consumes, Share, Offset

\* Shares and offsets are numbers, and the offsets of a request tile its stream.
LEMMA RequestTiles ==
  ASSUME TypeOK, NEW r \in Requests
  PROVE  /\ \A i \in Slots : Share(r, i) \in Nat
         /\ \A i \in Nat : Offset(r, i) \in Nat
         /\ Offset(r, 0) = 0
         /\ Offset(r, NumSubs(r)) = Total(r)
         /\ \A i \in 0 .. (NumSubs(r) - 1) : Offset(r, i + 1) = Offset(r, i) + Share(r, i)
<1> DEFINE T == ins[r].times
           H == ins[r].threads
<1>1. ins[r] \in Instructions
  BY DEF TypeOK
<1>2. T \in Nat /\ H \in Nat
  BY <1>1, InstructionType, EngineAssumption
<1>3. Slots \subseteq Nat
  BY EngineAssumption DEF Slots
<1>4. CASE Pooled(r)
  <2> HIDE DEF T, H
  <2>1. H \in Nat \ {0} /\ T > 1 /\ NumSubs(r) = H /\ Total(r) = T
    BY <1>2, <1>4 DEF Pooled, NumSubs, Total, T, H
  <2>2. \A i : Offset(r, i) = SubtaskOffset(T, H, i) /\ Share(r, i) = SubtaskTimes(T, H, i)
    BY <1>4 DEF Offset, Share, T, H
  <2>3. T \div H \in Nat /\ T % H \in Nat
    BY <1>2, <2>1
  <2>4. \A i \in Nat : SubtaskTimes(T, H, i) \in Nat
    BY <2>3 DEF SubtaskTimes
  <2>5. \A i \in Nat : SubtaskOffset(T, H, i) \in Nat
    BY <2>3 DEF SubtaskOffset
  <2> QED
    BY <1>2, <1>3, <2>1, <2>2, <2>4, <2>5, SplitTiles
<1>5. CASE ~Pooled(r)
  <2> HIDE DEF T, H
  <2>1. Total(r) \in Nat /\ NumSubs(r) = 1
    BY <1>2, <1>5 DEF Total, NumSubs, T
  <2>2. \A i : Share(r, i) = Total(r) /\ Offset(r, i) = i * Total(r)
    BY <1>5 DEF Share, Total, Offset
  <2>3. \A i \in Nat : i * Total(r) \in Nat
    BY <2>1
  <2> QED
    BY <1>3, <2>1, <2>2, <2>3
<1> QED
  BY <1>4, <1>5

-----------------------------------------------------------------------------
(* Preservation of WorkInv.  What a thread's step does to the bookkeeping of   *)
(* subtasks is one of three things.                                            *)

Bookkeeping == <<ins, nsub, ncol, results, job>>

\* It moves inside an iteration,
Moves(t) ==
  /\ pc[t] # "off" /\ (pc[t] = "begin" => it[t] < Share(job[t][1], job[t][2]))
  /\ \E l \in Labels \ {"off", "begin"} : pc' = [pc EXCEPT ![t] = l]
  /\ UNCHANGED <<http, fut, pool, it, out>> /\ UNCHANGED Bookkeeping

\* ends the subtask, with its results only when all its iterations are done,
Ends(t, f) ==
  /\ pc[t] # "off" /\ (f = "value" => it[t] = Share(job[t][1], job[t][2]))
  /\ EndTask(t, f)
  /\ UNCHANGED out /\ UNCHANGED Bookkeeping

\* or adds the result of the iteration.
Emits(t) ==
  /\ pc[t] # "off" /\ pc[t] # "begin"
  /\ \E e \in Results :
       /\ e.sub = job[t][2] /\ e.iter = it[t]
       /\ out' = [out EXCEPT ![job[t][1]][job[t][2]] = Append(@, e)]
  /\ it' = [it EXCEPT ![t] = @ + 1]
  /\ pc' = [pc EXCEPT ![t] = "begin"]
  /\ UNCHANGED <<fut, pool, http>> /\ UNCHANGED Bookkeeping

\* An exception moves to the tail of the iteration or ends the subtask.
LEMMA RaiseKinds ==
  ASSUME NEW t \in Runners, Raise(t), pc[t] # "off",
         pc[t] = "begin" => it[t] < Share(job[t][1], job[t][2]),
         UNCHANGED <<ins, nsub, ncol, results, job, out>>
  PROVE  Moves(t) \/ Ends(t, "exception")
<1>1. CASE HandleException(job[t][1])
  <2>1. pc' = [pc EXCEPT ![t] = "result"] /\ UNCHANGED <<http, fut, pool, it>>
    BY <1>1 DEF Raise, Goto
  <2> QED
    BY <2>1 DEF Moves, Bookkeeping, Labels
<1>2. CASE ~HandleException(job[t][1])
  BY <1>2 DEF Raise, Ends, Bookkeeping
<1> QED
  BY <1>1, <1>2

\* A step of an iteration moves within it, ends its subtask, or emits its result.
LEMMA RunnerKinds ==
  ASSUME TypeOK, NEW t \in Runners, RunnerStep(t)
  PROVE  Moves(t) \/ Ends(t, "value") \/ Ends(t, "exception") \/ Emits(t)
<1>1. CASE Finish(t)
  BY <1>1 DEF Finish, Ends, Bookkeeping
<1>2. CASE Begin(t)
  <2>1. CASE Raise(t)
    BY <1>2, <2>1, RaiseKinds DEF Begin
  <2>2. CASE ~Raise(t)
    BY <1>2, <2>2 DEF Begin, Moves, Bookkeeping, Goto, Labels
  <2> QED
    BY <2>1, <2>2
<1>3. CASE CheckCall(t)
  BY <1>3 DEF CheckCall, Goto, Moves, Bookkeeping, Labels, webVars, taskVars
<1>4. CASE StripCall(t)
  <2>1. CASE Raise(t)
    BY <1>4, <2>1, RaiseKinds DEF StripCall
  <2>2. CASE ~Raise(t)
    BY <1>4, <2>2 DEF StripCall, Moves, Bookkeeping, Goto, Labels
  <2> QED
    BY <2>1, <2>2
<1>5. CASE StoreStripped(t) \/ StoreBy(t) \/ StoreRendered(t) \/ CheckTarget(t)
  BY <1>5 DEF StoreStripped, StoreBy, StoreRendered, CheckTarget, Goto, Moves, Bookkeeping,
              Labels, webVars, taskVars
<1>9. CASE RenderCall(t)
  <2>1. CASE Raise(t)
    BY <1>9, <2>1, RaiseKinds DEF RenderCall
  <2>2. CASE ~Raise(t)
    BY <1>9, <2>2 DEF RenderCall, Moves, Bookkeeping, Goto, Labels
  <2> QED
    BY <2>1, <2>2
<1>6. CASE Lookup(t)
  <2>1. CASE Raise(t)
    BY <1>6, <2>1, RaiseKinds DEF Lookup
  <2>2. CASE ~Raise(t)
    BY <1>6, <2>2 DEF Lookup, Moves, Bookkeeping, Goto, Labels
  <2> QED
    BY <2>1, <2>2
<1>7. CASE Invoke(t)
  <2>1. CASE Raise(t)
    BY <1>7, <2>1, RaiseKinds DEF Invoke
  <2>2. CASE ~Raise(t)
    BY <1>7, <2>2 DEF Invoke, Moves, Bookkeeping, Goto, Labels
  <2> QED
    BY <2>1, <2>2
<1>8. CASE RenderResult(t)
  <2>1. CASE ins[job[t][1]].tmplOk
    <3> DEFINE e == [resp |-> local[job[t][1]][t], sub |-> job[t][2], iter |-> it[t],
                     rr |-> RoundRobin(job[t][1], it[t])]
    <3>1. e \in Results
      BY RenderedResultType
    <3>2. e.sub = job[t][2] /\ e.iter = it[t]
      OBVIOUS
    <3> HIDE DEF e
    <3>3. out' = [out EXCEPT ![job[t][1]][job[t][2]] = Append(@, e)]
      BY <1>8, <2>1 DEF RenderResult, e
    <3> QED
      BY <1>8, <2>1, <3>1, <3>2, <3>3 DEF RenderResult, Emits, Goto, Bookkeeping
  <2>2. CASE ~ins[job[t][1]].tmplOk
    BY <1>8, <2>2 DEF RenderResult, Ends, Bookkeeping
  <2> QED
    BY <2>1, <2>2
<1> QED
  BY <1>1, <1>2, <1>3, <1>4, <1>5, <1>6, <1>7, <1>8, <1>9 DEF RunnerStep

\* A step within an iteration keeps WorkInv: neither futures nor results change.
LEMMA MovesInv ==
  ASSUME TypeOK, WorkInv, NEW t \in Runners, Moves(t)
  PROVE  WorkInv'
<1>0. UNCHANGED <<ins, nsub, ncol, results, job, http, fut, pool, it, out>>
  BY DEF Moves, Bookkeeping
<1>1. /\ \A s \in Runners : s # t => pc'[s] = pc[s]
      /\ pc'[t] # "off" /\ pc'[t] # "begin" /\ pc[t] # "off"
      /\ it[t] < Share(job[t][1], job[t][2])
  BY DEF Moves, TypeOK, WorkInv, RunnersInv, Owns
<1>2. ASSUME NEW s \in Runners, pc'[s] # "off" PROVE Owns(s)'
  <2>1. Owns(s) /\ (pc'[s] # "begin" => it[s] < Share(job[s][1], job[s][2]))
    BY <1>1, <1>2 DEF WorkInv, RunnersInv, Owns
  <2> QED
    BY <1>0, <2>1, InsFixed DEF Owns
<1>3. RunnersInv'
  <2>1. \A w \in Workers : pool[w] # "busy" => pc'[w] = "off"
    BY <1>1 DEF WorkInv, RunnersInv, Owns, Runners
  <2> QED
    BY <1>0, <1>1, <1>2, <2>1 DEF WorkInv, RunnersInv
<1>4. SubtasksInv'
  BY <1>0, InsFixed DEF WorkInv, SubtasksInv
<1>5. StreamInv'
  BY <1>0, InsFixed DEF WorkInv, StreamInv
<1> QED
  BY <1>3, <1>4, <1>5 DEF WorkInv

\* The end of a subtask keeps WorkInv: its owner gives its future up.
LEMMA EndsInv ==
  ASSUME TypeOK, WorkInv, NEW t \in Runners, NEW f \in {"value", "exception"}, Ends(t, f)
  PROVE  WorkInv'
<1> DEFINE r == job[t][1]
           i == job[t][2]
<1>0. UNCHANGED <<ins, nsub, ncol, results, job, out>>
  BY DEF Ends, Bookkeeping
<1>1. r \in Requests /\ i \in Slots /\ Owns(t) /\ pc[t] # "off"
  BY NodeType DEF Ends, WorkInv, RunnersInv
<1>2. /\ fut' = [fut EXCEPT ![r][i] = f]
      /\ pc' = [pc EXCEPT ![t] = "off"] /\ it' = [it EXCEPT ![t] = 0]
      /\ \A w \in Workers : w # t => pool'[w] = pool[w]
      /\ t \in Workers => http' = http
      /\ t \notin Workers => /\ http' = [http EXCEPT ![r] = IF f = "value" THEN "collect" ELSE "failed"]
                             /\ pool' = pool /\ r = t
  BY <1>1 DEF Ends, EndTask, Goto, Owns, TypeOK
<1> HIDE DEF r, i
<1>3. \A q \in Requests, j \in Slots :
        fut'[q][j] = IF <<q, j>> = <<r, i>> THEN f ELSE fut[q][j]
  <2>1. fut \in [Requests -> [Slots -> Futures]]
    BY DEF TypeOK
  <2>2. \A q \in Requests : fut'[q] = IF q = r THEN [fut[r] EXCEPT ![i] = f] ELSE fut[q]
    BY <1>1, <1>2, <2>1
  <2>3. \A j \in Slots : [fut[r] EXCEPT ![i] = f][j] = IF j = i THEN f ELSE fut[r][j]
    BY <1>1, <2>1
  <2> QED
    BY <2>2, <2>3
<1>4. /\ \A s \in Runners : s # t => pc'[s] = pc[s] /\ it'[s] = it[s]
      /\ pc'[t] = "off" /\ it'[t] = 0
  BY <1>2 DEF TypeOK
<1>5. ASSUME NEW s \in Runners, pc'[s] # "off" PROVE Owns(s)'
  <2>1. s # t /\ pc[s] # "off" /\ Owns(s) /\ job[s] # job[t]
    BY <1>1, <1>4, <1>5 DEF WorkInv, RunnersInv
  <2>2. job[s] \in Requests \X Slots /\ job[t] \in Requests \X Slots
    BY DEF TypeOK
  <2>3. job[s] = <<job[s][1], job[s][2]>> /\ job[t] = <<r, i>>
        /\ job[s][1] \in Requests /\ job[s][2] \in Slots
    BY <2>2 DEF r, i
  <2>4. fut'[job[s][1]][job[s][2]] = "pending"
    BY <1>3, <2>1, <2>3 DEF Owns
  <2>5. CASE s \in Workers
    BY <1>0, <1>2, <1>4, <2>1, <2>4, <2>5, InsFixed DEF Owns
  <2>6. CASE s \notin Workers
    <3>1. job[s][1] = s /\ http[s] = "inline" /\ ~Pooled(s)
      BY <2>1, <2>6 DEF Owns
    <3>2. t \notin Workers => r # s
      BY <1>2, <2>1
    <3>3. http'[s] = "inline"
      BY <1>2, <3>1, <3>2, <2>3 DEF TypeOK
    <3> QED
      BY <1>0, <1>4, <2>1, <2>4, <2>6, <3>1, <3>3, InsFixed DEF Owns
  <2> QED
    BY <2>5, <2>6
<1>6. RunnersInv'
  <2>1. \A w \in Workers : pool'[w] # "busy" => pc'[w] = "off"
    BY <1>2, <1>4 DEF WorkInv, RunnersInv, Runners
  <2> QED
    BY <1>0, <1>4, <1>5, <2>1 DEF WorkInv, RunnersInv
<1>7. f = "value" => Len(out[r][i]) = Share(r, i)
  BY <1>1 DEF Ends, Owns, r, i
<1>8. \A q \in Requests : http'[q] = "idle" => http[q] = "idle"
  BY <1>2 DEF TypeOK
<1>10. http[r] # "idle" /\ fut[r][i] = "pending"
  BY <1>1 DEF WorkInv, SubtasksInv, Owns, r, i
<1>9. Pooled(r) => ~(i >= nsub[r])
  BY <1>1, <1>10 DEF WorkInv, SubtasksInv
<1>11. SubtasksInv'
  <2> SUFFICES ASSUME NEW q \in Requests, NEW j \in Slots
               PROVE  /\ \A n \in DOMAIN out[q][j] : out[q][j][n].sub = j /\ out[q][j][n].iter = n - 1
                      /\ fut'[q][j] = "none" => out[q][j] = <<>>
                      /\ fut'[q][j] = "value" => Len(out[q][j]) = Share(q, j)
                      /\ Pooled(q) /\ j >= nsub[q] => fut'[q][j] = "none"
                      /\ http'[q] = "idle" => fut'[q][j] = "none"
    BY <1>0, InsFixed DEF SubtasksInv
  <2>1. CASE <<q, j>> = <<r, i>>
    <3>1. fut'[q][j] = f /\ q = r /\ j = i
      BY <1>3, <2>1
    <3>2. ~(j >= nsub[q]) \/ ~Pooled(q)
      BY <1>9, <3>1
    <3> QED
      BY <1>7, <1>8, <1>10, <3>1, <3>2 DEF WorkInv, SubtasksInv
  <2>2. CASE <<q, j>> # <<r, i>>
    BY <1>3, <1>8, <2>2 DEF WorkInv, SubtasksInv
  <2> QED
    BY <2>1, <2>2
<1>12. \A q \in Requests : http'[q] \in {"returned", "submit"} => http'[q] = http[q]
  BY <1>2 DEF TypeOK
<1>13. StreamInv'
  <2>1. \A q \in Requests, j \in Slots : fut[q][j] = "value" => fut'[q][j] = "value"
    BY <1>3, <1>10
  <2> QED
    BY <1>0, <1>12, <2>1, InsFixed DEF WorkInv, StreamInv
<1> QED
  BY <1>6, <1>11, <1>13 DEF WorkInv

\* A result that an iteration appends keeps WorkInv: it is the next of its subtask.
LEMMA EmitsInv ==
  ASSUME TypeOK, WorkInv, NEW t \in Runners, Emits(t)
  PROVE  WorkInv'
<1> DEFINE r == job[t][1]
           i == job[t][2]
<1>0. UNCHANGED <<ins, nsub, ncol, results, job, fut, pool, http>>
  BY DEF Emits, Bookkeeping
<1>1. r \in Requests /\ i \in Slots /\ Owns(t) /\ pc[t] # "off" /\ pc[t] # "begin"
  BY NodeType DEF Emits, WorkInv, RunnersInv
<1>2. PICK e \in Results :
        /\ e.sub = i /\ e.iter = it[t]
        /\ out' = [out EXCEPT ![r][i] = Append(@, e)]
  BY DEF Emits
<1>3. it' = [it EXCEPT ![t] = @ + 1] /\ pc' = [pc EXCEPT ![t] = "begin"]
  BY DEF Emits
<1>4. fut[r][i] = "pending" /\ it[t] = Len(out[r][i]) /\ it[t] < Share(r, i)
  BY <1>1 DEF Owns
<1> HIDE DEF r, i
<1>5. out[r][i] \in Seq(Results) /\ Share(r, i) \in Nat
  BY <1>1, RequestTiles DEF TypeOK
<1>6. \A q \in Requests, j \in Slots :
        out'[q][j] = IF <<q, j>> = <<r, i>> THEN Append(out[r][i], e) ELSE out[q][j]
  BY <1>1, <1>2 DEF TypeOK
<1>7. /\ \A s \in Runners : s # t => pc'[s] = pc[s] /\ it'[s] = it[s]
      /\ pc'[t] = "begin" /\ it'[t] = it[t] + 1 /\ it[t] \in Nat
  BY <1>3 DEF TypeOK
<1>8. ASSUME NEW s \in Runners, pc'[s] # "off" PROVE Owns(s)'
  <2>1. CASE s = t
    <3>1. Len(out'[r][i]) = it'[t] /\ it'[t] <= Share(r, i)
      <4>1. out'[r][i] = Append(out[r][i], e)
        BY <1>1, <1>6
      <4>2. Len(Append(out[r][i], e)) = Len(out[r][i]) + 1 /\ Len(out[r][i]) \in Nat
        BY <1>2, <1>5
      <4> QED
        BY <1>4, <1>5, <1>7, <4>1, <4>2
    <3> QED
      BY <1>0, <1>1, <1>7, <2>1, <3>1, InsFixed DEF Owns, r, i
  <2>2. CASE s # t
    <3>1. pc[s] # "off" /\ Owns(s) /\ job[s] # job[t]
      BY <1>1, <1>7, <1>8, <2>2 DEF WorkInv, RunnersInv
    <3>2. job[s] \in Requests \X Slots /\ job[t] \in Requests \X Slots
      BY DEF TypeOK
    <3>3. <<job[s][1], job[s][2]>> # <<r, i>> /\ job[s][1] \in Requests /\ job[s][2] \in Slots
      BY <3>1, <3>2 DEF r, i
    <3>4. out'[job[s][1]][job[s][2]] = out[job[s][1]][job[s][2]]
      BY <1>6, <3>3
    <3> QED
      BY <1>0, <1>7, <2>2, <3>1, <3>4, InsFixed DEF Owns
  <2> QED
    BY <2>1, <2>2
<1>9. RunnersInv'
  <2>1. \A w \in Workers : pool[w] # "busy" => pc'[w] = "off"
    BY <1>1, <1>7 DEF WorkInv, RunnersInv, Runners, Owns
  <2> QED
    BY <1>0, <1>1, <1>7, <1>8, <2>1 DEF WorkInv, RunnersInv
<1>10. SubtasksInv'
  <2> SUFFICES ASSUME NEW q \in Requests, NEW j \in Slots
               PROVE  /\ \A n \in DOMAIN out'[q][j] : out'[q][j][n].sub = j /\ out'[q][j][n].iter = n - 1
                      /\ fut[q][j] = "none" => out'[q][j] = <<>>
                      /\ fut[q][j] = "value" => Len(out'[q][j]) = Share(q, j)
                      /\ Pooled(q) /\ j >= nsub[q] => fut[q][j] = "none"
                      /\ http[q] = "idle" => fut[q][j] = "none"
    BY <1>0, InsFixed DEF SubtasksInv
  <2>1. CASE <<q, j>> = <<r, i>>
    <3>1. q = r /\ j = i /\ out'[q][j] = Append(out[r][i], e)
      BY <1>6, <2>1
    <3>2. \A n \in DOMAIN out[r][i] : out[r][i][n].sub = i /\ out[r][i][n].iter = n - 1
      BY <1>1 DEF WorkInv, SubtasksInv
    <3>3. ASSUME NEW n \in DOMAIN Append(out[r][i], e)
          PROVE  Append(out[r][i], e)[n].sub = i /\ Append(out[r][i], e)[n].iter = n - 1
      <4>1. CASE n \in DOMAIN out[r][i]
        BY <1>5, <3>2, <4>1
      <4>2. CASE n \notin DOMAIN out[r][i]
        <5>1. n = Len(out[r][i]) + 1 /\ Append(out[r][i], e)[n] = e
          BY <1>5, <3>3, <4>2
        <5>2. n - 1 = it[t]
          BY <1>4, <1>5, <5>1
        <5> QED
          BY <1>2, <5>1, <5>2 DEF i
      <4> QED
        BY <4>1, <4>2
    <3> QED
      BY <1>4, <3>1, <3>3 DEF WorkInv, SubtasksInv
  <2>2. CASE <<q, j>> # <<r, i>>
    BY <1>6, <2>2 DEF WorkInv, SubtasksInv
  <2> QED
    BY <2>1, <2>2
<1>11. StreamInv'
  BY <1>0, InsFixed DEF WorkInv, StreamInv
<1> QED
  BY <1>9, <1>10, <1>11 DEF WorkInv

\* A web thread that fails or finishes without touching futures keeps WorkInv.
LEMMA PhaseInv ==
  ASSUME TypeOK, WorkInv, NEW r \in Requests, Reject(r) \/ Submitted(r) \/ Collected(r)
  PROVE  WorkInv'
<1>0. UNCHANGED <<ins, nsub, ncol, results, job, fut, out, pool, pc, it>>
  BY DEF Reject, Submitted, Collected, taskVars
<1>1. http[r] \in {"submit", "collect"} /\ http'[r] \notin {"idle", "inline", "submit"}
      /\ \A q \in Requests : q # r => http'[q] = http[q]
  BY DEF Reject, Submitted, Collected, Outcome, TypeOK
<1>2. http'[r] = "returned" /\ Consumes(r) => ncol[r] = NumSubs(r)
  BY DEF Reject, Submitted, Collected, TypeOK
<1>3. RunnersInv'
  <2>1. ASSUME NEW t \in Runners, pc[t] # "off" PROVE Owns(t)'
    <3>1. Owns(t) /\ job[t][1] \in Requests
      BY <2>1, NodeType DEF WorkInv, RunnersInv
    <3>2. t \notin Workers => http'[job[t][1]] = "inline"
      BY <1>1, <3>1 DEF Owns
    <3> QED
      BY <1>0, <3>1, <3>2, InsFixed DEF Owns
  <2> QED
    BY <1>0, <2>1 DEF WorkInv, RunnersInv
<1>4. SubtasksInv'
  BY <1>0, <1>1, InsFixed DEF WorkInv, SubtasksInv
<1>5. StreamInv'
  BY <1>0, <1>1, <1>2, InsFixed DEF WorkInv, StreamInv
<1> QED
  BY <1>3, <1>4, <1>5 DEF WorkInv

\* The arrival of a request keeps WorkInv: its web thread owns subtask 0, or nobody.
LEMMA ExecuteInv ==
  ASSUME TypeOK, WorkInv, NEW r \in Requests, Execute(r)
  PROVE  WorkInv'
<1>0. UNCHANGED <<ins, nsub, ncol, results, job, out, pool, it>> /\ http[r] = "idle"
  BY DEF Execute
<1>1. \A i \in Slots : fut[r][i] = "none" /\ out[r][i] = <<>>
  BY <1>0 DEF WorkInv, SubtasksInv
<1>2. 0 \in Slots /\ r \in Runners /\ job[r] = <<r, 0>> /\ NumSubs(r) \in Nat \ {0}
  BY SubsAreSlots, EngineAssumption DEF WorkInv, RunnersInv, Runners
<1>3. \A t \in Runners : pc[t] # "off" => job[t][1] # r
  BY <1>1, NodeType DEF WorkInv, RunnersInv, Owns
<1>4. CASE ~Pooled(r) /\ Consumes(r)
  <2>1. /\ http' = [http EXCEPT ![r] = "inline"]
        /\ fut' = [fut EXCEPT ![r][0] = "pending"]
        /\ pc' = [pc EXCEPT ![r] = "begin"]
    BY <1>4 DEF Execute
  <2>2. \A q \in Requests, j \in Slots :
          fut'[q][j] = IF q = r /\ j = 0 THEN "pending" ELSE fut[q][j]
    BY <2>1, <1>2 DEF TypeOK
  <2>3. pc[r] = "off" /\ it[r] = 0 /\ r \notin Workers
    BY <1>2, <1>3, EngineAssumption DEF WorkInv, RunnersInv
  <2>4. /\ \A s \in Runners : s # r => pc'[s] = pc[s]
        /\ pc'[r] = "begin"
        /\ \A q \in Requests : http'[q] = IF q = r THEN "inline" ELSE http[q]
    BY <1>2, <2>1 DEF TypeOK
  <2>5. ASSUME NEW s \in Runners, pc'[s] # "off" PROVE Owns(s)'
    <3>1. CASE s = r
      <4>1. Share(r, 0) \in Nat /\ Len(out[r][0]) = 0 /\ fut'[r][0] = "pending" /\ http'[r] = "inline"
        BY <1>1, <1>2, <2>2, <2>4, RequestTiles
      <4>2. job[r][1] = r /\ job[r][2] = 0
        BY <1>2
      <4> QED
        BY <1>0, <1>2, <1>4, <2>3, <2>4, <3>1, <4>1, <4>2, InsFixed DEF Owns
    <3>2. CASE s # r
      <4>1. Owns(s) /\ job[s][1] # r /\ job[s][1] \in Requests /\ job[s][2] \in Slots
        BY <1>3, <2>4, <2>5, <3>2, NodeType DEF WorkInv, RunnersInv
      <4> QED
        BY <1>0, <2>2, <2>4, <3>2, <4>1, InsFixed DEF Owns
    <3> QED
      BY <3>1, <3>2
  <2>6. RunnersInv'
    <3>1. \A s \in Runners : s # r /\ pc[s] # "off" => job[s] # job[r]
      BY <1>2, <1>3
    <3>2. \A w \in Workers : w # r
      BY <2>3
    <3> QED
      BY <1>0, <1>2, <2>3, <2>4, <2>5, <3>1, <3>2 DEF WorkInv, RunnersInv, Runners
  <2>7. SubtasksInv'
    BY <1>0, <1>1, <1>2, <1>4, <2>2, <2>4, InsFixed DEF WorkInv, SubtasksInv
  <2>8. StreamInv'
    BY <1>0, <1>1, <1>2, <2>2, <2>4, InsFixed DEF WorkInv, StreamInv
  <2> QED
    BY <2>6, <2>7, <2>8 DEF WorkInv
<1>5. CASE Pooled(r) \/ ~Consumes(r)
  <2>1. UNCHANGED <<fut, pc>> /\ http'[r] \in {"submit", "returned", "failed"}
        /\ (http'[r] = "returned" => ~Consumes(r)) /\ (http'[r] = "submit" => Pooled(r))
        /\ \A q \in Requests : q # r => http'[q] = http[q]
    BY <1>5 DEF Execute, Outcome, TypeOK
  <2>2. ASSUME NEW s \in Runners, pc[s] # "off" PROVE Owns(s)'
    <3>1. Owns(s) /\ job[s][1] # r /\ job[s][1] \in Requests
      BY <1>3, <2>2, NodeType DEF WorkInv, RunnersInv
    <3> QED
      BY <1>0, <2>1, <3>1, InsFixed DEF Owns
  <2>3. RunnersInv'
    BY <1>0, <2>1, <2>2 DEF WorkInv, RunnersInv
  <2>4. SubtasksInv'
    BY <1>0, <2>1, InsFixed DEF WorkInv, SubtasksInv
  <2>5. StreamInv'
    BY <1>0, <2>1, InsFixed DEF WorkInv, StreamInv
  <2> QED
    BY <2>3, <2>4, <2>5 DEF WorkInv
<1> QED
  BY <1>4, <1>5

\* Handing a subtask to a worker keeps WorkInv: the worker was free and owns it now.
LEMMA SubmitInv ==
  ASSUME TypeOK, WorkInv, NEW r \in Requests, Submit(r)
  PROVE  WorkInv'
<1> DEFINE k == nsub[r]
<1>0. UNCHANGED <<ins, http, ncol, results, out>> /\ http[r] = "submit" /\ k < NumSubs(r)
  BY DEF Submit
<1>1. NumSubs(r) \in 1 .. MaxThreads /\ k \in Nat
  BY SubsAreSlots DEF TypeOK
<1>2. k \in Slots
  BY <1>0, <1>1, EngineAssumption DEF Slots
<1>3. Pooled(r) /\ fut[r][k] = "none" /\ out[r][k] = <<>>
  BY <1>0, <1>1, <1>2 DEF WorkInv, SubtasksInv, StreamInv
<1>4. PICK w \in Candidates :
        /\ pool' = [pool EXCEPT ![w] = "busy"]
        /\ job' = [job EXCEPT ![w] = <<r, k>>]
        /\ pc' = [pc EXCEPT ![w] = "begin"]
        /\ it' = [it EXCEPT ![w] = 0]
  BY DEF Submit
<1>5. w \in Workers /\ w \in Runners /\ pool[w] # "busy" /\ w \notin Requests
  BY EngineAssumption DEF Candidates, Polling, Alive, Runners
<1>6. pc[w] = "off"
  BY <1>5 DEF WorkInv, RunnersInv
<1>7. /\ \A s \in Runners : s # w => pc'[s] = pc[s] /\ it'[s] = it[s] /\ job'[s] = job[s]
      /\ pc'[w] = "begin" /\ it'[w] = 0 /\ job'[w] = <<r, k>>
      /\ \A v \in Workers : pool'[v] = IF v = w THEN "busy" ELSE pool[v]
  BY <1>4, <1>5 DEF TypeOK
<1>8. \A q \in Requests, j \in Slots :
        fut'[q][j] = IF q = r /\ j = k THEN "pending" ELSE fut[q][j]
  <2>1. fut' = [fut EXCEPT ![r][k] = "pending"]
    BY DEF Submit
  <2> QED
    BY <1>2, <2>1 DEF TypeOK
<1>9. nsub'[r] = k + 1 /\ \A q \in Requests : q # r => nsub'[q] = nsub[q]
  BY DEF Submit, TypeOK
<1> HIDE DEF k
<1>10. ASSUME NEW s \in Runners, s # w, pc[s] # "off"
       PROVE  job[s] # <<r, k>> /\ Owns(s)'
  <2>1. Owns(s) /\ job[s][1] \in Requests /\ job[s][2] \in Slots
    BY <1>10, NodeType DEF WorkInv, RunnersInv
  <2>2. fut[job[s][1]][job[s][2]] = "pending"
    BY <2>1 DEF Owns
  <2>3. ~(job[s][1] = r /\ job[s][2] = k)
    BY <1>3, <2>2
  <2>4. fut'[job[s][1]][job[s][2]] = "pending"
    BY <1>8, <2>1, <2>2, <2>3
  <2>5. s \in Workers => pool'[s] = pool[s]
    BY <1>7, <1>10
  <2>6. job[s] # <<r, k>>
    BY <2>3
  <2> QED
    BY <1>0, <1>7, <1>10, <2>1, <2>4, <2>5, <2>6, InsFixed DEF Owns
<1>11. Owns(w)'
  <2>1. job'[w][1] = r /\ job'[w][2] = k
    BY <1>7
  <2>2. Share(r, k) \in Nat /\ Len(out[r][k]) = 0 /\ fut'[r][k] = "pending"
    BY <1>2, <1>3, <1>8, RequestTiles
  <2> QED
    BY <1>0, <1>3, <1>5, <1>7, <2>1, <2>2, InsFixed DEF Owns, k
<1>12. RunnersInv'
  <2>1. \A s \in Runners : IF pc'[s] = "off" THEN it'[s] = 0 ELSE Owns(s)'
    BY <1>7, <1>10, <1>11 DEF WorkInv, RunnersInv
  <2>2. \A v \in Workers : pool'[v] # "busy" => pc'[v] = "off"
    BY <1>7 DEF WorkInv, RunnersInv, Runners
  <2>3. ASSUME NEW s \in Runners, NEW t \in Runners, s # t, pc'[s] # "off", pc'[t] # "off"
        PROVE  job'[s] # job'[t]
    BY <1>7, <1>10, <2>3 DEF WorkInv, RunnersInv
  <2>4. \A q \in Requests : job'[q] = <<q, 0>>
    BY <1>5, <1>7 DEF WorkInv, RunnersInv, Runners
  <2> QED
    BY <2>1, <2>2, <2>3, <2>4 DEF RunnersInv
<1>13. SubtasksInv'
  <2> SUFFICES ASSUME NEW q \in Requests, NEW j \in Slots
               PROVE  /\ \A n \in DOMAIN out[q][j] : out[q][j][n].sub = j /\ out[q][j][n].iter = n - 1
                      /\ fut'[q][j] = "none" => out[q][j] = <<>>
                      /\ fut'[q][j] = "value" => Len(out[q][j]) = Share(q, j)
                      /\ Pooled(q) /\ j >= nsub'[q] => fut'[q][j] = "none"
                      /\ http[q] = "idle" => fut'[q][j] = "none"
    BY <1>0, InsFixed DEF SubtasksInv
  <2>1. CASE q = r
    <3>1. j >= nsub'[q] => j >= nsub[q] /\ j # k
      BY <1>1, <1>9, <2>1, EngineAssumption DEF Slots, k
    <3> QED
      BY <1>0, <1>8, <2>1, <3>1 DEF WorkInv, SubtasksInv
  <2>2. CASE q # r
    BY <1>8, <1>9, <2>2 DEF WorkInv, SubtasksInv
  <2> QED
    BY <2>1, <2>2
<1>14. StreamInv'
  <2>1. \A q \in Requests, j \in Slots : fut[q][j] = "value" => fut'[q][j] = "value"
    BY <1>3, <1>8
  <2> QED
    BY <1>0, <2>1, InsFixed DEF WorkInv, StreamInv
<1> QED
  BY <1>12, <1>13, <1>14 DEF WorkInv

\* Taking the next future keeps WorkInv: its results continue the stream in order.
LEMMA CollectInv ==
  ASSUME TypeOK, WorkInv, NEW r \in Requests, Collect(r)
  PROVE  WorkInv'
<1> DEFINE k == ncol[r]
<1>0. UNCHANGED <<ins, nsub, fut, out, pool, job, pc, it>> /\ http[r] = "collect" /\ k < NumSubs(r)
  BY DEF Collect, taskVars
<1>1. NumSubs(r) \in 1 .. MaxThreads /\ k \in Nat /\ k \in Slots
  <2>1. NumSubs(r) \in 1 .. MaxThreads /\ k \in Nat
    BY SubsAreSlots DEF TypeOK
  <2> QED
    BY <1>0, <2>1, EngineAssumption DEF Slots
<1>2. http'[r] \in {"collect", "failed"} /\ \A q \in Requests : q # r => http'[q] = http[q]
  BY <1>0 DEF Collect, TypeOK
<1>3. RunnersInv'
  <2>1. ASSUME NEW t \in Runners, pc[t] # "off" PROVE Owns(t)'
    <3>1. Owns(t) /\ job[t][1] \in Requests
      BY <2>1, NodeType DEF WorkInv, RunnersInv
    <3>2. t \notin Workers => http'[job[t][1]] = "inline"
      BY <1>0, <1>2, <3>1 DEF Owns
    <3> QED
      BY <1>0, <3>1, <3>2, InsFixed DEF Owns
  <2> QED
    BY <1>0, <2>1 DEF WorkInv, RunnersInv
<1>4. SubtasksInv'
  BY <1>0, <1>2, InsFixed DEF WorkInv, SubtasksInv
<1>5. CASE fut[r][k] # "value"
  <2>1. UNCHANGED <<results, ncol>>
    BY <1>5 DEF Collect
  <2>2. StreamInv'
    BY <1>0, <1>2, <2>1, InsFixed DEF WorkInv, StreamInv
  <2> QED
    BY <1>3, <1>4, <2>2 DEF WorkInv
<1>6. CASE fut[r][k] = "value"
  <2> DEFINE a == results[r]
             b == out[r][k]
  <2>1. /\ results' = [results EXCEPT ![r] = a \o b]
        /\ ncol' = [ncol EXCEPT ![r] = k + 1]
    BY <1>6 DEF Collect
  <2>2. a \in Seq(Results) /\ b \in Seq(Results)
    BY <1>1 DEF TypeOK
  <2>3. /\ Len(a) = Offset(r, k) /\ Len(b) = Share(r, k)
        /\ \A n \in DOMAIN b : b[n].sub = k /\ b[n].iter = n - 1
        /\ \A m \in DOMAIN a : a[m].sub < k /\ m = Offset(r, a[m].sub) + a[m].iter + 1
    BY <1>1, <1>6 DEF WorkInv, SubtasksInv, StreamInv
  <2>4. Offset(r, k) \in Nat /\ Share(r, k) \in Nat /\ Offset(r, k + 1) = Offset(r, k) + Share(r, k)
    BY <1>0, <1>1, RequestTiles
  <2>5. /\ results'[r] = a \o b /\ ncol'[r] = k + 1
        /\ \A q \in Requests : q # r => results'[q] = results[q] /\ ncol'[q] = ncol[q]
    BY <2>1 DEF TypeOK
  <2> HIDE DEF a, b
  <2>6. Len(a \o b) = Offset(r, k + 1)
    <3>1. Len(a \o b) = Len(a) + Len(b)
      BY <2>2
    <3> QED
      BY <2>3, <2>4, <3>1
  <2>7. ASSUME NEW m \in DOMAIN (a \o b)
        PROVE  (a \o b)[m].sub < k + 1 /\ m = Offset(r, (a \o b)[m].sub) + (a \o b)[m].iter + 1
    <3>1. CASE m \in DOMAIN a
      <4>1. (a \o b)[m] = a[m] /\ a[m] \in Results
        BY <2>2, <3>1
      <4>2. a[m].sub \in Nat
        BY <4>1 DEF Results
      <4> QED
        BY <1>1, <2>3, <3>1, <4>1, <4>2
    <3>2. CASE m \notin DOMAIN a
      <4>1. m - Len(a) \in DOMAIN b /\ (a \o b)[m] = b[m - Len(a)] /\ m \in Nat /\ Len(a) \in Nat
        BY <2>2, <2>7, <3>2
      <4>2. (a \o b)[m].sub = k /\ (a \o b)[m].iter = m - Len(a) - 1
        BY <2>3, <4>1
      <4>3. m = Offset(r, k) + (m - Len(a) - 1) + 1
        BY <2>3, <4>1
      <4>4. k < k + 1
        BY <1>1
      <4> QED
        BY <4>2, <4>3, <4>4
    <3> QED
      BY <3>1, <3>2
  <2>8. StreamInv'
    <3> SUFFICES ASSUME NEW q \in Requests
                 PROVE  /\ ncol'[q] <= NumSubs(q)
                        /\ \A i \in Slots : i < ncol'[q] => fut[q][i] = "value"
                        /\ Len(results'[q]) = Offset(q, ncol'[q])
                        /\ \A m \in DOMAIN results'[q] :
                             /\ results'[q][m].sub < ncol'[q]
                             /\ m = Offset(q, results'[q][m].sub) + results'[q][m].iter + 1
                        /\ http'[q] = "returned" /\ Consumes(q) => ncol'[q] = NumSubs(q)
                        /\ http'[q] = "submit" => Pooled(q)
      BY <1>0, InsFixed DEF StreamInv
    <3>1. CASE q = r
      <4>1. \A i \in Slots : i < k + 1 => fut[r][i] = "value"
        <5>1. \A i \in Slots : i < k + 1 => i < k \/ i = k
          BY <1>1, EngineAssumption DEF Slots
        <5> QED
          BY <1>6, <5>1 DEF WorkInv, StreamInv
      <4>2. k + 1 <= NumSubs(r)
        BY <1>0, <1>1
      <4>3. http'[r] \notin {"returned", "submit"}
        BY <1>2
      <4> QED
        BY <2>5, <2>6, <2>7, <3>1, <4>1, <4>2, <4>3
    <3>2. CASE q # r
      BY <1>2, <2>5, <3>2 DEF WorkInv, StreamInv
    <3> QED
      BY <3>1, <3>2
  <2> QED
    BY <1>3, <1>4, <2>8 DEF WorkInv
<1> QED
  BY <1>5, <1>6

\* A worker that polls or ends keeps WorkInv: it owns nothing.
LEMMA PoolInv ==
  ASSUME TypeOK, WorkInv, NEW w \in Workers, Poll(w) \/ Expire(w)
  PROVE  WorkInv'
<1>0. UNCHANGED <<ins, http, nsub, ncol, results, fut, out, job, pc, it>>
  BY DEF Poll, Expire, webVars, taskVars
<1>1. pool[w] # "busy" /\ pool'[w] # "busy" /\ \A v \in Workers : v # w => pool'[v] = pool[v]
  BY DEF Poll, Expire, TypeOK
<1>2. RunnersInv'
  <2>1. \A t \in Runners : pc[t] # "off" => Owns(t)'
    BY <1>0, <1>1, InsFixed DEF WorkInv, RunnersInv, Owns
  <2> QED
    BY <1>0, <1>1, <2>1 DEF WorkInv, RunnersInv
<1>3. SubtasksInv' /\ StreamInv'
  BY <1>0, InsFixed DEF WorkInv, SubtasksInv, StreamInv
<1> QED
  BY <1>2, <1>3 DEF WorkInv

\* Subtasks, futures and the collected stream stay consistent in every
\* interleaving of web threads and workers.
THEOREM WorkInvariant == Spec => []WorkInv
<1>1. Init => WorkInv
  <2> SUFFICES ASSUME Init PROVE WorkInv
    OBVIOUS
  <2>0. TypeOK
    BY InitType
  <2>1. RunnersInv
    BY EngineAssumption DEF Init, RunnersInv, Runners
  <2>2. SubtasksInv
    BY DEF Init, SubtasksInv
  <2>3. StreamInv
    <3>1. \A r \in Requests : NumSubs(r) \in Nat /\ Offset(r, 0) = 0
      BY <2>0, SubsAreSlots, RequestTiles, EngineAssumption
    <3>2. Slots \subseteq Nat
      BY EngineAssumption DEF Slots
    <3> QED
      BY <3>1, <3>2 DEF Init, StreamInv
  <2> QED
    BY <2>1, <2>2, <2>3 DEF WorkInv
<1>2. TypeOK /\ WorkInv /\ [Next]_vars => WorkInv'
  <2> SUFFICES ASSUME TypeOK, WorkInv, [Next]_vars PROVE WorkInv'
    OBVIOUS
  <2>1. ASSUME NEW r \in Requests, WebStep(r) PROVE WorkInv'
    BY <2>1, ExecuteInv, SubmitInv, PhaseInv, CollectInv DEF WebStep
  <2>2. ASSUME NEW t \in Runners, RunnerStep(t) PROVE WorkInv'
    BY <2>2, RunnerKinds, MovesInv, EndsInv, EmitsInv
  <2>3. CASE UNCHANGED vars
    BY <2>3, InsFixed DEF vars, WorkInv, RunnersInv, SubtasksInv, StreamInv, Owns
  <2> QED
    BY <2>1, <2>2, <2>3, PoolInv DEF Next, Idle
<1> QED
  BY <1>1, <1>2, TypeCorrect, PTL DEF Spec

\* Whatever the number of threads, an execute that returned a collected result
\* has performed each of the requested iterations exactly once.
THEOREM EveryIterationOnce == Spec => []ExactlyTimes
<1>1. TypeOK /\ WorkInv => ExactlyTimes
  <2> SUFFICES ASSUME TypeOK, WorkInv, NEW r \in Requests, http[r] = "returned", Consumes(r)
               PROVE  /\ Len(results[r]) = Total(r)
                      /\ \A m, n \in DOMAIN results[r] : m # n =>
                           <<results[r][m].sub, results[r][m].iter>>
                             # <<results[r][n].sub, results[r][n].iter>>
    BY DEF ExactlyTimes
  <2>1. ncol[r] = NumSubs(r) /\ Len(results[r]) = Offset(r, ncol[r])
    BY DEF WorkInv, StreamInv
  <2>2. \A m \in DOMAIN results[r] : m = Offset(r, results[r][m].sub) + results[r][m].iter + 1
    BY DEF WorkInv, StreamInv
  <2> QED
    BY <2>1, <2>2, RequestTiles
<1> QED
  BY <1>1, TypeCorrect, WorkInvariant, PTL

\* An execute that returned a collected result leaves no subtask running.
THEOREM ReturnLeavesNothingRunning == Spec => []NoStragglers
<1>1. TypeOK /\ WorkInv => NoStragglers
  <2> SUFFICES ASSUME TypeOK, WorkInv, NEW r \in Requests, http[r] = "returned", Consumes(r),
                      NEW t \in Runners, pc[t] # "off", job[t][1] = r
               PROVE  FALSE
    BY DEF NoStragglers
  <2>1. Owns(t) /\ job[t][2] \in Slots
    BY NodeType DEF WorkInv, RunnersInv
  <2>2. job[t][2] < ncol[r]
    BY <2>1 DEF WorkInv, StreamInv, Owns
  <2>3. fut[r][job[t][2]] = "value"
    BY <2>1, <2>2 DEF WorkInv, StreamInv
  <2> QED
    BY <2>1, <2>3 DEF Owns
<1> QED
  BY <1>1, TypeCorrect, WorkInvariant, PTL
=============================================================================
