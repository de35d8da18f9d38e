--------------------- MODULE PowerfulServiceResultProofs ---------------------
(* Theorems about what the iterations of PowerfulService call and return, for  *)
(* every pool size, every instruction and every interleaving.                  *)
EXTENDS PowerfulServiceProofs

-----------------------------------------------------------------------------
(* The node of the next hop *)

\* The operators that only depend on the instruction keep their values.
LEMMA TargetFixed ==
  ASSUME ins' = ins
  PROVE  /\ \A r : Undisturbed(r)' <=> Undisturbed(r)
         /\ \A r : Target(r)' = Target(r) /\ Original(r)' = Original(r)
         /\ \A r : Called(r)' = Called(r) /\ Final(r)' = Final(r)
         /\ \A r : Rewritten(r)' = Rewritten(r) /\ Finished(r)' = Finished(r)
<1>1. \A r : (Pooled(r)' <=> Pooled(r)) /\ Unprefixed(r)' = Unprefixed(r)
  BY DEF Pooled, Unprefixed
<1>2. \A r : Target(r)' = Target(r) /\ Final(r)' = Final(r)
  BY <1>1 DEF Target, Final, Rendered
<1>3. \A r : Called(r)' = Called(r)
  BY <1>2 DEF Called
<1> QED
  BY <1>1, <1>2, <1>3 DEF Undisturbed, Original, Rewritten, Finished

\* What rendering leaves of a target: the target itself or nothing, and only one of
\* them when threads share the node.
LEMMA FinalFacts ==
  ASSUME TypeOK, NEW r \in Requests
  PROVE  /\ Final(r) \subseteq {"", Target(r).call}
         /\ Unprefixed(r) # "dubbo" /\ "dubbo" \notin Final(r)
         /\ \A c \in {Unprefixed(r)} \cup Final(r) : Rendered(r, c) \ {"throw"} \subseteq Final(r)
         /\ Undisturbed(r) /\ Pooled(r) /\ ins[r].rr = 0 =>
              \A c, d \in Final(r) : c # "" => d # ""
<1>1. ins[r].call \in Calls \ {"cut"} /\ ins[r].renders \subseteq Outcomes
  BY InstructionType DEF TypeOK
<1>2. CASE Unprefixed(r) = "tmpl"
  <2>1. Target(r).call = "url" /\ Final(r) = ins[r].renders \ {"throw"}
    BY <1>2 DEF Target, Final, Rendered
  <2>2. Final(r) \subseteq {"", "url"}
    BY <1>1, <2>1 DEF Outcomes
  <2>3. \A c \in Final(r) : Rendered(r, c) = {c}
    BY <2>2 DEF Rendered
  <2>4. Undisturbed(r) /\ Pooled(r) /\ ins[r].rr = 0 => \A c, d \in Final(r) : c # "" => d # ""
    BY <2>2 DEF Undisturbed
  <2>5. Rendered(r, Unprefixed(r)) \ {"throw"} = Final(r)
    BY DEF Final
  <2>6. \A c \in {Unprefixed(r)} \cup Final(r) : Rendered(r, c) \ {"throw"} \subseteq Final(r)
    BY <2>3, <2>5
  <2> QED
    BY <1>2, <2>1, <2>2, <2>4, <2>6
<1>3. CASE Unprefixed(r) # "tmpl"
  <2>1. Unprefixed(r) \in Calls \ {"cut", "dubbo", "tmpl"} /\ Target(r).call = Unprefixed(r)
    BY <1>1, <1>3 DEF Unprefixed, Target, Calls
  <2>2. Rendered(r, Unprefixed(r)) = {Unprefixed(r)} /\ Unprefixed(r) # "throw"
    BY <2>1 DEF Rendered, Calls
  <2>3. Final(r) = {Unprefixed(r)}
    BY <2>2 DEF Final
  <2> QED
    BY <2>1, <2>2, <2>3
<1> QED
  BY <1>2, <1>3

\* What rendering and cutting do to the nodes of a request.
LEMMA NodeFacts ==
  ASSUME TypeOK, NEW r \in Requests
  PROVE  /\ \A n \in Rewritten(r) :
              /\ n.call # "dubbo" /\ n.by = Target(r).by
              /\ Rendered(r, n.call) \ {"throw"} \subseteq Final(r)
              /\ \A c \in Final(r) : [n EXCEPT !.call = c] \in Finished(r)
         /\ Finished(r) \subseteq Rewritten(r)
         /\ \A n \in Finished(r) : n.call \in Final(r) /\ (n.call = "" \/ n = Called(r))
         /\ ins[r].call # "dubbo" => Original(r) \in Rewritten(r)
         /\ ins[r].call = "dubbo" =>
              [[Original(r) EXCEPT !.call = "tmpl"] EXCEPT !.by = "dubbo"] \in Rewritten(r)
         /\ Original(r).call = ins[r].call
<1>1. \A n : n \in Rewritten(r) <=>
        \E c \in {Unprefixed(r)} \cup Final(r) : n = [call |-> c, by |-> Target(r).by]
  BY DEF Rewritten, Called
<1>2. \A n : n \in Finished(r) <=> \E c \in Final(r) : n = [call |-> c, by |-> Target(r).by]
  BY DEF Finished, Called
<1>3. ASSUME NEW n \in Rewritten(r)
      PROVE  /\ n.call # "dubbo" /\ n.by = Target(r).by
             /\ Rendered(r, n.call) \ {"throw"} \subseteq Final(r)
             /\ \A c \in Final(r) : [n EXCEPT !.call = c] \in Finished(r)
  <2>1. PICK d \in {Unprefixed(r)} \cup Final(r) : n = [call |-> d, by |-> Target(r).by]
    BY <1>1
  <2>2. n.call = d /\ n.by = Target(r).by /\ \A c : [n EXCEPT !.call = c] = [call |-> c, by |-> Target(r).by]
    BY <2>1
  <2>3. d # "dubbo" /\ Rendered(r, d) \ {"throw"} \subseteq Final(r)
    BY FinalFacts
  <2> QED
    BY <1>2, <2>2, <2>3
<1>4. ASSUME NEW n \in Finished(r)
      PROVE  n \in Rewritten(r) /\ n.call \in Final(r) /\ (n.call = "" \/ n = Called(r))
  <2>1. PICK c \in Final(r) : n = [call |-> c, by |-> Target(r).by]
    BY <1>2
  <2>2. c = "" \/ c = Target(r).call
    BY FinalFacts
  <2> QED
    BY <1>1, <2>1, <2>2 DEF Called
<1>6. CASE ins[r].call # "dubbo"
  <2>1. Target(r).by = ins[r].by /\ Unprefixed(r) = ins[r].call
    BY <1>6 DEF Target, Unprefixed
  <2> QED
    BY <1>1, <1>3, <1>4, <1>6, <2>1 DEF Original
<1>7. CASE ins[r].call = "dubbo"
  <2>1. Target(r).by = "dubbo" /\ Unprefixed(r) = "tmpl"
    BY <1>7 DEF Target, Unprefixed
  <2>2. [[Original(r) EXCEPT !.call = "tmpl"] EXCEPT !.by = "dubbo"] = [call |-> "tmpl", by |-> "dubbo"]
    <3>1. [Original(r) EXCEPT !.call = "tmpl"] = [call |-> "tmpl", by |-> ins[r].by]
      BY DEF Original
    <3>2. \A b : [[call |-> "tmpl", by |-> b] EXCEPT !.by = "dubbo"] = [call |-> "tmpl", by |-> "dubbo"]
      OBVIOUS
    <3> QED
      BY <3>1, <3>2
  <2> QED
    BY <1>1, <1>3, <1>4, <1>7, <2>1, <2>2 DEF Original
<1> QED
  BY <1>6, <1>7

\* A node that was stored is the node the runner works on.
LEMMA SetNodeIs ==
  ASSUME TypeOK, NEW t \in Runners, NEW n, SetNode(t, n), UNCHANGED <<ins, job>>
  PROVE  /\ NodeOf(t)' = n
         /\ \A s \in Runners : s # t => copy'[s] = copy[s]
         /\ \A q \in Requests : q # job[t][1] \/ ins[q].rr # 0 => node'[q] = node[q]
         /\ ins[job[t][1]].rr = 0 => node'[job[t][1]] = n
<1>0. job[t][1] \in Requests
  BY NodeType
<1>1. CASE ins[job[t][1]].rr = 0
  BY <1>0, <1>1 DEF SetNode, NodeOf, TypeOK
<1>2. CASE ins[job[t][1]].rr # 0
  BY <1>0, <1>2 DEF SetNode, NodeOf, TypeOK
<1> QED
  BY <1>1, <1>2

\* Steps that leave the nodes and the locals alone keep CallInv, when the threads
\* they move go to a label at which nothing is claimed.
LEMMA QuietStep ==
  ASSUME TypeOK, CallInv, UNCHANGED <<ins, node, reg, copy, sent>>,
         \A s \in Runners :
           \/ pc'[s] = pc[s] /\ job'[s] = job[s]
           \/ pc'[s] \in {"off", "begin", "result"} /\ pc[s] # "by"
  PROVE  CallInv'
<1>1. ASSUME NEW r \in Requests, Undisturbed(r) PROVE SharedNode(r)'
  <2>1. SharedNode(r) /\ r \in Runners
    BY <1>1 DEF CallInv, Runners
  <2>2. pc'[r] # "by" => pc[r] # "by"
    BY <2>1
  <2> QED
    BY <2>1, <2>2, TargetFixed DEF SharedNode
<1>2. ASSUME NEW s \in Runners, pc'[s] # "off", Undisturbed(job'[s][1]) PROVE NodeOfRunner(s)'
  <2>1. CASE pc'[s] = pc[s] /\ job'[s] = job[s]
    <3>1. NodeOfRunner(s)
      BY <1>2, <2>1 DEF CallInv
    <3>2. NodeOf(s)' = NodeOf(s)
      BY <2>1 DEF NodeOf
    <3>3. PICK q : q = job[s][1] /\ q = job'[s][1]
      BY <2>1
    <3>4. /\ Target(q)' = Target(q) /\ Original(q)' = Original(q) /\ Final(q)' = Final(q)
          /\ Rewritten(q)' = Rewritten(q) /\ Finished(q)' = Finished(q)
      BY TargetFixed
    <3> QED
      BY <2>1, <3>1, <3>2, <3>3, <3>4 DEF NodeOfRunner
  <2>2. CASE pc'[s] \in {"off", "begin", "result"}
    BY <2>2 DEF NodeOfRunner
  <2> QED
    BY <1>2, <2>1, <2>2
<1>3. CallIntact'
  BY TargetFixed DEF CallInv, CallIntact
<1> QED
  BY <1>1, <1>2, <1>3, TargetFixed DEF CallInv

\* A step of runner t leaves the threads and the requests it does not work for alone.
LEMMA RunnerFrame ==
  ASSUME TypeOK, NEW t \in Runners, RunnerStep(t)
  PROVE  /\ UNCHANGED <<ins, job>> /\ pc[t] # "off"
         /\ \A s \in Runners : s # t => pc'[s] = pc[s] /\ reg'[s] = reg[s] /\ copy'[s] = copy[s]
         /\ \A q \in Requests : q # job[t][1] => node'[q] = node[q]
<1>0. UNCHANGED <<ins, job>> /\ pc[t] # "off"
  BY DEF RunnerStep, Finish, Begin, CheckCall, StripCall, StoreStripped, StoreBy, Lookup,
         RenderCall, StoreRendered, CheckTarget, Invoke, RenderResult, webVars
<1>1. \E l : pc' = [pc EXCEPT ![t] = l]
  <2>1. Raise(t) => \E l : pc' = [pc EXCEPT ![t] = l]
    BY DEF Raise, EndTask, Goto
  <2> QED
    BY <2>1 DEF RunnerStep, Finish, Begin, CheckCall, StripCall, StoreStripped, StoreBy, Lookup,
           RenderCall, StoreRendered, CheckTarget, Invoke, RenderResult, EndTask, Goto
<1>2. reg' = reg \/ (\E c : reg' = [reg EXCEPT ![t].call = c]) \/ (\E b : reg' = [reg EXCEPT ![t].by = b])
  BY DEF RunnerStep, Finish, Begin, CheckCall, StripCall, StoreStripped, StoreBy, Lookup,
         RenderCall, StoreRendered, CheckTarget, Invoke, RenderResult, iterVars
<1>3. copy' = copy \/ \E n : copy' = [copy EXCEPT ![t] = n]
  BY DEF RunnerStep, Finish, Begin, CheckCall, StripCall, StoreStripped, StoreBy, Lookup,
         RenderCall, StoreRendered, CheckTarget, Invoke, RenderResult, iterVars, SetNode
<1>4. node' = node \/ \E n : node' = [node EXCEPT ![job[t][1]] = n]
  BY DEF RunnerStep, Finish, Begin, CheckCall, StripCall, StoreStripped, StoreBy, Lookup,
         RenderCall, StoreRendered, CheckTarget, Invoke, RenderResult, iterVars, SetNode
<1> QED
  BY <1>0, <1>1, <1>2, <1>3, <1>4 DEF TypeOK

\* An exception leads to the tail of the iteration or out of the subtask.
LEMMA RaiseGoes ==
  ASSUME TypeOK, NEW t \in Runners, Raise(t)
  PROVE  pc'[t] \in {"off", "result"}
BY DEF Raise, EndTask, Goto, TypeOK

\* What the step of a runner claims of its own node, when nobody races with it.
LEMMA OwnNode ==
  ASSUME TypeOK, CallInv, NEW t \in Runners, RunnerStep(t),
         NEW r \in Requests, r = job[t][1], Undisturbed(r), ~Pooled(r) => r = t
  PROVE  /\ NodeOfRunner(t)'
         /\ \A q \in Requests : q # r \/ ins[q].rr # 0 => node'[q] = node[q]
         /\ \/ node'[r] = node[r] /\ pc[t] # "by"
            \/ node'[r] \in Rewritten(r)
            \/ ins[r].call = "dubbo" /\ pc'[t] = "by"
            \/ ins[r].rr # 0
         /\ ins[r].call # "dubbo" => node'[r] \in {node[r]} \cup Finished(r)
         /\ \A e \in sent' :
              e \in sent \/ (e.req = r /\ e.by = Target(r).by /\ e.call = Target(r).call)
<1>0. UNCHANGED <<ins, job>> /\ pc[t] # "off" /\ NodeOfRunner(t) /\ SharedNode(r)
  BY RunnerFrame DEF CallInv
<1>1. /\ \A q : Target(q)' = Target(q) /\ Original(q)' = Original(q)
      /\ \A q : Called(q)' = Called(q) /\ Final(q)' = Final(q)
      /\ \A q : Rewritten(q)' = Rewritten(q) /\ Finished(q)' = Finished(q)
  BY <1>0, TargetFixed
<1>2. job'[t][1] = r
  BY <1>0
<1>3. /\ \A n \in Rewritten(r) :
           /\ n.call # "dubbo" /\ n.by = Target(r).by
           /\ Rendered(r, n.call) \ {"throw"} \subseteq Final(r)
           /\ \A c \in Final(r) : [n EXCEPT !.call = c] \in Finished(r)
      /\ Finished(r) \subseteq Rewritten(r)
      /\ \A n \in Finished(r) : n.call \in Final(r) /\ (n.call = "" \/ n = Called(r))
      /\ ins[r].call # "dubbo" => Original(r) \in Rewritten(r)
      /\ ins[r].call = "dubbo" =>
           [[Original(r) EXCEPT !.call = "tmpl"] EXCEPT !.by = "dubbo"] \in Rewritten(r)
      /\ Original(r).call = ins[r].call
  BY <1>0, NodeFacts
<1>5. CASE Finish(t) \/ RenderResult(t)
  <2>1. UNCHANGED <<node, sent>> /\ pc[t] # "by" /\ pc'[t] \in {"off", "begin"}
    BY <1>5 DEF Finish, RenderResult, EndTask, Goto, iterVars, TypeOK
  <2>2. NodeOfRunner(t)'
    BY <2>1 DEF NodeOfRunner
  <2> QED
    BY <2>1, <2>2
<1>6. CASE Begin(t)
  <2>1. UNCHANGED <<node, reg, sent>> /\ pc[t] = "begin"
    BY <1>6 DEF Begin
  <2>2. pc'[t] \in {"off", "result", "check"}
    BY <1>6, RaiseGoes DEF Begin, Goto, TypeOK
  <2>3. NodeOf(t)' = node[r]
    BY <1>0, <1>6 DEF Begin, NodeOf, TypeOK
  <2>4. node[r] \in Rewritten(r) \cup {Original(r)}
    <3>1. CASE ins[r].rr # 0
      BY <1>0, <3>1 DEF SharedNode
    <3>2. CASE ins[r].rr = 0
      <4>1. ins[r].call # "dubbo" \/ pc[r] # "by"
        BY <2>1, <3>2 DEF Undisturbed
      <4> QED
        BY <1>0, <4>1 DEF SharedNode
    <3> QED
      BY <3>1, <3>2
  <2>5. NodeOfRunner(t)'
    BY <1>1, <1>2, <2>2, <2>3, <2>4 DEF NodeOfRunner
  <2> QED
    BY <2>1, <2>5
<1>7. CASE CheckCall(t)
  <2>1. UNCHANGED <<node, reg, copy, sent>> /\ pc[t] = "check"
        /\ pc'[t] = IF NodeOf(t).call = "dubbo" THEN "strip" ELSE "lookup"
    BY <1>7 DEF CheckCall, Goto, iterVars, TypeOK
  <2>2. NodeOf(t)' = NodeOf(t) /\ NodeOf(t) \in Rewritten(r) \cup {Original(r)}
    BY <1>0, <2>1 DEF NodeOf, NodeOfRunner
  <2>3. pc'[t] = "strip" => ins[r].call = "dubbo" /\ NodeOf(t) = Original(r)
    BY <1>3, <2>1, <2>2
  <2>4. pc'[t] = "lookup" => NodeOf(t) \in Rewritten(r)
    BY <1>3, <2>1, <2>2
  <2>5. NodeOfRunner(t)'
    BY <1>0, <1>1, <1>2, <2>1, <2>2, <2>3, <2>4 DEF NodeOfRunner
  <2> QED
    BY <2>1, <2>5
<1>8. CASE StripCall(t)
  <2>1. UNCHANGED <<node, copy, sent>> /\ pc[t] = "strip"
    BY <1>8 DEF StripCall
  <2>2. NodeOf(t)' = NodeOf(t) /\ NodeOf(t) = Original(r) /\ ins[r].call = "dubbo"
    BY <1>0, <2>1 DEF NodeOf, NodeOfRunner
  <2>3. pc'[t] = "stripped" /\ reg' = [reg EXCEPT ![t].call = "tmpl"]
    BY <1>3, <1>8, <2>2 DEF StripCall, Substring, Goto, TypeOK
  <2>4. reg'[t].call = "tmpl"
    BY <2>3 DEF TypeOK, Nodes
  <2>5. NodeOfRunner(t)'
    BY <1>0, <1>1, <1>2, <2>2, <2>3, <2>4 DEF NodeOfRunner
  <2> QED
    BY <2>1, <2>5
<1>9. CASE StoreStripped(t)
  <2>1. UNCHANGED <<reg, sent>> /\ pc[t] = "stripped" /\ pc'[t] = "by"
        /\ SetNode(t, [NodeOf(t) EXCEPT !.call = reg[t].call])
    BY <1>9 DEF StoreStripped, Goto, TypeOK
  <2>2. NodeOf(t) = Original(r) /\ ins[r].call = "dubbo" /\ reg[t].call = "tmpl"
    BY <1>0, <2>1 DEF NodeOfRunner
  <2>3. NodeOf(t)' = [Original(r) EXCEPT !.call = "tmpl"]
        /\ \A q \in Requests : q # r \/ ins[q].rr # 0 => node'[q] = node[q]
    BY <1>0, <2>1, <2>2, SetNodeIs
  <2>4. NodeOfRunner(t)'
    BY <1>1, <1>2, <2>1, <2>2, <2>3, <1>0 DEF NodeOfRunner
  <2> QED
    BY <2>1, <2>2, <2>3, <2>4
<1>10. CASE StoreBy(t)
  <2>1. UNCHANGED <<reg, sent>> /\ pc[t] = "by" /\ pc'[t] = "lookup"
        /\ SetNode(t, [NodeOf(t) EXCEPT !.by = "dubbo"])
    BY <1>10 DEF StoreBy, Goto, TypeOK
  <2>2. NodeOf(t) = [Original(r) EXCEPT !.call = "tmpl"] /\ ins[r].call = "dubbo"
    BY <1>0, <2>1 DEF NodeOfRunner
  <2>3. [NodeOf(t) EXCEPT !.by = "dubbo"] \in Rewritten(r)
    BY <1>3, <2>2
  <2>4. NodeOf(t)' \in Rewritten(r) /\ (ins[r].rr = 0 => node'[r] \in Rewritten(r))
        /\ \A q \in Requests : q # r \/ ins[q].rr # 0 => node'[q] = node[q]
    BY <1>0, <2>1, <2>3, SetNodeIs
  <2>5. NodeOfRunner(t)'
    BY <1>1, <1>2, <2>1, <2>4 DEF NodeOfRunner
  <2> QED
    BY <2>1, <2>2, <2>4, <2>5
<1>11. CASE Lookup(t)
  <2>1. UNCHANGED <<node, copy, sent>> /\ pc[t] = "lookup"
    BY <1>11 DEF Lookup
  <2>2. NodeOf(t)' = NodeOf(t) /\ NodeOf(t) \in Rewritten(r)
    BY <1>0, <2>1 DEF NodeOf, NodeOfRunner
  <2>3. \/ pc'[t] \in {"off", "result"}
        \/ pc'[t] = "render" /\ reg' = [reg EXCEPT ![t].by = NodeOf(t).by]
    <3>1. CASE Raise(t)
      BY <3>1, RaiseGoes
    <3>2. CASE ~Raise(t)
      BY <1>11, <3>2 DEF Lookup, Goto, TypeOK
    <3> QED
      BY <3>1, <3>2
  <2>4. pc'[t] = "render" => reg'[t].by = Target(r).by
    <3>1. NodeOf(t).by = Target(r).by /\ reg \in [Runners -> Nodes]
      BY <1>3, <2>2 DEF TypeOK
    <3> QED
      BY <2>3, <3>1 DEF Nodes
  <2>5. NodeOfRunner(t)'
    BY <1>1, <1>2, <2>2, <2>3, <2>4 DEF NodeOfRunner
  <2> QED
    BY <2>1, <2>5
<1>12. CASE RenderCall(t)
  <2>1. UNCHANGED <<node, copy, sent>> /\ pc[t] = "render"
    BY <1>12 DEF RenderCall
  <2>2. NodeOf(t)' = NodeOf(t) /\ NodeOf(t) \in Rewritten(r) /\ reg[t].by = Target(r).by
    BY <1>0, <2>1 DEF NodeOf, NodeOfRunner
  <2>3. \/ pc'[t] \in {"off", "result"}
        \/ pc'[t] = "rendered" /\ \E c \in Final(r) : reg' = [reg EXCEPT ![t].call = c]
    <3>1. CASE Raise(t)
      BY <3>1, RaiseGoes
    <3>2. CASE ~Raise(t)
      <4>1. PICK c \in Rendered(r, NodeOf(t).call) :
              c # "throw" /\ reg' = [reg EXCEPT ![t].call = c] /\ Goto(t, "rendered")
        BY <1>12, <3>2 DEF RenderCall
      <4>2. c \in Final(r)
        BY <1>3, <2>2, <4>1
      <4> QED
        BY <4>1, <4>2 DEF Goto, TypeOK
    <3> QED
      BY <3>1, <3>2
  <2>4. pc'[t] = "rendered" => reg'[t].call \in Final(r) /\ reg'[t].by = Target(r).by
    <3>1. reg \in [Runners -> Nodes]
      BY DEF TypeOK
    <3> QED
      BY <2>2, <2>3, <3>1 DEF Nodes
  <2>5. NodeOfRunner(t)'
    BY <1>1, <1>2, <2>2, <2>3, <2>4 DEF NodeOfRunner
  <2> QED
    BY <2>1, <2>5
<1>13. CASE StoreRendered(t)
  <2>1. UNCHANGED <<reg, sent>> /\ pc[t] = "rendered" /\ pc'[t] = "target"
        /\ SetNode(t, [NodeOf(t) EXCEPT !.call = reg[t].call])
    BY <1>13 DEF StoreRendered, Goto, TypeOK
  <2>2. NodeOf(t) \in Rewritten(r) /\ reg[t].by = Target(r).by /\ reg[t].call \in Final(r)
    BY <1>0, <2>1 DEF NodeOfRunner
  <2>3. [NodeOf(t) EXCEPT !.call = reg[t].call] \in Finished(r)
    BY <1>3, <2>2
  <2>4. NodeOf(t)' \in Finished(r) /\ (ins[r].rr = 0 => node'[r] \in Finished(r))
        /\ \A q \in Requests : q # r \/ ins[q].rr # 0 => node'[q] = node[q]
    BY <1>0, <2>1, <2>3, SetNodeIs
  <2>5. NodeOfRunner(t)'
    BY <1>1, <1>2, <2>1, <2>2, <2>4 DEF NodeOfRunner
  <2> QED
    BY <1>0, <1>3, <2>1, <2>4, <2>5
<1>15. CASE CheckTarget(t)
  <2>1. UNCHANGED <<node, reg, copy, sent>> /\ pc[t] = "target"
        /\ pc'[t] = IF NodeOf(t).call = "" THEN "result" ELSE "invoke"
    BY <1>15 DEF CheckTarget, Goto, iterVars, TypeOK
  <2>2. NodeOf(t)' = NodeOf(t) /\ NodeOf(t) \in Finished(r) /\ reg[t].by = Target(r).by
    BY <1>0, <2>1 DEF NodeOf, NodeOfRunner
  <2>3. NodeOfRunner(t)'
    BY <1>1, <1>2, <2>1, <2>2 DEF NodeOfRunner
  <2> QED
    BY <2>1, <2>3
<1>14. CASE Invoke(t)
  <2>1. UNCHANGED <<node, reg, copy>> /\ pc[t] = "invoke" /\ pc'[t] \in {"off", "result"}
    BY <1>14, RaiseGoes DEF Invoke, Goto, TypeOK
  <2>2. NodeOf(t) = Called(r) /\ reg[t].by = Target(r).by
    BY <1>0, <1>3, <2>1 DEF NodeOfRunner
  <2>3. NodeOf(t).call = Target(r).call
    BY <2>2 DEF Called
  <2>4. \A e \in sent' :
          e \in sent \/ (e.req = r /\ e.by = Target(r).by /\ e.call = Target(r).call)
    BY <1>14, <2>2, <2>3 DEF Invoke
  <2>5. NodeOfRunner(t)'
    BY <2>1 DEF NodeOfRunner
  <2> QED
    BY <2>1, <2>4, <2>5
<1> QED
  BY <1>5, <1>6, <1>7, <1>8, <1>9, <1>10, <1>11, <1>12, <1>13, <1>14, <1>15 DEF RunnerStep

\* A request that its web thread executes has no other runner.
LEMMA InlineRunner ==
  ASSUME WorkInv, NEW t \in Runners, pc[t] # "off", ~Pooled(job[t][1])
  PROVE  job[t][1] = t /\ t \notin Workers
BY DEF WorkInv, RunnersInv, Owns

\* A step of a runner keeps CallInv: its own node goes one step further, and a
\* node that it shares with other threads is at most rendered.
LEMMA CallStep ==
  ASSUME TypeOK, WorkInv, CallInv, NEW t \in Runners, RunnerStep(t)
  PROVE  CallInv'
<1>1. PICK r \in Requests : r = job[t][1]
  BY NodeType
<1>2. /\ UNCHANGED <<ins, job>> /\ pc[t] # "off"
      /\ \A s \in Runners : s # t => pc'[s] = pc[s] /\ reg'[s] = reg[s] /\ copy'[s] = copy[s]
      /\ \A q \in Requests : q # r => node'[q] = node[q]
  BY <1>1, RunnerFrame
<1>3. ~Pooled(r) => r = t
  BY <1>1, <1>2, InlineRunner
<1>4. Undisturbed(r) =>
        /\ NodeOfRunner(t)'
        /\ \A q \in Requests : q # r \/ ins[q].rr # 0 => node'[q] = node[q]
        /\ \/ node'[r] = node[r] /\ pc[t] # "by"
           \/ node'[r] \in Rewritten(r)
           \/ ins[r].call = "dubbo" /\ pc'[t] = "by"
           \/ ins[r].rr # 0
        /\ ins[r].call # "dubbo" => node'[r] \in {node[r]} \cup Finished(r)
        /\ \A e \in sent' :
             e \in sent \/ (e.req = r /\ e.by = Target(r).by /\ e.call = Target(r).call)
  BY <1>1, <1>3, OwnNode
<1>5. ASSUME NEW q \in Requests, Undisturbed(q) PROVE SharedNode(q)'
  <2>1. SharedNode(q)
    BY <1>5 DEF CallInv
  <2>2. CASE q # r
    <3>1. q # t /\ q \in Runners
      BY <1>1, <2>2 DEF WorkInv, RunnersInv, Runners
    <3>2. pc'[q] = pc[q] /\ node'[q] = node[q]
      BY <1>2, <2>2, <3>1
    <3> QED
      BY <1>2, <2>1, <3>2, TargetFixed DEF SharedNode
  <2>3. CASE q = r
    <3>1. ins[r].rr # 0 => node'[r] = node[r]
      BY <1>4, <1>5, <2>3
    <3>2. CASE ins[r].call # "dubbo"
      <4>1. node'[r] \in Rewritten(r) \cup {Original(r)}
        BY <1>4, <1>5, <2>1, <2>3, <3>2, NodeFacts DEF SharedNode
      <4> QED
        BY <1>2, <2>1, <2>3, <3>1, <3>2, <4>1, TargetFixed DEF SharedNode
    <3>3. CASE ins[r].call = "dubbo" /\ ins[r].rr # 0
      BY <1>2, <2>1, <2>3, <3>1, <3>3, TargetFixed DEF SharedNode
    <3>4. CASE ins[r].call = "dubbo" /\ ins[r].rr = 0
      <4>1. r = t
        BY <1>3, <1>5, <2>3, <3>4 DEF Undisturbed
      <4>2. pc'[r] # "by" => node'[r] \in Rewritten(r) \cup {Original(r)}
        BY <1>4, <1>5, <2>1, <2>3, <3>4, <4>1 DEF SharedNode
      <4> QED
        BY <1>2, <2>3, <3>4, <4>2, TargetFixed DEF SharedNode
    <3> QED
      BY <3>2, <3>3, <3>4
  <2> QED
    BY <2>2, <2>3
<1>6. ASSUME NEW s \in Runners, pc'[s] # "off", Undisturbed(job[s][1]) PROVE NodeOfRunner(s)'
  <2>1. CASE s = t
    BY <1>1, <1>4, <1>6, <2>1
  <2>2. CASE s # t
    <3>1. NodeOfRunner(s) /\ pc'[s] = pc[s] /\ reg'[s] = reg[s] /\ copy'[s] = copy[s]
          /\ job[s][1] \in Requests
      BY <1>2, <1>6, <2>2, NodeType DEF CallInv
    <3>2. CASE NodeOf(s)' = NodeOf(s)
      <4>1. NodeOfRunner(s) /\ pc'[s] = pc[s] /\ reg'[s] = reg[s]
        BY <3>1
      <4>2. PICK q : q = job[s][1] /\ q = job'[s][1]
        BY <1>2
      <4>3. /\ Target(q)' = Target(q) /\ Original(q)' = Original(q) /\ Final(q)' = Final(q)
            /\ Rewritten(q)' = Rewritten(q) /\ Finished(q)' = Finished(q)
        BY <1>2, TargetFixed
      <4>4. ins' = ins
        BY <1>2
      <4> QED
        BY <3>2, <4>1, <4>2, <4>3, <4>4 DEF NodeOfRunner
    <3>3. CASE NodeOf(s)' # NodeOf(s)
      <4>1. job[s][1] = r /\ ins[r].rr = 0 /\ NodeOf(s)' = node'[r] /\ node'[r] # node[r]
        BY <1>2, <3>1, <3>3 DEF NodeOf
      <4>2. Pooled(r)
        BY <1>2, <1>3, <1>6, <2>2, <3>1, <4>1, InlineRunner
      <4>3. ins[r].call # "dubbo"
        BY <1>6, <4>1, <4>2 DEF Undisturbed
      <4>4. NodeOf(s)' \in Finished(r) /\ NodeOf(s)' \in Rewritten(r)
        BY <1>4, <1>6, <4>1, <4>3, NodeFacts
      <4>5. ASSUME pc[s] = "invoke" PROVE (NodeOf(s)').call # ""
        <5>1. NodeOf(s) \in Finished(r) /\ NodeOf(s).call # ""
          BY <3>1, <4>1, <4>5 DEF NodeOfRunner
        <5>2. NodeOf(s).call \in Final(r) /\ (NodeOf(s)').call \in Final(r)
          BY <4>4, <5>1, NodeFacts
        <5>3. \A c, d \in Final(r) : c # "" => d # ""
          BY <1>6, <4>1, <4>2, FinalFacts
        <5> QED
          BY <5>1, <5>2, <5>3
      <4> QED
        BY <1>2, <3>1, <4>1, <4>3, <4>4, <4>5, TargetFixed DEF NodeOfRunner
    <3> QED
      BY <3>2, <3>3
  <2> QED
    BY <2>1, <2>2
<1>7. CallIntact'
  <2>1. sent' = sent \/ \E e : sent' = sent \cup {e} /\ e.req = r
    <3>1. CASE Invoke(t)
      <4> DEFINE e == [req |-> r, sub |-> job[t][2], iter |-> it[t], by |-> reg[t].by,
                       call |-> NodeOf(t).call]
      <4>1. sent' = sent \cup {e}
        BY <1>1, <3>1 DEF Invoke
      <4>2. e.req = r
        OBVIOUS
      <4> QED
        BY <4>1, <4>2
    <3>2. CASE ~Invoke(t)
      BY <3>2 DEF RunnerStep, Finish, Begin, CheckCall, StripCall, StoreStripped, StoreBy, Lookup,
         RenderCall, StoreRendered, CheckTarget, RenderResult, iterVars
    <3> QED
      BY <3>1, <3>2
  <2>2. \A e \in sent' : Undisturbed(e.req) =>
          e.by = Target(e.req).by /\ e.call = Target(e.req).call
    BY <1>4, <2>1 DEF CallInv, CallIntact
  <2> QED
    BY <1>2, <2>2, TargetFixed DEF CallIntact
<1> QED
  BY <1>2, <1>5, <1>6, <1>7, TargetFixed DEF CallInv

\* What a web thread or the pool does between iterations: at most it starts the
\* first iteration of a subtask that nobody has begun, in a thread that was free.
LEMMA ElsewhereFrame ==
  ASSUME TypeOK, WorkInv,
         (\E r \in Requests : WebStep(r)) \/ (\E w \in Workers : Poll(w) \/ Expire(w))
  PROVE  /\ UNCHANGED <<ins, node, reg, copy, sent, local, out>>
         /\ \A s \in Runners : \/ pc'[s] = pc[s] /\ job'[s] = job[s] /\ it'[s] = it[s]
                               \/ /\ pc[s] = "off" /\ pc'[s] = "begin"
                                  /\ fut[job'[s][1]][job'[s][2]] = "none"
         /\ \A q \in Requests, j \in Slots : fut'[q][j] \in {fut[q][j], "pending"}
<1>1. UNCHANGED <<ins, node, reg, copy, sent, local, out>>
  BY DEF WebStep, Execute, Submit, Reject, Submitted, Collect, Collected, Poll, Expire, iterVars,
         webVars, taskVars
<1> DEFINE Goes(s) == \/ pc'[s] = pc[s] /\ job'[s] = job[s] /\ it'[s] = it[s]
                      \/ /\ pc[s] = "off" /\ pc'[s] = "begin"
                         /\ fut[job'[s][1]][job'[s][2]] = "none"
<1>2. ASSUME NEW r \in Requests, Execute(r), NEW s \in Runners PROVE Goes(s)
  <2>1. http[r] = "idle" /\ job' = job /\ it' = it /\ (pc' = pc \/ pc' = [pc EXCEPT ![r] = "begin"])
        /\ r \in Runners /\ r \notin Workers
    BY <1>2, EngineAssumption DEF Execute, Runners
  <2>2. pc[r] = "off"
    BY <2>1 DEF WorkInv, RunnersInv, Owns
  <2>3. pc'[s] = pc[s] \/ (s = r /\ pc'[s] = "begin")
    BY <2>1 DEF TypeOK
  <2>4. job'[r] = <<r, 0>> /\ fut[r][0] = "none"
    BY <2>1, SubsAreSlots DEF WorkInv, RunnersInv, SubtasksInv
  <2> QED
    BY <2>1, <2>2, <2>3, <2>4
<1>3. ASSUME NEW r \in Requests, Submit(r), NEW s \in Runners PROVE Goes(s)
  <2>1. PICK w \in Candidates : /\ job' = [job EXCEPT ![w] = <<r, nsub[r]>>]
                                /\ pc' = [pc EXCEPT ![w] = "begin"]
                                /\ it' = [it EXCEPT ![w] = 0]
    BY <1>3 DEF Submit
  <2>2. w \in Workers /\ w \in Runners /\ pool[w] # "busy"
    BY DEF Candidates, Polling, Alive, Runners
  <2>3. pc[w] = "off"
    BY <2>2 DEF WorkInv, RunnersInv
  <2>6. fut[r][nsub[r]] = "none"
    <3>0. NumSubs(r) \in 1 .. MaxThreads
      BY SubsAreSlots
    <3>3. nsub[r] \in Nat
      BY DEF TypeOK
    <3>1. nsub[r] \in Slots
      BY <1>3, <3>0, <3>3, EngineAssumption DEF Submit, Slots
    <3>2. Pooled(r)
      BY <1>3 DEF Submit, WorkInv, StreamInv
    <3> QED
      BY <3>1, <3>2, <3>3 DEF WorkInv, SubtasksInv
  <2>4. CASE s = w
    <3>1. job'[s] = <<r, nsub[r]>>
      BY <2>1, <2>2, <2>4 DEF TypeOK
    <3>2. pc'[s] = "begin"
      BY <2>1, <2>2, <2>4 DEF TypeOK
    <3> QED
      BY <2>3, <2>4, <2>6, <3>1, <3>2
  <2>5. CASE s # w
    BY <2>1, <2>5 DEF TypeOK
  <2> QED
    BY <2>4, <2>5
<1>4. ASSUME NEW r \in Requests, Reject(r) \/ Submitted(r) \/ Collect(r) \/ Collected(r)
      PROVE  UNCHANGED <<pc, job, it>>
  BY <1>4 DEF Reject, Submitted, Collect, Collected
<1>5. ASSUME NEW w \in Workers, Poll(w) \/ Expire(w) PROVE UNCHANGED <<pc, job, it>>
  BY <1>5 DEF Poll, Expire
<1>6. \A s \in Runners : Goes(s)
  BY <1>2, <1>3, <1>4, <1>5 DEF WebStep
<1>7. fut' = fut \/ \E r \in Requests, j \in Slots : fut' = [fut EXCEPT ![r][j] = "pending"]
  <2>1. ASSUME NEW r \in Requests, Execute(r)
        PROVE  fut' = fut \/ fut' = [fut EXCEPT ![r][0] = "pending"]
    BY <2>1 DEF Execute
  <2>2. ASSUME NEW r \in Requests, Submit(r)
        PROVE  nsub[r] \in Slots /\ fut' = [fut EXCEPT ![r][nsub[r]] = "pending"]
    <3>1. NumSubs(r) \in 1 .. MaxThreads
      BY SubsAreSlots
    <3> QED
      BY <2>2, <3>1, EngineAssumption DEF Submit, TypeOK, Slots
  <2>3. \A r \in Requests : Reject(r) \/ Submitted(r) \/ Collect(r) \/ Collected(r) => fut' = fut
    BY DEF Reject, Submitted, Collect, Collected, taskVars
  <2>4. \A w \in Workers : Poll(w) \/ Expire(w) => fut' = fut
    BY DEF Poll, Expire, taskVars
  <2> QED
    BY <2>1, <2>2, <2>3, <2>4, SubsAreSlots DEF WebStep
<1>8. \A q \in Requests, j \in Slots : fut'[q][j] \in {fut[q][j], "pending"}
  <2>1. fut \in [Requests -> [Slots -> Futures]]
    BY DEF TypeOK
  <2> QED
    BY <1>7, <2>1
<1> QED
  BY <1>1, <1>6, <1>8

\* The initial nodes are the original ones, and nothing was invoked.
LEMMA CallInit == Init => CallInv
<1> SUFFICES ASSUME Init PROVE CallInv
  OBVIOUS
<1>1. \A r \in Requests : node[r] = Original(r)
  BY DEF Init, Original
<1>2. sent = {} /\ \A t \in Runners : pc[t] = "off"
  BY DEF Init
<1> QED
  BY <1>1, <1>2 DEF CallInv, SharedNode, CallIntact

\* In every interleaving of web threads and workers, each thread that does not
\* race on a prefix has rewritten its node exactly as far as its step says.
THEOREM CallInvariant == Spec => []CallInv
<1>1. TypeOK /\ WorkInv /\ CallInv /\ [Next]_vars => CallInv'
  <2> SUFFICES ASSUME TypeOK, WorkInv, CallInv, [Next]_vars PROVE CallInv'
    OBVIOUS
  <2>1. CASE UNCHANGED vars
    BY <2>1, QuietStep DEF vars
  <2>2. ASSUME (\E r \in Requests : WebStep(r)) \/ (\E w \in Workers : Poll(w) \/ Expire(w))
        PROVE  CallInv'
    <3>1. \A s \in Runners : \/ pc'[s] = pc[s] /\ job'[s] = job[s]
                             \/ pc'[s] \in {"off", "begin", "result"} /\ pc[s] # "by"
      BY <2>2, ElsewhereFrame
    <3> QED
      BY <2>2, <3>1, ElsewhereFrame, QuietStep
  <2> QED
    BY <2>1, <2>2, CallStep DEF Next, Idle
<1> QED
  BY <1>1, CallInit, TypeCorrect, WorkInvariant, PTL DEF Spec

\* Although every iteration rewrites the node it reads, what is invoked is the
\* instruction's target, for any number of iterations, threads and requests.
THEOREM OnlyTheTargetIsCalled == Spec => []CallIntact
<1>1. CallInv => CallIntact
  BY DEF CallInv
<1> QED
  BY <1>1, CallInvariant, PTL

-----------------------------------------------------------------------------
(* The response slots and the results *)

\* Runner t stores what its iteration received.
Answered(t) ==
  \E k \in {"exception", "reply"} :
    SetResult(job[t][1], t, Response(k, job[t][1], job[t][2], it[t]))

\* Runner t appends what its slot holds, with the round of its iteration.
Appended(t) ==
  \E e \in Results :
    /\ e.resp = local[job[t][1]][t] /\ e.rr = RoundRobin(job[t][1], it[t])
    /\ out' = [out EXCEPT ![job[t][1]][job[t][2]] = Append(@, e)]

\* An exception is stored, or ends the subtask.
LEMMA RaiseAnswers ==
  ASSUME TypeOK, NEW t \in Runners, Raise(t)
  PROVE  \/ Answered(t) /\ pc'[t] = "result" /\ it' = it
         \/ local' = local /\ pc'[t] = "off"
BY DEF Raise, Answered, EndTask, Goto, TypeOK

\* What the invocation of runner t adds to those made so far.
Invocation(t) ==
  [req |-> job[t][1], sub |-> job[t][2], iter |-> it[t], by |-> reg[t].by,
   call |-> NodeOf(t).call]

\* A step of an iteration that comes to its tail has stored a response, if it
\* invoked its target or always has one; other steps store and append nothing.
LEMMA IterationWrites ==
  ASSUME TypeOK, CallInv, NEW t \in Runners, RunnerStep(t)
  PROVE  /\ local' = local \/ (Answered(t) /\ pc'[t] = "result")
         /\ pc'[t] = "result" => it' = it /\ pc[t] # "result" /\ (Calling(job[t][1]) => Answered(t))
         /\ sent' = sent \/ (/\ sent' = sent \cup {Invocation(t)}
                             /\ pc'[t] = "off" \/ (pc'[t] = "result" /\ Answered(t)))
         /\ out' = out \/ (pc[t] = "result" /\ Appended(t) /\ pc'[t] = "begin" /\ local' = local)
<1>1. CASE Finish(t)
  BY <1>1 DEF Finish, EndTask, Goto, iterVars, TypeOK
<1>2. CASE Begin(t)
  <2>1. CASE Raise(t)
    BY <1>2, <2>1, RaiseAnswers DEF Begin
  <2>2. CASE ~Raise(t)
    BY <1>2, <2>2 DEF Begin, Goto, TypeOK, Calling
  <2> QED
    BY <2>1, <2>2
<1>3. CASE CheckCall(t) \/ StoreStripped(t) \/ StoreBy(t) \/ StoreRendered(t)
  BY <1>3 DEF CheckCall, StoreStripped, StoreBy, StoreRendered, Goto, TypeOK,
              taskVars, iterVars
<1>8. CASE RenderCall(t)
  <2>1. CASE Raise(t)
    BY <1>8, <2>1, RaiseAnswers DEF RenderCall
  <2>2. CASE ~Raise(t)
    BY <1>8, <2>2 DEF RenderCall, Goto, TypeOK
  <2> QED
    BY <2>1, <2>2
<1>9. CASE CheckTarget(t)
  <2>1. pc'[t] = (IF NodeOf(t).call = "" THEN "result" ELSE "invoke") /\ pc[t] = "target"
        /\ UNCHANGED <<local, it, out, sent>>
    BY <1>9 DEF CheckTarget, Goto, TypeOK, taskVars, iterVars
  <2>2. ASSUME NodeOf(t).call = "" PROVE ~Calling(job[t][1])
    <3>1. pc[t] # "off" /\ job[t][1] \in Requests
      BY <2>1, NodeType
    <3>2. SUFFICES ASSUME Calling(job[t][1]) PROVE FALSE
      OBVIOUS
    <3>3. NodeOf(t) \in Finished(job[t][1])
      BY <2>1, <3>1, <3>2 DEF CallInv, NodeOfRunner, Calling
    <3>4. NodeOf(t).call \in Final(job[t][1])
      BY <3>1, <3>3, NodeFacts
    <3> QED
      BY <2>2, <3>2, <3>4 DEF Calling
  <2> QED
    BY <2>1, <2>2
<1>4. CASE StripCall(t)
  <2>1. CASE Raise(t)
    BY <1>4, <2>1, RaiseAnswers DEF StripCall
  <2>2. CASE ~Raise(t)
    BY <1>4, <2>2 DEF StripCall, Goto, TypeOK
  <2> QED
    BY <2>1, <2>2
<1>5. CASE Lookup(t)
  <2>1. CASE Raise(t)
    BY <1>5, <2>1, RaiseAnswers DEF Lookup
  <2>2. CASE ~Raise(t)
    BY <1>5, <2>2 DEF Lookup, Goto, TypeOK
  <2> QED
    BY <2>1, <2>2
<1>6. CASE Invoke(t)
  <2>0. sent' = sent \cup {Invocation(t)} /\ out' = out /\ pc[t] = "invoke"
    BY <1>6 DEF Invoke, Invocation
  <2>1. CASE Raise(t)
    BY <2>0, <2>1, RaiseAnswers
  <2>2. CASE ~Raise(t)
    <3>1. SetResult(job[t][1], t, Response("reply", job[t][1], job[t][2], it[t]))
          /\ Goto(t, "result") /\ it' = it
      BY <1>6, <2>2 DEF Invoke
    <3>2. Answered(t) /\ pc'[t] = "result"
      BY <3>1 DEF Answered, Goto, TypeOK
    <3> QED
      BY <2>0, <3>1, <3>2
  <2> QED
    BY <2>1, <2>2
<1>7. CASE RenderResult(t)
  <2>1. CASE ins[job[t][1]].tmplOk
    <3> DEFINE e == [resp |-> local[job[t][1]][t], sub |-> job[t][2], iter |-> it[t],
                     rr |-> RoundRobin(job[t][1], it[t])]
    <3>1. e \in Results
      BY RenderedResultType
    <3>2. e.resp = local[job[t][1]][t] /\ e.rr = RoundRobin(job[t][1], it[t])
      OBVIOUS
    <3> HIDE DEF e
    <3>3. out' = [out EXCEPT ![job[t][1]][job[t][2]] = Append(@, e)]
      BY <1>7, <2>1 DEF RenderResult, e
    <3>4. Appended(t)
      BY <3>1, <3>2, <3>3 DEF Appended
    <3>5. local' = local /\ sent' = sent /\ pc[t] = "result" /\ pc'[t] = "begin"
      BY <1>7, <2>1 DEF RenderResult, Goto, TypeOK, iterVars
    <3> QED
      BY <3>4, <3>5
  <2>2. CASE ~ins[job[t][1]].tmplOk
    BY <1>7, <2>2 DEF RenderResult, EndTask, Goto, TypeOK, iterVars
  <2> QED
    BY <2>1, <2>2
<1> QED
  BY <1>1, <1>2, <1>3, <1>4, <1>5, <1>6, <1>7, <1>8, <1>9 DEF RunnerStep

\* From the tail of an iteration a thread only goes on to the next one.
LEMMA ResultIsLast ==
  ASSUME TypeOK, NEW t \in Runners, RunnerStep(t), pc[t] = "result"
  PROVE  pc'[t] \in {"off", "begin"}
<1>1. RenderResult(t)
  BY DEF RunnerStep, Finish, Begin, CheckCall, StripCall, StoreStripped, StoreBy, Lookup,
         RenderCall, StoreRendered, CheckTarget, Invoke
<1> QED
  BY <1>1 DEF RenderResult, EndTask, Goto, TypeOK

\* The operators about responses keep their values.
LEMMA AnswersFixed ==
  ASSUME ins' = ins
  PROVE  /\ \A r : Calling(r)' <=> Calling(r)
         /\ \A r, i, j : Answers(r, i, j)' = Answers(r, i, j)
         /\ \A r, j : RoundRobin(r, j)' = RoundRobin(r, j)
BY TargetFixed DEF Calling, Answers, RoundRobin, Response

\* A step of a runner keeps ResponseInv: it writes its own slot and appends what
\* this iteration stored there.
LEMMA ResponseStep ==
  ASSUME TypeOK, WorkInv, CallInv, ResponseInv, NEW t \in Runners, RunnerStep(t)
  PROVE  ResponseInv'
<1>1. PICK r \in Requests, i \in Slots : r = job[t][1] /\ i = job[t][2]
  BY NodeType
<1>2. /\ UNCHANGED <<ins, job>> /\ pc[t] # "off"
      /\ \A s \in Runners : s # t => pc'[s] = pc[s]
  BY RunnerFrame
<1>3. \A s \in Runners : s # t => it'[s] = it[s]
  <2>1. it' = it \/ it' = [it EXCEPT ![t] = 0] \/ it' = [it EXCEPT ![t] = @ + 1]
    BY RunnerKinds DEF Moves, Ends, EndTask, Emits
  <2> QED
    BY <2>1 DEF TypeOK
<1>4. /\ local' = local \/ (Answered(t) /\ pc'[t] = "result")
      /\ pc'[t] = "result" => it' = it /\ pc[t] # "result" /\ (Calling(r) => Answered(t))
      /\ sent' = sent \/ (/\ sent' = sent \cup {Invocation(t)}
                          /\ pc'[t] = "off" \/ (pc'[t] = "result" /\ Answered(t)))
      /\ out' = out \/ (pc[t] = "result" /\ Appended(t) /\ pc'[t] = "begin" /\ local' = local)
  BY <1>1, IterationWrites
<1>5. Answered(t) =>
        \E k \in {"exception", "reply"} :
          \A q \in Requests, s \in Runners :
            local'[q][s] = IF q = r /\ s = t THEN Response(k, r, i, it[t]) ELSE local[q][s]
  <2>1. ASSUME NEW resp, local' = [local EXCEPT ![r][t] = resp]
        PROVE  \A q \in Requests, s \in Runners :
                 local'[q][s] = IF q = r /\ s = t THEN resp ELSE local[q][s]
    <3>1. local \in [Requests -> [Runners -> Responses]]
      BY DEF TypeOK
    <3> QED
      BY <2>1, <3>1
  <2>2. ASSUME NEW k \in {"exception", "reply"},
               local' = [local EXCEPT ![r][t] = Response(k, r, i, it[t])]
        PROVE  \A q \in Requests, s \in Runners :
                 local'[q][s] = IF q = r /\ s = t THEN Response(k, r, i, it[t]) ELSE local[q][s]
    <3> DEFINE resp == Response(k, r, i, it[t])
    <3>1. local' = [local EXCEPT ![r][t] = resp]
      BY <2>2
    <3> HIDE DEF resp
    <3>2. \A q \in Requests, s \in Runners :
            local'[q][s] = IF q = r /\ s = t THEN resp ELSE local[q][s]
      BY <2>1, <3>1
    <3> QED
      BY <3>2 DEF resp
  <2> QED
    BY <1>1, <2>2 DEF Answered, SetResult
<1>6. \A k, j : Response(k, r, i, j).req = r
  BY DEF Response
<1>7. \A q \in Requests, s \in Runners : local'[q][s].req = q
  BY <1>4, <1>5, <1>6 DEF ResponseInv
<1>8. \A q \in Requests, s \in Runners : q # r \/ s # t => local'[q][s] = local[q][s]
  BY <1>4, <1>5
<1>9. Owns(t) /\ fut[r][i] = "pending" /\ it[t] = Len(out[r][i]) /\ job[t] = <<r, i>>
      /\ out[r][i] \in Seq(Results) /\ it[t] \in Nat
  <2>1. job[t] \in Requests \X Slots
    BY DEF TypeOK
  <2>2. job[t] = <<r, i>>
    BY <1>1, <2>1
  <2> QED
    BY <1>1, <1>2, <2>2 DEF TypeOK, WorkInv, RunnersInv, Owns
<1>10. \A s \in Runners : s # t /\ pc[s] # "off" => job[s] # <<r, i>>
  BY <1>2, <1>9 DEF WorkInv, RunnersInv
<1>11. /\ Invocation(t).req = r /\ Invocation(t).sub = i /\ Invocation(t).iter = it[t]
       /\ sent' = sent \/ (/\ sent' = sent \cup {Invocation(t)}
                           /\ pc'[t] = "off" \/ (pc'[t] = "result" /\ Answered(t)))
       /\ \A q, j, n : q # r \/ j # i \/ n # it[t] => (Invoked(q, j, n)' <=> Invoked(q, j, n))
  <2>1. Invocation(t).req = r /\ Invocation(t).sub = i /\ Invocation(t).iter = it[t]
    BY <1>1 DEF Invocation
  <2>2. sent' = sent \/ sent' = sent \cup {Invocation(t)}
    BY <1>4
  <2> QED
    BY <1>4, <2>1, <2>2 DEF Invoked
<1>20. PICK k \in Nat : k = it[t]
  BY <1>9
<1>12. pc[t] # "result" => ~Invoked(r, i, k)
  <2> SUFFICES ASSUME pc[t] # "result", NEW e \in sent, e.req = r, e.sub = i, e.iter = k
               PROVE  FALSE
    BY DEF Invoked
  <2>1. e.iter < it[t]
    BY <1>2, <1>9 DEF ResponseInv, SentInv
  <2> QED
    BY <1>20, <2>1
<1>13. pc'[t] = "result" /\ (Calling(r) \/ Invoked(r, i, k)') => local'[r][t] \in Answers(r, i, k)
  <2>1. CASE Answered(t)
    BY <1>5, <1>20, <2>1 DEF Answers
  <2>2. CASE ~Answered(t) /\ pc'[t] = "result"
    <3>1. sent' = sent /\ pc[t] # "result" /\ ~Calling(r)
      BY <1>1, <1>4, <1>11, <2>2
    <3>2. ~Invoked(r, i, k)'
      BY <1>12, <3>1 DEF Invoked
    <3> QED
      BY <3>1, <3>2
  <2> QED
    BY <2>1, <2>2
<1>14. ASSUME NEW s \in Runners, NEW q \in Requests, NEW j \in Slots, q = job[s][1], j = job[s][2],
              NEW n, n = it'[s], pc'[s] = "result", Calling(q) \/ Invoked(q, j, n)'
       PROVE  local'[q][s] \in Answers(q, j, n)
  <2>1. CASE s = t
    <3>1. n = k
      BY <1>4, <1>14, <1>20, <2>1
    <3> QED
      BY <1>1, <1>13, <1>14, <2>1, <3>1
  <2>2. CASE s # t
    <3>1. pc[s] = "result" /\ it[s] = n /\ local'[q][s] = local[q][s]
      BY <1>2, <1>3, <1>8, <1>14, <2>2
    <3>2. <<q, j>> # <<r, i>>
      <4>1. job[s] \in Requests \X Slots
        BY DEF TypeOK
      <4>2. job[s] = <<q, j>>
        BY <1>14, <4>1
      <4> QED
        BY <1>10, <2>2, <3>1, <4>2
    <3>3. Calling(q) \/ Invoked(q, j, n)
      BY <1>11, <1>14, <3>2
    <3> QED
      BY <1>14, <3>1, <3>3 DEF ResponseInv
  <2> QED
    BY <2>1, <2>2
<1>15. \A q \in Requests : \A j \in Slots : \A n \in DOMAIN out[q][j] :
          Calling(q) \/ Invoked(q, j, n - 1)' => out[q][j][n].resp \in Answers(q, j, n - 1)
  <2> SUFFICES ASSUME NEW q \in Requests, NEW j \in Slots, NEW n \in DOMAIN out[q][j],
                      Calling(q) \/ Invoked(q, j, n - 1)'
               PROVE  out[q][j][n].resp \in Answers(q, j, n - 1)
    OBVIOUS
  <2>1. q # r \/ j # i \/ n - 1 # it[t]
    BY <1>9
  <2> QED
    BY <1>11, <2>1 DEF ResponseInv
<1>16. SentInv'
  <2>1. fut' = fut \/ \E f \in {"value", "exception"} : fut' = [fut EXCEPT ![r][i] = f]
    BY <1>1, RunnerKinds DEF Moves, Ends, EndTask, Emits
  <2>2. \A q \in Requests, j \in Slots : fut[q][j] # "none" => fut'[q][j] # "none"
    <3>1. fut \in [Requests -> [Slots -> Futures]]
      BY DEF TypeOK
    <3> QED
      BY <2>1, <3>1
  <2>3. ASSUME NEW e \in sent' PROVE e.req \in Requests /\ e.sub \in Slots /\ fut[e.req][e.sub] # "none"
    <3>1. CASE e \in sent
      BY <3>1 DEF ResponseInv, SentInv, TypeOK
    <3>2. CASE e = Invocation(t)
      BY <1>9, <1>11, <3>2
    <3> QED
      BY <1>11, <3>1, <3>2
  <2>4. \/ pc'[t] = "off"
        \/ pc'[t] # "off" /\ it'[t] = it[t] /\ pc[t] # "result"
        \/ pc'[t] # "off" /\ pc'[t] # "result" /\ it'[t] = it[t] + 1
    <3>1. CASE Moves(t)
      <4>1. it' = it /\ pc'[t] \notin {"off", "begin"}
        BY <3>1 DEF Moves, TypeOK
      <4>2. pc[t] # "result"
        BY <1>4, <3>1, <4>1, ResultIsLast
      <4> QED
        BY <4>1, <4>2
    <3>2. CASE Ends(t, "value") \/ Ends(t, "exception")
      BY <3>2 DEF Ends, EndTask, Goto, TypeOK
    <3>3. CASE Emits(t)
      BY <3>3 DEF Emits, TypeOK
    <3> QED
      BY <3>1, <3>2, <3>3, RunnerKinds
  <2>5. ASSUME NEW e \in sent', pc'[t] # "off", e.req = r, e.sub = i
        PROVE  e.iter <= it'[t] /\ (pc'[t] # "result" => e.iter < it'[t])
    <3>1. CASE e \in sent
      <4>1. e.iter <= it[t] /\ (pc[t] # "result" => e.iter < it[t]) /\ e.iter \in Nat
        BY <1>2, <1>9, <2>5, <3>1 DEF ResponseInv, SentInv, TypeOK
      <4> QED
        BY <1>9, <2>4, <2>5, <4>1
    <3>2. CASE e \notin sent
      <4>1. e = Invocation(t) /\ pc'[t] = "result" /\ it' = it
        BY <1>4, <1>11, <2>5, <3>2
      <4> QED
        BY <1>9, <1>11, <4>1
    <3> QED
      BY <3>1, <3>2
  <2>6. ASSUME NEW e \in sent', NEW s \in Runners, s # t, pc'[s] # "off", job[s] = <<e.req, e.sub>>
        PROVE  e.iter <= it'[s] /\ (pc'[s] # "result" => e.iter < it'[s])
    <3>1. pc'[s] = pc[s] /\ it'[s] = it[s] /\ <<e.req, e.sub>> # <<r, i>>
      BY <1>2, <1>3, <1>10, <2>6
    <3>2. e \in sent
      BY <1>11, <3>1
    <3> QED
      BY <2>6, <3>1, <3>2 DEF ResponseInv, SentInv
  <2>7. ASSUME NEW e \in sent', NEW s \in Runners, pc'[s] # "off", job[s] = <<e.req, e.sub>>
        PROVE  e.iter <= it'[s] /\ (pc'[s] # "result" => e.iter < it'[s])
    BY <1>9, <2>5, <2>6, <2>7
  <2> QED
    BY <1>2, <2>2, <2>3, <2>7 DEF SentInv
<1>17. ASSUME \A q \in Requests : \A j \in Slots : \A n \in DOMAIN out'[q][j] :
                /\ out'[q][j][n].resp.req = q
                /\ Calling(q) \/ Invoked(q, j, n - 1)' => out'[q][j][n].resp \in Answers(q, j, n - 1)
       PROVE  ResponseInv'
  <2>1. \A q, j, n : Answers(q, j, n)' = Answers(q, j, n) /\ (Calling(q)' <=> Calling(q))
    BY <1>2, AnswersFixed
  <2>2. \A q \in Requests : \A j \in Slots : \A n \in DOMAIN out'[q][j] :
          (Calling(q) \/ Invoked(q, j, n - 1))' => out'[q][j][n].resp \in Answers(q, j, n - 1)'
    BY <1>17, <2>1
  <2>3. ASSUME NEW s \in Runners, NEW q, NEW j, NEW n, q = job'[s][1], j = job'[s][2], n = it'[s],
               pc'[s] = "result", (Calling(q) \/ Invoked(q, j, n))'
        PROVE  local'[q][s] \in Answers(q, j, n)'
    <3>1. q \in Requests /\ j \in Slots /\ q = job[s][1] /\ j = job[s][2]
      BY <1>2, <2>3, NodeType
    <3> QED
      BY <1>14, <2>1, <2>3, <3>1
  <2> QED
    BY <1>7, <1>16, <1>17, <2>2, <2>3 DEF ResponseInv
<1>18. CASE out' = out
  BY <1>15, <1>17, <1>18 DEF ResponseInv
<1>19. CASE pc[t] = "result" /\ Appended(t) /\ pc'[t] = "begin"
  <2>1. PICK e \in Results :
          /\ e.resp = local[r][t]
          /\ out' = [out EXCEPT ![r][i] = Append(@, e)]
    BY <1>1, <1>19 DEF Appended
  <2>2. \A q \in Requests, j \in Slots :
          out'[q][j] = IF q = r /\ j = i THEN Append(out[r][i], e) ELSE out[q][j]
    BY <2>1 DEF TypeOK
  <2>3. \A n \in DOMAIN Append(out[r][i], e) :
          \/ n \in DOMAIN out[r][i] /\ Append(out[r][i], e)[n] = out[r][i][n]
          \/ n - 1 = it[t] /\ Append(out[r][i], e)[n] = e
    BY <1>9
  <2>4. sent' = sent
    BY <1>4, <1>11, <1>19
  <2>5. e.resp.req = r /\ (Calling(r) \/ Invoked(r, i, k)' => e.resp \in Answers(r, i, k))
    <3>1. Invoked(r, i, k)' <=> Invoked(r, i, k)
      BY <2>4 DEF Invoked
    <3> QED
      BY <1>1, <1>19, <1>20, <2>1, <3>1 DEF ResponseInv
  <2>6. ASSUME NEW q \in Requests, NEW j \in Slots, NEW n \in DOMAIN out'[q][j]
        PROVE  /\ out'[q][j][n].resp.req = q
               /\ Calling(q) \/ Invoked(q, j, n - 1)' => out'[q][j][n].resp \in Answers(q, j, n - 1)
    <3>1. CASE q = r /\ j = i
      <4>1. \A m \in DOMAIN out[r][i] :
              /\ out[r][i][m].resp.req = r
              /\ Calling(r) \/ Invoked(r, i, m - 1)' => out[r][i][m].resp \in Answers(r, i, m - 1)
        BY <1>15 DEF ResponseInv
      <4>2. out'[q][j] = Append(out[r][i], e)
        BY <2>2, <3>1
      <4>3. CASE n \in DOMAIN out[r][i] /\ Append(out[r][i], e)[n] = out[r][i][n]
        BY <3>1, <4>1, <4>2, <4>3
      <4>4. CASE n - 1 = k /\ Append(out[r][i], e)[n] = e
        BY <2>5, <3>1, <4>2, <4>4
      <4> QED
        BY <1>20, <2>3, <2>6, <4>2, <4>3, <4>4
    <3>2. CASE ~(q = r /\ j = i)
      <4>1. out'[q][j] = out[q][j]
        BY <2>2, <3>2
      <4> QED
        BY <1>15, <2>6, <4>1 DEF ResponseInv
    <3> QED
      BY <3>1, <3>2
  <2> QED
    BY <1>17, <2>6
<1> QED
  BY <1>4, <1>18, <1>19

\* Every slot and every result holds a response of its own request, and of the
\* iteration it belongs to when that iteration invoked its target, as it does
\* unless the target may come out empty.
THEOREM ResponseInvariant == Spec => []ResponseInv
<1>1. Init => ResponseInv
  BY DEF Init, ResponseInv, SentInv, NoResponse, Response
<1>2. TypeOK /\ WorkInv /\ CallInv /\ ResponseInv /\ [Next]_vars => ResponseInv'
  <2> SUFFICES ASSUME TypeOK, WorkInv, CallInv, ResponseInv, [Next]_vars PROVE ResponseInv'
    OBVIOUS
  <2>1. ASSUME UNCHANGED <<ins, local, out, sent>>,
               \A s \in Runners : \/ pc'[s] = pc[s] /\ job'[s] = job[s] /\ it'[s] = it[s]
                                  \/ /\ pc[s] = "off" /\ pc'[s] = "begin"
                                     /\ fut[job'[s][1]][job'[s][2]] = "none",
               \A q \in Requests, j \in Slots : fut'[q][j] \in {fut[q][j], "pending"}
        PROVE  ResponseInv'
    <3>1. \A q, j, n : /\ Answers(q, j, n)' = Answers(q, j, n) /\ (Calling(q)' <=> Calling(q))
                       /\ Invoked(q, j, n)' <=> Invoked(q, j, n)
      BY <2>1, AnswersFixed DEF Invoked
    <3>2. ASSUME NEW s \in Runners, NEW q, NEW j, NEW n, q = job'[s][1], j = job'[s][2],
                 n = it'[s], pc'[s] = "result", Calling(q) \/ Invoked(q, j, n)
          PROVE  local[q][s] \in Answers(q, j, n)
      <4>1. pc'[s] = pc[s] /\ q = job[s][1] /\ j = job[s][2] /\ n = it[s]
        BY <2>1, <3>2
      <4> QED
        BY <3>2, <4>1 DEF ResponseInv
    <3>3. SentInv'
      <4>1. ASSUME NEW e \in sent
            PROVE  e.req \in Requests /\ e.sub \in Slots /\ fut[e.req][e.sub] # "none"
        BY DEF ResponseInv, SentInv, TypeOK
      <4>2. ASSUME NEW e \in sent, NEW s \in Runners, pc'[s] # "off", job'[s] = <<e.req, e.sub>>
            PROVE  e.iter <= it'[s] /\ (pc'[s] # "result" => e.iter < it'[s])
        <5>1. job'[s][1] = e.req /\ job'[s][2] = e.sub
          BY <4>2
        <5>2. pc'[s] = pc[s] /\ job'[s] = job[s] /\ it'[s] = it[s]
          BY <2>1, <4>1, <5>1
        <5> QED
          BY <4>2, <5>2 DEF ResponseInv, SentInv
      <4>3. \A e \in sent : fut'[e.req][e.sub] # "none"
        BY <2>1, <4>1
      <4> QED
        BY <2>1, <4>2, <4>3 DEF SentInv
    <3>4. \A s \in Runners :
            pc'[s] = "result" /\ (Calling(job[s][1]) \/ Invoked(job[s][1], job[s][2], it[s]))'
              => local'[job'[s][1]][s] \in Answers(job[s][1], job[s][2], it[s])'
      BY <2>1, <3>1, <3>2
    <3> QED
      BY <2>1, <3>1, <3>3, <3>4 DEF ResponseInv
  <2>2. CASE UNCHANGED vars
    BY <2>1, <2>2 DEF vars
  <2>3. ASSUME (\E r \in Requests : WebStep(r)) \/ (\E w \in Workers : Poll(w) \/ Expire(w))
        PROVE  ResponseInv'
    BY <2>1, <2>3, ElsewhereFrame
  <2> QED
    BY <2>2, <2>3, ResponseStep DEF Next, Idle
<1> QED
  BY <1>1, <1>2, TypeCorrect, WorkInvariant, CallInvariant, PTL DEF Spec

\* A result never shows what another request received, whichever threads of the
\* pool worked for both.
THEOREM ResultsAreOwn == Spec => []NoForeignResult
<1>1. TypeOK /\ ResponseInv => NoForeignResult
  <2> SUFFICES ASSUME TypeOK, ResponseInv, NEW r \in Requests, NEW i \in Subs(r)
               PROVE  \A n \in DOMAIN out[r][i] : out[r][i][n].resp.req = r
    BY DEF NoForeignResult
  <2>1. i \in Slots
    BY SubsAreSlots, EngineAssumption DEF Subs, Slots
  <2> QED
    BY <2>1 DEF ResponseInv
<1> QED
  BY <1>1, TypeCorrect, ResponseInvariant, PTL

\* Although slots are never cleared, the result of an iteration that invoked its
\* target, or whose target never comes out empty, shows what that very iteration
\* received, whatever the number of iterations, threads and requests.
THEOREM ResultsAreFresh == Spec => []FreshResult
<1>1. TypeOK /\ ResponseInv => FreshResult
  <2> SUFFICES ASSUME TypeOK, ResponseInv, NEW r \in Requests, NEW i \in Subs(r),
                      NEW n \in DOMAIN out[r][i], Calling(r) \/ Invoked(r, i, n - 1)
               PROVE  out[r][i][n].resp \in Answers(r, i, n - 1)
    BY DEF FreshResult
  <2>1. i \in Slots
    BY SubsAreSlots, EngineAssumption DEF Subs, Slots
  <2> QED
    BY <2>1 DEF ResponseInv
<1> QED
  BY <1>1, TypeCorrect, ResponseInvariant, PTL

-----------------------------------------------------------------------------
(* Failures *)

\* Only a subtask of a request that does not absorb exceptions ends with one.
LEMMA EndsOnlyFailing ==
  ASSUME NEW t \in Runners, RunnerStep(t)
  PROVE  \/ UNCHANGED <<http, fut>>
         \/ \E f \in {"value", "exception"} :
              EndTask(t, f) /\ (f = "exception" => ~Absorbing(job[t][1]))
<1>1. ASSUME Raise(t)
      PROVE  \/ UNCHANGED <<http, fut>>
             \/ EndTask(t, "exception") /\ ~Absorbing(job[t][1])
  BY <1>1 DEF Raise, HandleException, Absorbing
<1>2. CASE Finish(t)
  BY <1>2 DEF Finish
<1>3. CASE RenderResult(t)
  BY <1>3 DEF RenderResult, Absorbing
<1>4. CASE Begin(t) \/ StripCall(t) \/ Lookup(t) \/ RenderCall(t) \/ Invoke(t)
  BY <1>1, <1>4 DEF Begin, StripCall, Lookup, RenderCall, Invoke
<1>5. CASE CheckCall(t) \/ StoreStripped(t) \/ StoreBy(t) \/ StoreRendered(t) \/ CheckTarget(t)
  BY <1>5 DEF CheckCall, StoreStripped, StoreBy, StoreRendered, CheckTarget, webVars, taskVars
<1> QED
  BY <1>2, <1>3, <1>4, <1>5 DEF RunnerStep

\* A step of a runner keeps FailureInv.
LEMMA FailureStep ==
  ASSUME TypeOK, FailureInv, NEW t \in Runners, RunnerStep(t)
  PROVE  FailureInv'
<1>1. PICK r \in Requests, i \in Slots : r = job[t][1] /\ i = job[t][2]
  BY NodeType
<1>2. UNCHANGED <<ins, nsub>>
  BY RunnerKinds DEF Moves, Ends, Emits, Bookkeeping
<1>3. \A q : Absorbing(q)' <=> Absorbing(q)
  BY <1>2 DEF Absorbing
<1>4. CASE UNCHANGED <<http, fut>>
  BY <1>2, <1>3, <1>4, InsFixed DEF FailureInv, ErrorsAbsorbed, Returns
<1>5. ASSUME NEW f \in {"value", "exception"}, EndTask(t, f), f = "exception" => ~Absorbing(r)
      PROVE  FailureInv'
  <2>1. fut' = [fut EXCEPT ![r][i] = f]
        /\ (http' = http \/ http' = [http EXCEPT ![r] = IF f = "value" THEN "collect" ELSE "failed"])
    BY <1>1, <1>5 DEF EndTask
  <2>2. \A q \in Requests, j \in Slots : fut'[q][j] = IF q = r /\ j = i THEN f ELSE fut[q][j]
    <3>1. fut \in [Requests -> [Slots -> Futures]]
      BY DEF TypeOK
    <3> QED
      BY <2>1, <3>1
  <2>3. \A q \in Requests : http'[q] = "failed" => http[q] = "failed" \/ (q = r /\ f = "exception")
    BY <2>1 DEF TypeOK
  <2>4. ErrorsAbsorbed'
    BY <1>2, <1>5, <2>3, InsFixed DEF FailureInv, ErrorsAbsorbed, Absorbing, Returns
  <2> QED
    BY <1>3, <1>5, <2>2, <2>4 DEF FailureInv
<1> QED
  BY <1>1, <1>4, <1>5, EndsOnlyFailing

\* A step of a web thread keeps FailureInv: an absorbing request meets no failed
\* future, and the pool rejects only what it was not given yet.
LEMMA FailureWeb ==
  ASSUME TypeOK, WorkInv, FailureInv, NEW r \in Requests, WebStep(r)
  PROVE  FailureInv'
<1>1. ins' = ins /\ \A q : Absorbing(q)' <=> Absorbing(q)
  BY DEF WebStep, Execute, Submit, Reject, Submitted, Collect, Collected, Absorbing
<1>2. NumSubs(r) \in 1 .. MaxThreads /\ 0 \in Slots
  BY SubsAreSlots
<1>3. fut' = fut \/ \E j \in Slots : fut' = [fut EXCEPT ![r][j] = "pending"]
  <2>1. Submit(r) => nsub[r] \in Slots
    BY <1>2, EngineAssumption DEF Submit, TypeOK, Slots
  <2> QED
    BY <1>2, <2>1 DEF WebStep, Execute, Submit, Reject, Submitted, Collect, Collected, taskVars
<1>4. \A q \in Requests, j \in Slots : fut'[q][j] \in {fut[q][j], "pending"}
  <2>1. fut \in [Requests -> [Slots -> Futures]]
    BY DEF TypeOK
  <2> QED
    BY <1>3, <2>1
<1>5. ASSUME NEW q \in Requests, http'[q] = "failed", ins[q].times > 1, ins[q].tmplOk,
             Returns(q)
      PROVE  Pooled(q) /\ nsub'[q] < NumSubs(q)
  <2>1. CASE http[q] = "failed"
    <3>1. nsub'[q] = nsub[q]
      BY <2>1 DEF WebStep, Execute, Submit, Reject, Submitted, Collect, Collected, TypeOK
    <3> QED
      BY <1>5, <2>1, <3>1 DEF FailureInv, ErrorsAbsorbed
  <2>2. CASE http[q] # "failed"
    <3>1. q = r
      BY <1>5, <2>2 DEF WebStep, Execute, Submit, Reject, Submitted, Collect, Collected, TypeOK
    <3>2. CASE Reject(r)
      BY <3>1, <3>2 DEF Reject, WorkInv, StreamInv
    <3>3. CASE Collect(r)
      <4>1. ncol[r] \in Slots
        BY <1>2, <3>3, EngineAssumption DEF Collect, TypeOK, Slots
      <4>2. fut[r][ncol[r]] # "exception"
        BY <1>5, <3>1, <4>1 DEF FailureInv, Absorbing
      <4> QED
        BY <1>5, <2>2, <3>1, <3>3, <4>2 DEF Collect
    <3>4. CASE Execute(r) \/ Submit(r) \/ Submitted(r) \/ Collected(r)
      BY <1>5, <2>2, <3>1, <3>4 DEF Execute, Submit, Submitted, Collected, Outcome, TypeOK
    <3> QED
      BY <3>2, <3>3, <3>4 DEF WebStep
  <2> QED
    BY <2>1, <2>2
<1>6. ErrorsAbsorbed'
  BY <1>1, <1>5, InsFixed DEF ErrorsAbsorbed, Returns
<1> QED
  BY <1>1, <1>4, <1>6 DEF FailureInv

\* With times > 1 and a template that renders, no future of the request ever holds
\* an exception, whatever its iterations throw.
THEOREM FailureInvariant == Spec => []FailureInv
<1>1. Init => FailureInv
  BY DEF Init, FailureInv, ErrorsAbsorbed
<1>2. TypeOK /\ WorkInv /\ FailureInv /\ [Next]_vars => FailureInv'
  <2> SUFFICES ASSUME TypeOK, WorkInv, FailureInv, [Next]_vars PROVE FailureInv'
    OBVIOUS
  <2>1. ASSUME UNCHANGED <<ins, nsub, http, fut>> PROVE FailureInv'
    BY <2>1, InsFixed DEF FailureInv, ErrorsAbsorbed, Absorbing, Returns
  <2>2. ASSUME NEW w \in Workers, Poll(w) \/ Expire(w) PROVE FailureInv'
    BY <2>1, <2>2 DEF Poll, Expire, webVars, taskVars
  <2>3. CASE UNCHANGED vars
    BY <2>1, <2>3 DEF vars
  <2> QED
    BY <2>2, <2>3, FailureStep, FailureWeb DEF Next, Idle
<1> QED
  BY <1>1, <1>2, TypeCorrect, WorkInvariant, PTL DEF Spec

\* With times > 1, a template that renders, and a collectBy and response headers
\* that can be evaluated, a request fails only when the pool rejects a subtask,
\* whatever its iterations throw.
THEOREM FailuresAreAbsorbed == Spec => []ErrorsAbsorbed
<1>1. FailureInv => ErrorsAbsorbed
  BY DEF FailureInv
<1> QED
  BY <1>1, FailureInvariant, PTL
=============================================================================
