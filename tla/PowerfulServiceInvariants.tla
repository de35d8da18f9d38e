---------------------- MODULE PowerfulServiceInvariants ----------------------
(* The inductive invariants behind the safety properties of PowerfulService.   *)
(* A run checks them on small instances; the modules of proofs show them for   *)
(* every instance.                                                             *)
EXTENDS PowerfulService

-----------------------------------------------------------------------------
(* WorkInv, behind ExactlyTimes and NoStragglers: who owns which subtask *)

\* The iterations that subtasks 0 .. i - 1 perform together.
SubtaskOffset(total, threads, i) ==
  i * (total \div threads) + (IF i < total % threads THEN i ELSE total % threads)

\* Where the results of subtask i start in the stream of r.
Offset(r, i) ==
  IF Pooled(r) THEN SubtaskOffset(ins[r].times, ins[r].threads, i) ELSE i * Total(r)

\* A thread inside executeSingle owns the pending future of its subtask.
Owns(t) ==
  LET r == job[t][1]
      i == job[t][2]
  IN
  /\ i < NumSubs(r) /\ fut[r][i] = "pending"
  /\ it[t] = Len(out[r][i])
  /\ it[t] <= Share(r, i) /\ (pc[t] # "begin" => it[t] < Share(r, i))
  /\ IF t \in Workers THEN Pooled(r) /\ pool[t] = "busy"
                      ELSE ~Pooled(r) /\ r = t /\ http[r] = "inline"

RunnersInv ==
  /\ \A t \in Runners : IF pc[t] = "off" THEN it[t] = 0 ELSE Owns(t)
  /\ \A w \in Workers : pool[w] # "busy" => pc[w] = "off"
  /\ \A s, t \in Runners : s # t /\ pc[s] # "off" /\ pc[t] # "off" => job[s] # job[t]
  /\ \A r \in Requests : job[r] = <<r, 0>>

\* What a subtask has produced, and what its future says of it.
SubtasksInv ==
  \A r \in Requests : \A i \in Slots :
    /\ \A n \in DOMAIN out[r][i] : out[r][i][n].sub = i /\ out[r][i][n].iter = n - 1
    /\ fut[r][i] = "none" => out[r][i] = <<>>
    /\ fut[r][i] = "value" => Len(out[r][i]) = Share(r, i)
    /\ Pooled(r) /\ i >= nsub[r] => fut[r][i] = "none"
    /\ http[r] = "idle" => fut[r][i] = "none"

\* The stream holds the results of the futures taken so far, in order.
StreamInv ==
  \A r \in Requests :
    /\ ncol[r] <= NumSubs(r)
    /\ \A i \in Slots : i < ncol[r] => fut[r][i] = "value"
    /\ Len(results[r]) = Offset(r, ncol[r])
    /\ \A m \in DOMAIN results[r] :
         /\ results[r][m].sub < ncol[r]
         /\ m = Offset(r, results[r][m].sub) + results[r][m].iter + 1
    /\ http[r] = "returned" /\ Consumes(r) => ncol[r] = NumSubs(r)
    /\ http[r] = "submit" => Pooled(r)

WorkInv == RunnersInv /\ SubtasksInv /\ StreamInv

-----------------------------------------------------------------------------
(* CallInv, behind CallIntact: how far each thread has rewritten its node *)

\* The node as the instruction came with it, and as call() means to leave it.
Original(r) == [call |-> ins[r].call, by |-> ins[r].by]
Called(r)   == [call |-> Target(r).call, by |-> Target(r).by]

\* The nodes without a prefix that an iteration can leave to the next one, and
\* those that one leaves after rendering the target.
Rewritten(r) == {[Called(r) EXCEPT !.call = c] : c \in {Unprefixed(r)} \cup Final(r)}
Finished(r) == {[Called(r) EXCEPT !.call = c] : c \in Final(r)}

\* The node the threads of r share: processLoop's copies leave it alone, and
\* only between StoreStripped and StoreBy is it half rewritten.
SharedNode(r) ==
  /\ ins[r].rr # 0 => node[r] = Original(r)
  /\ ins[r].call # "dubbo" \/ pc[r] # "by" => node[r] \in Rewritten(r) \cup {Original(r)}

\* The node runner t works on, and what it holds in its locals.
NodeOfRunner(t) ==
  LET r == job[t][1]
      n == NodeOf(t)
  IN
  /\ pc[t] = "check" => n \in Rewritten(r) \cup {Original(r)}
  /\ pc[t] \in {"strip", "stripped", "by"} => ins[r].call = "dubbo"
  /\ pc[t] \in {"strip", "stripped"} => n = Original(r)
  /\ pc[t] = "stripped" => reg[t].call = "tmpl"
  /\ pc[t] = "by" => n = [Original(r) EXCEPT !.call = "tmpl"]
  /\ pc[t] \in {"lookup", "render", "rendered"} => n \in Rewritten(r)
  /\ pc[t] \in {"render", "rendered", "target", "invoke"} => reg[t].by = Target(r).by
  /\ pc[t] = "rendered" => reg[t].call \in Final(r)
  /\ pc[t] \in {"target", "invoke"} => n \in Finished(r)
  /\ pc[t] = "invoke" => n.call # ""

CallInv ==
  /\ \A r \in Requests : Undisturbed(r) => SharedNode(r)
  /\ \A t \in Runners : pc[t] # "off" /\ Undisturbed(job[t][1]) => NodeOfRunner(t)
  /\ CallIntact

-----------------------------------------------------------------------------
(* ResponseInv, behind NoForeignResult and FreshResult: what the slots hold *)

\* An invocation belongs to an iteration that has begun, and is the last thing
\* that iteration does before its result is rendered.
SentInv ==
  \A s \in sent :
    /\ fut[s.req][s.sub] # "none"
    /\ \A t \in Runners : pc[t] # "off" /\ job[t] = <<s.req, s.sub>> =>
         s.iter <= it[t] /\ (pc[t] # "result" => s.iter < it[t])

ResponseInv ==
  /\ \A r \in Requests : \A t \in Runners : local[r][t].req = r
  /\ \A r \in Requests : \A i \in Slots : \A n \in DOMAIN out[r][i] : out[r][i][n].resp.req = r
  /\ \A t \in Runners :
       LET r == job[t][1]
           i == job[t][2]
       IN pc[t] = "result" /\ (Calling(r) \/ Invoked(r, i, it[t]))
            => local[r][t] \in Answers(r, i, it[t])
  /\ \A r \in Requests : \A i \in Slots : \A n \in DOMAIN out[r][i] :
       Calling(r) \/ Invoked(r, i, n - 1) => out[r][i][n].resp \in Answers(r, i, n - 1)
  /\ SentInv

-----------------------------------------------------------------------------
(* FailureInv, behind ErrorsAbsorbed *)

\* The instructions whose subtasks cannot fail.
Absorbing(r) == ins[r].times > 1 /\ ins[r].tmplOk

FailureInv ==
  /\ \A r \in Requests : Absorbing(r) => \A i \in Slots : fut[r][i] # "exception"
  /\ ErrorsAbsorbed

-----------------------------------------------------------------------------
(* AcceptedInv, behind RejectedOnlyWhenFull: a living worker was started or   *)
(* woken for a subtask of its own                                             *)

\* The subtasks the pool has accepted.
Accepted == {s \in Requests \X Slots : s[2] < nsub[s[1]]}

AcceptedInv ==
  /\ IsFiniteSet(Accepted)
  /\ \A w \in Alive : job[w] \in Accepted
  /\ \A v, w \in Alive : v # w => job[v] # job[w]
  /\ \A r \in Requests : http[r] = "collect" /\ Pooled(r) => nsub[r] = NumSubs(r)
  /\ RejectedOnlyWhenFull

-----------------------------------------------------------------------------
(* RoundsInv, behind RoundRobinBalanced: the stream holds the iterations of a *)
(* subtask one after the other, each with the value of its round              *)

RoundsInv ==
  \A r \in Requests :
    /\ \A i \in Slots : \A n \in DOMAIN out[r][i] : out[r][i][n].rr = RoundRobin(r, n - 1)
    /\ \A m \in DOMAIN results[r] :
         /\ results[r][m].rr = RoundRobin(r, results[r][m].iter)
         /\ \A d \in 0 .. results[r][m].iter :
              /\ m - d \in DOMAIN results[r]
              /\ results[r][m - d].sub = results[r][m].sub
              /\ results[r][m - d].iter = results[r][m].iter - d

=============================================================================
