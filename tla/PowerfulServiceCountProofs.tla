---------------------- MODULE PowerfulServiceCountProofs ----------------------
(* Theorems about PowerfulService that count: the threads of the pool, and the *)
(* uses of the values of a loop.                                               *)
EXTENDS PowerfulServiceResultProofs, FiniteSetTheorems, FunctionTheorems

-----------------------------------------------------------------------------
(* The pool *)

\* A step that accepts no subtask, starts no worker and lets no pooled request
\* fail or begin to collect keeps AcceptedInv.
LEMMA AcceptedKept ==
  ASSUME TypeOK, AcceptedInv, UNCHANGED <<ins, nsub, job>>, Alive' \subseteq Alive,
         \A r \in Requests : Pooled(r) /\ http'[r] \in {"failed", "collect"} =>
           http'[r] = http[r] \/ nsub[r] = NumSubs(r)
  PROVE  AcceptedInv'
<1>1. Accepted' = Accepted
  BY DEF Accepted
<1>2. RejectedOnlyWhenFull'
  <2> SUFFICES ASSUME NEW r \in Requests, http'[r] = "failed", Pooled(r), nsub[r] < NumSubs(r)
               PROVE  Cardinality(Accepted) >= Cardinality(Workers)
    BY <1>1, InsFixed DEF RejectedOnlyWhenFull, Accepted
  <2>1. CASE http[r] = "failed"
    BY <2>1 DEF AcceptedInv, RejectedOnlyWhenFull, Accepted
  <2>2. CASE nsub[r] = NumSubs(r)
    BY <2>2, SubsAreSlots DEF TypeOK
  <2> QED
    BY <2>1, <2>2
<1>3. \A r \in Requests : http'[r] = "collect" /\ Pooled(r) => nsub[r] = NumSubs(r)
  BY DEF AcceptedInv
<1> QED
  BY <1>1, <1>2, <1>3, InsFixed DEF AcceptedInv

\* The subtask a worker is given is new, and one more is accepted.
LEMMA AcceptedSubmit ==
  ASSUME TypeOK, WorkInv, AcceptedInv, NEW r \in Requests, Submit(r)
  PROVE  AcceptedInv'
<1> DEFINE x == <<r, nsub[r]>>
<1>1. UNCHANGED <<ins, http>> /\ http[r] = "submit" /\ nsub' = [nsub EXCEPT ![r] = @ + 1]
      /\ nsub[r] < NumSubs(r)
  BY DEF Submit
<1>2. NumSubs(r) \in 1 .. MaxThreads /\ nsub[r] \in Nat /\ nsub[r] \in Slots
  <2>1. NumSubs(r) \in 1 .. MaxThreads /\ nsub[r] \in Nat
    BY SubsAreSlots DEF TypeOK
  <2> QED
    BY <1>1, <2>1, EngineAssumption DEF Slots
<1>3. Accepted' = Accepted \cup {x}
  <2>1. ASSUME NEW s \in Requests \X Slots
        PROVE  s[2] < nsub'[s[1]] <=> s[2] < nsub[s[1]] \/ s = x
    <3>1. s = <<s[1], s[2]>> /\ s[1] \in Requests /\ s[2] \in Slots
      OBVIOUS
    <3>2. s[2] \in Nat /\ nsub[s[1]] \in Nat
      BY <3>1, EngineAssumption DEF Slots, TypeOK
    <3>3. nsub'[s[1]] = IF s[1] = r THEN nsub[r] + 1 ELSE nsub[s[1]]
      BY <1>1, <3>1 DEF TypeOK
    <3>4. s = x <=> s[1] = r /\ s[2] = nsub[r]
      BY <3>1
    <3> QED
      BY <1>2, <3>2, <3>3, <3>4
  <2>2. x \in Requests \X Slots
    BY <1>2
  <2> HIDE DEF x
  <2> QED
    BY <2>1, <2>2 DEF Accepted
<1>4. x \notin Accepted
  BY <1>2 DEF Accepted
<1>5. PICK w \in Candidates : pool' = [pool EXCEPT ![w] = "busy"] /\ job' = [job EXCEPT ![w] = x]
  BY DEF Submit
<1> HIDE DEF x
<1>6. w \in Workers /\ w \in Runners
  BY DEF Candidates, Polling, Runners
<1>7. Alive' \subseteq Alive \cup {w}
  BY <1>5, <1>6 DEF Alive, TypeOK
<1>8. job'[w] = x /\ \A v \in Workers : v # w => job'[v] = job[v]
  BY <1>5, <1>6 DEF TypeOK, Runners
<1>9. /\ \A v \in Alive' : job'[v] \in Accepted'
      /\ \A u, v \in Alive' : u # v => job'[u] # job'[v]
  <2>1. \A v \in Alive' : v \in Workers /\ (v = w \/ v \in Alive)
    BY <1>7 DEF Alive
  <2> QED
    BY <1>3, <1>4, <1>8, <2>1 DEF AcceptedInv
<1>10. IsFiniteSet(Accepted') /\ Cardinality(Accepted') >= Cardinality(Accepted)
  <2>1. IsFiniteSet(Accepted)
    BY DEF AcceptedInv
  <2>2. Cardinality(Accepted) \in Nat
    BY <2>1, FS_CardinalityType
  <2>3. IsFiniteSet(Accepted \cup {x}) /\ Cardinality(Accepted \cup {x}) = Cardinality(Accepted) + 1
    BY <1>4, <2>1, FS_AddElement
  <2> QED
    BY <1>3, <2>2, <2>3
<1>11. RejectedOnlyWhenFull'
  <2> SUFFICES ASSUME NEW q \in Requests, http[q] = "failed", Pooled(q), nsub'[q] < NumSubs(q)
               PROVE  Cardinality(Accepted') >= Cardinality(Workers)
    BY <1>1, InsFixed DEF RejectedOnlyWhenFull, Accepted
  <2>1. nsub'[q] = nsub[q]
    BY <1>1 DEF TypeOK
  <2>2. Cardinality(Accepted) >= Cardinality(Workers)
    BY <2>1 DEF AcceptedInv, RejectedOnlyWhenFull, Accepted
  <2>3. Cardinality(Accepted) \in Nat /\ Cardinality(Workers) \in Nat /\ Cardinality(Accepted') \in Nat
    BY <1>10, FS_CardinalityType, EngineAssumption DEF AcceptedInv
  <2> QED
    BY <1>10, <2>2, <2>3
<1>12. \A q \in Requests : http'[q] = "collect" /\ Pooled(q) => nsub'[q] = NumSubs(q)
  BY <1>1 DEF AcceptedInv, TypeOK
<1> QED
  BY <1>1, <1>9, <1>10, <1>11, <1>12, InsFixed DEF AcceptedInv

\* When the pool rejects a subtask, all its threads live and hold subtasks of
\* their own.
LEMMA AcceptedReject ==
  ASSUME TypeOK, AcceptedInv, NEW r \in Requests, Reject(r)
  PROVE  AcceptedInv'
<1>1. UNCHANGED <<ins, nsub, job, pool>> /\ Candidates = {}
      /\ \A q \in Requests : q # r => http'[q] = http[q]
  BY DEF Reject, TypeOK
<1>2. http'[r] = "failed"
  BY DEF Reject, TypeOK
<1>3. Accepted' = Accepted /\ Alive' = Alive
  BY <1>1 DEF Accepted, Alive
<1>4. Workers \subseteq Alive
  BY <1>1 DEF Candidates, Alive
<1>5. Cardinality(Accepted) >= Cardinality(Workers)
  <2> DEFINE f == [w \in Workers |-> job[w]]
  <2>1. f \in [Workers -> Accepted] /\ \A v, w \in Workers : f[v] = f[w] => v = w
    BY <1>4 DEF AcceptedInv
  <2> HIDE DEF f
  <2>2. f \in Injection(Workers, Accepted)
    BY <2>1, Fun_IsInj
  <2>3. Cardinality(Workers) <= Cardinality(Accepted)
    BY <2>2, FS_Injection DEF AcceptedInv
  <2>4. Cardinality(Workers) \in Nat /\ Cardinality(Accepted) \in Nat
    BY FS_CardinalityType, EngineAssumption DEF AcceptedInv
  <2> QED
    BY <2>3, <2>4
<1>6. RejectedOnlyWhenFull'
  BY <1>3, <1>5 DEF RejectedOnlyWhenFull, Accepted
<1> QED
  BY <1>1, <1>2, <1>3, <1>6, InsFixed DEF AcceptedInv

\* A step of a runner keeps AcceptedInv: a worker that ends a subtask lives on,
\* and a web thread that ends one was not pooled.
LEMMA AcceptedRunner ==
  ASSUME TypeOK, WorkInv, AcceptedInv, NEW t \in Runners, RunnerStep(t)
  PROVE  AcceptedInv'
<1>1. UNCHANGED <<ins, nsub, job>>
  BY RunnerKinds DEF Moves, Ends, Emits, Bookkeeping
<1>2. CASE UNCHANGED <<pool, http>>
  BY <1>1, <1>2, AcceptedKept DEF Alive
<1>3. ASSUME NEW f \in {"value", "exception"}, Ends(t, f) PROVE AcceptedInv'
  <2>1. Owns(t) /\ EndTask(t, f)
    BY <1>3 DEF Ends, WorkInv, RunnersInv
  <2>2. CASE t \in Workers
    <3>1. pool[t] = "busy" /\ pool' = [pool EXCEPT ![t] = "leaving"] /\ http' = http
      BY <2>1, <2>2 DEF Owns, EndTask
    <3>2. Alive' \subseteq Alive
      BY <2>2, <3>1 DEF Alive, TypeOK
    <3> QED
      BY <1>1, <3>1, <3>2, AcceptedKept
  <2>3. CASE t \notin Workers
    <3>1. job[t][1] = t /\ ~Pooled(t) /\ pool' = pool
          /\ \A q \in Requests : q # t => http'[q] = http[q]
      BY <2>1, <2>3 DEF Owns, EndTask, TypeOK
    <3> QED
      BY <1>1, <3>1, AcceptedKept DEF Alive
  <2> QED
    BY <2>2, <2>3
<1> QED
  BY <1>2, <1>3, RunnerKinds DEF Moves, Emits

\* A step of a web thread keeps AcceptedInv: only Reject fails a pooled request
\* that has subtasks left.
LEMMA AcceptedWeb ==
  ASSUME TypeOK, WorkInv, AcceptedInv, NEW r \in Requests, WebStep(r)
  PROVE  AcceptedInv'
<1>1. CASE Execute(r) \/ Submitted(r) \/ Collect(r) \/ Collected(r)
  <2>1. UNCHANGED <<ins, nsub, job, pool>> /\ \A q \in Requests : q # r => http'[q] = http[q]
    BY <1>1 DEF Execute, Submitted, Collect, Collected, Outcome, TypeOK
  <2>2. Pooled(r) /\ http'[r] \in {"failed", "collect"} => nsub[r] = NumSubs(r)
    BY <1>1 DEF Execute, Submitted, Collect, Collected, Outcome, TypeOK, AcceptedInv
  <2> QED
    BY <2>1, <2>2, AcceptedKept DEF Alive
<1> QED
  BY <1>1, AcceptedSubmit, AcceptedReject DEF WebStep

\* Every living thread of the pool was started or woken for an accepted subtask
\* that no other living thread was given.
THEOREM AcceptedInvariant == Spec => []AcceptedInv
<1>1. Init => AcceptedInv
  <2> SUFFICES ASSUME Init PROVE AcceptedInv
    OBVIOUS
  <2>1. Accepted = {}
    BY EngineAssumption DEF Init, Accepted, Slots
  <2>2. Alive = {} /\ RejectedOnlyWhenFull /\ \A r \in Requests : http[r] # "collect"
    BY DEF Init, Alive, RejectedOnlyWhenFull
  <2> QED
    BY <2>1, <2>2, FS_EmptySet DEF AcceptedInv
<1>2. TypeOK /\ WorkInv /\ AcceptedInv /\ [Next]_vars => AcceptedInv'
  <2> SUFFICES ASSUME TypeOK, WorkInv, AcceptedInv, [Next]_vars PROVE AcceptedInv'
    OBVIOUS
  <2>1. ASSUME NEW w \in Workers, Poll(w) \/ Expire(w) PROVE AcceptedInv'
    <3>1. UNCHANGED <<ins, nsub, job, http>>
      BY <2>1 DEF Poll, Expire, webVars
    <3>2. Alive' \subseteq Alive
      BY <2>1 DEF Poll, Expire, Alive, TypeOK
    <3> QED
      BY <3>1, <3>2, AcceptedKept
  <2>2. CASE UNCHANGED vars
    BY <2>2, AcceptedKept DEF vars, Alive
  <2> QED
    BY <2>1, <2>2, AcceptedRunner, AcceptedWeb DEF Next, Idle
<1> QED
  BY <1>1, <1>2, TypeCorrect, WorkInvariant, PTL DEF Spec

\* For any number of requests and threads, the pool refuses a subtask only when
\* every one of its threads has been given one.
THEOREM RejectsOnlyWhenFull == Spec => []RejectedOnlyWhenFull
<1>1. AcceptedInv => RejectedOnlyWhenFull
  BY DEF AcceptedInv
<1> QED
  BY <1>1, AcceptedInvariant, PTL

-----------------------------------------------------------------------------
(* The values of a loop *)

\* A remainder is what is left of any multiple.
LEMMA ModIs ==
  ASSUME NEW k \in Nat \ {0}, NEW p \in Int, NEW v \in 0 .. (k - 1), NEW x \in Nat, x = k * p + v
  PROVE  x % k = v
<1> DEFINE q == x \div k
           m == x % k
<1>1. q \in Nat /\ m \in 0 .. (k - 1) /\ x = k * q + m
  OBVIOUS
<1> HIDE DEF q, m
<1>2. \A a, b \in Int : a < b => k * a + k <= k * b
  <2> SUFFICES ASSUME NEW a \in Int, NEW b \in Int, a < b PROVE k * a + k <= k * b
    OBVIOUS
  <2>1. \A c \in Nat : k * c \in Nat
    OBVIOUS
  <2>2. b - a - 1 \in Nat
    OBVIOUS
  <2>3. k * (b - a - 1) \in Nat
    BY <2>1, <2>2
  <2>4. k * (b - a - 1) = k * b - k * a - k
    OBVIOUS
  <2>5. k * a \in Int /\ k * b \in Int
    OBVIOUS
  <2> QED
    BY <2>3, <2>4, <2>5
<1>3. k * q \in Int /\ k * p \in Int
  BY <1>1
<1>4. ~(q < p) /\ ~(p < q)
  BY <1>1, <1>2, <1>3
<1>5. q = p
  BY <1>1, <1>4
<1> QED
  BY <1>1, <1>3, <1>5 DEF m

\* How far back the value v of a loop was used, seen from a use of u.
Back(k, u, v) == IF u >= v THEN u - v ELSE k - (v - u)

\* Going that far back leads from iterations with value u to ones with value v.
LEMMA BackTo ==
  ASSUME NEW k \in Nat \ {0}, NEW u \in 0 .. (k - 1), NEW v \in 0 .. (k - 1),
         NEW j \in Nat, j % k = u
  PROVE  /\ Back(k, u, v) \in 0 .. (k - 1)
         /\ j >= Back(k, u, v) => (j - Back(k, u, v)) % k = v
         /\ j < Back(k, u, v) => j = u
<1> DEFINE p == j \div k
           d == Back(k, u, v)
<1>1. p \in Nat /\ j = k * p + u
  OBVIOUS
<1>2. d \in 0 .. (k - 1)
  BY DEF Back
<1> HIDE DEF p
<1>3. ASSUME j >= d PROVE (j - d) % k = v
  <2>1. CASE u >= v
    <3>1. j - d = k * p + v /\ j - d \in Nat
      <4>1. k * p \in Int
        BY <1>1
      <4> QED
        BY <1>1, <1>2, <1>3, <2>1, <4>1 DEF Back
    <3> DEFINE x == j - d
    <3>2. x = k * p + v /\ x \in Nat /\ p \in Int
      BY <1>1, <3>1
    <3> HIDE DEF x
    <3>3. x % k = v
      BY <3>2, ModIs
    <3> QED
      BY <3>3 DEF x
  <2>2. CASE ~(u >= v)
    <3>1. j - d = k * (p - 1) + v /\ j - d \in Nat /\ p - 1 \in Int
      <4>1. k * p \in Int /\ k * (p - 1) = k * p - k
        BY <1>1
      <4> QED
        BY <1>1, <1>2, <1>3, <2>2, <4>1 DEF Back
    <3> DEFINE x == j - d
               p1 == p - 1
    <3>2. x = k * p1 + v /\ x \in Nat /\ p1 \in Int
      BY <3>1
    <3> HIDE DEF x, p1
    <3>3. x % k = v
      BY <3>2, ModIs
    <3> QED
      BY <3>3 DEF x
  <2> QED
    BY <2>1, <2>2
<1>4. ASSUME j < d PROVE j = u
  <2>1. j = k * 0 + j /\ j \in 0 .. (k - 1)
    BY <1>2, <1>4
  <2> QED
    BY <2>1, ModIs
<1> QED
  BY <1>2, <1>3, <1>4

\* Taking the next future keeps RoundsInv: the subtask's iterations follow one
\* another in the stream as they do in its results.
LEMMA RoundsCollect ==
  ASSUME TypeOK, WorkInv, RoundsInv, NEW r \in Requests, Collect(r)
  PROVE  RoundsInv'
<1> DEFINE k == ncol[r]
           a == results[r]
           b == out[r][k]
<1>1. UNCHANGED <<ins, out>> /\ \A q \in Requests : q # r => results'[q] = results[q]
  BY DEF Collect, taskVars, TypeOK
<1>2. k \in Slots
  <2>1. NumSubs(r) \in 1 .. MaxThreads /\ k \in Nat /\ k < NumSubs(r)
    BY SubsAreSlots DEF Collect, TypeOK
  <2> QED
    BY <2>1, EngineAssumption DEF Slots
<1>3. results'[r] = a \/ results'[r] = a \o b
  BY DEF Collect, TypeOK
<1>4. a \in Seq(Results) /\ b \in Seq(Results)
  BY <1>2 DEF TypeOK
<1>5. /\ \A n \in DOMAIN b : b[n].sub = k /\ b[n].iter = n - 1 /\ b[n].rr = RoundRobin(r, n - 1)
      /\ \A m \in DOMAIN a :
           /\ a[m].rr = RoundRobin(r, a[m].iter) /\ a[m].iter \in Nat
           /\ \A d \in 0 .. a[m].iter :
                m - d \in DOMAIN a /\ a[m - d].sub = a[m].sub /\ a[m - d].iter = a[m].iter - d
  <2>1. \A m \in DOMAIN a : a[m] \in Results
    BY <1>4
  <2>2. \A m \in DOMAIN a : a[m].iter \in Nat
    BY <2>1 DEF Results
  <2> QED
    BY <1>2, <2>2 DEF WorkInv, SubtasksInv, RoundsInv
<1> HIDE DEF a, b, k
<1> DEFINE c == a \o b
<1>6. ASSUME NEW m \in DOMAIN c
      PROVE  /\ c[m].rr = RoundRobin(r, c[m].iter)
             /\ \A d \in 0 .. c[m].iter :
                  m - d \in DOMAIN c /\ c[m - d].sub = c[m].sub /\ c[m - d].iter = c[m].iter - d
  <2>1. /\ DOMAIN c = 1 .. (Len(a) + Len(b)) /\ DOMAIN a = 1 .. Len(a) /\ DOMAIN b = 1 .. Len(b)
        /\ Len(a) \in Nat /\ Len(b) \in Nat
        /\ \A n \in DOMAIN a : c[n] = a[n]
        /\ \A n \in DOMAIN b : c[Len(a) + n] = b[n]
    BY <1>4
  <2> HIDE DEF c
  <2>2. CASE m \in DOMAIN a
    BY <1>5, <2>1, <2>2
  <2>3. CASE m \notin DOMAIN a
    <3>1. PICK n \in DOMAIN b : m = Len(a) + n
      <4>1. m - Len(a) \in DOMAIN b /\ m = Len(a) + (m - Len(a))
        BY <1>6, <2>1, <2>3
      <4> QED
        BY <4>1
    <3>2. c[m] = b[n] /\ n \in 1 .. Len(b)
      BY <2>1, <3>1
    <3>3. ASSUME NEW d \in 0 .. (n - 1)
          PROVE  m - d \in DOMAIN c /\ c[m - d] = b[n - d] /\ n - d \in DOMAIN b
      <4>1. n - d \in DOMAIN b /\ m - d = Len(a) + (n - d)
        BY <2>1, <3>1, <3>2
      <4>2. m - d \in DOMAIN c
        BY <2>1, <3>1, <3>2
      <4> QED
        BY <2>1, <4>1, <4>2
    <3>4. c[m].iter = n - 1 /\ c[m].sub = k /\ c[m].rr = RoundRobin(r, n - 1)
      BY <1>5, <3>2
    <3>5. ASSUME NEW d \in 0 .. (n - 1)
          PROVE  c[m - d].sub = k /\ c[m - d].iter = (n - 1) - d
      BY <1>5, <3>2, <3>3
    <3> QED
      BY <3>3, <3>4, <3>5
  <2> QED
    BY <2>2, <2>3
<1> HIDE DEF c
<1>7. ASSUME NEW q \in Requests, NEW m \in DOMAIN results'[q]
      PROVE  /\ results'[q][m].rr = RoundRobin(q, results'[q][m].iter)
             /\ \A d \in 0 .. results'[q][m].iter :
                  /\ m - d \in DOMAIN results'[q]
                  /\ results'[q][m - d].sub = results'[q][m].sub
                  /\ results'[q][m - d].iter = results'[q][m].iter - d
  <2>1. CASE results'[q] = results[q]
    BY <1>7, <2>1 DEF RoundsInv
  <2>2. CASE results'[q] # results[q]
    <3>1. q = r /\ results'[q] = c
      BY <1>1, <1>3, <2>2 DEF a, c
    <3> QED
      BY <1>6, <1>7, <3>1
  <2> QED
    BY <2>1, <2>2
<1> QED
  BY <1>1, <1>7, AnswersFixed DEF RoundsInv

\* A result that an iteration appends has the round of that iteration.
LEMMA RoundsStep ==
  ASSUME TypeOK, WorkInv, CallInv, RoundsInv, NEW t \in Runners, RunnerStep(t)
  PROVE  RoundsInv'
<1>1. PICK r \in Requests, i \in Slots : r = job[t][1] /\ i = job[t][2]
  BY NodeType
<1>2. UNCHANGED <<ins, results>>
  BY RunnerKinds DEF Moves, Ends, Emits, Bookkeeping
<1>3. CASE out' = out
  BY <1>2, <1>3, AnswersFixed DEF RoundsInv
<1>4. CASE pc[t] = "result" /\ Appended(t)
  <2>1. PICK e \in Results : e.rr = RoundRobin(r, it[t])
                             /\ out' = [out EXCEPT ![r][i] = Append(@, e)]
    BY <1>1, <1>4 DEF Appended
  <2>2. \A q \in Requests, j \in Slots :
          out'[q][j] = IF q = r /\ j = i THEN Append(out[r][i], e) ELSE out[q][j]
    BY <2>1 DEF TypeOK
  <2>3. out[r][i] \in Seq(Results) /\ it[t] = Len(out[r][i])
    BY <1>1, <1>4 DEF TypeOK, WorkInv, RunnersInv, Owns
  <2>4. \A n \in DOMAIN Append(out[r][i], e) :
          \/ n \in DOMAIN out[r][i] /\ Append(out[r][i], e)[n] = out[r][i][n]
          \/ n - 1 = it[t] /\ Append(out[r][i], e)[n] = e
    BY <2>3
  <2>5. ASSUME NEW q \in Requests, NEW j \in Slots, NEW n \in DOMAIN out'[q][j]
        PROVE  out'[q][j][n].rr = RoundRobin(q, n - 1)
    <3>1. CASE q = r /\ j = i
      <4>1. out'[q][j] = Append(out[r][i], e)
        BY <2>2, <3>1
      <4> QED
        BY <2>1, <2>4, <2>5, <3>1, <4>1 DEF RoundsInv
    <3>2. CASE ~(q = r /\ j = i)
      BY <2>2, <2>5, <3>2 DEF RoundsInv
    <3> QED
      BY <3>1, <3>2
  <2> QED
    BY <1>2, <2>5, AnswersFixed DEF RoundsInv
<1> QED
  BY <1>3, <1>4, IterationWrites

\* Every subtask starts the round at its first iteration and goes on in order,
\* and the stream keeps that order.
THEOREM RoundsInvariant == Spec => []RoundsInv
<1>1. Init => RoundsInv
  BY DEF Init, RoundsInv
<1>2. TypeOK /\ WorkInv /\ CallInv /\ RoundsInv /\ [Next]_vars => RoundsInv'
  <2> SUFFICES ASSUME TypeOK, WorkInv, CallInv, RoundsInv, [Next]_vars PROVE RoundsInv'
    OBVIOUS
  <2>1. ASSUME UNCHANGED <<ins, out, results>> PROVE RoundsInv'
    BY <2>1, AnswersFixed DEF RoundsInv
  <2>2. ASSUME NEW r \in Requests, WebStep(r) PROVE RoundsInv'
    <3>1. CASE Execute(r) \/ Submit(r) \/ Reject(r) \/ Submitted(r) \/ Collected(r)
      BY <2>1, <3>1 DEF Execute, Submit, Reject, Submitted, Collected, taskVars
    <3> QED
      BY <2>2, <3>1, RoundsCollect DEF WebStep
  <2>3. ASSUME NEW w \in Workers, Poll(w) \/ Expire(w) PROVE RoundsInv'
    BY <2>1, <2>3 DEF Poll, Expire, webVars, taskVars
  <2>4. CASE UNCHANGED vars
    BY <2>1, <2>4 DEF vars
  <2> QED
    BY <2>2, <2>3, <2>4, RoundsStep DEF Next, Idle
<1> QED
  BY <1>1, <1>2, TypeCorrect, WorkInvariant, CallInvariant, PTL DEF Spec

\* A value is used at most once per subtask more often than any other: going
\* back in the stream maps its uses to uses of the other value, except for the
\* first round of each subtask.
LEMMA UsesBalanced ==
  ASSUME TypeOK, WorkInv, RoundsInv, NEW r \in Requests,
         NEW u \in 0 .. (ins[r].rr - 1), NEW v \in 0 .. (ins[r].rr - 1)
  PROVE  Cardinality({n \in DOMAIN results[r] : results[r][n].rr = u})
           <= Cardinality({n \in DOMAIN results[r] : results[r][n].rr = v}) + NumSubs(r)
<1> DEFINE R == results[r]
           k == ins[r].rr
           d == Back(k, u, v)
           U == {n \in DOMAIN R : R[n].rr = u}
           V == {n \in DOMAIN R : R[n].rr = v}
           First == {n \in U : R[n].iter < d}
           Later == {n \in U : R[n].iter >= d}
<1>1. k \in Nat \ {0} /\ u \in 0 .. (k - 1) /\ v \in 0 .. (k - 1)
  <2>1. k \in Nat
    BY InstructionType DEF TypeOK
  <2> QED
    BY <2>1
<1>2. R \in Seq(Results) /\ DOMAIN R = 1 .. Len(R) /\ Len(R) \in Nat
  BY DEF TypeOK
<1>3. NumSubs(r) \in Nat \ {0}
  BY SubsAreSlots, EngineAssumption
<1>4. \A n \in DOMAIN R :
        /\ R[n].iter \in Nat /\ R[n].sub \in Nat /\ R[n].sub < NumSubs(r)
        /\ R[n].rr = R[n].iter % k
        /\ n = Offset(r, R[n].sub) + R[n].iter + 1
        /\ \A e \in 0 .. R[n].iter : n - e \in DOMAIN R /\ R[n - e].iter = R[n].iter - e
  <2> SUFFICES ASSUME NEW n \in DOMAIN R
               PROVE  /\ R[n].iter \in Nat /\ R[n].sub \in Nat /\ R[n].sub < NumSubs(r)
                      /\ R[n].rr = R[n].iter % k
                      /\ n = Offset(r, R[n].sub) + R[n].iter + 1
                      /\ \A e \in 0 .. R[n].iter : n - e \in DOMAIN R /\ R[n - e].iter = R[n].iter - e
    OBVIOUS
  <2>1. R[n] \in Results
    BY <1>2
  <2>2. R[n].iter \in Nat /\ R[n].sub \in Nat
    BY <2>1 DEF Results
  <2>3. R[n].sub < ncol[r] /\ ncol[r] <= NumSubs(r) /\ n = Offset(r, R[n].sub) + R[n].iter + 1
    BY DEF WorkInv, StreamInv
  <2>4. R[n].sub < NumSubs(r)
    BY <1>3, <2>2, <2>3 DEF TypeOK
  <2>5. RoundRobin(r, R[n].iter) = R[n].iter % k
    BY <1>1 DEF RoundRobin
  <2> QED
    BY <2>2, <2>3, <2>4, <2>5 DEF RoundsInv
<1>5. d \in 0 .. (k - 1)
  BY <1>1 DEF Back
<1> HIDE DEF R, k, d
<1>6. \A n \in First : R[n].iter = u
  BY <1>1, <1>4, BackTo DEF d
<1>7. \A n \in Later : n - d \in V
  <2> SUFFICES ASSUME NEW n \in Later PROVE n - d \in V
    OBVIOUS
  <2>1. n \in DOMAIN R /\ R[n].iter % k = u /\ R[n].iter >= d /\ R[n].iter \in Nat /\ d \in Nat
    BY <1>1, <1>4, BackTo DEF d
  <2>2. n - d \in DOMAIN R /\ R[n - d].iter = R[n].iter - d
    BY <1>4, <2>1
  <2>3. (R[n].iter - d) % k = v
    BY <1>1, <2>1, BackTo DEF d
  <2> QED
    BY <1>4, <2>2, <2>3
<1>8. IsFiniteSet(U) /\ IsFiniteSet(V) /\ IsFiniteSet(First) /\ IsFiniteSet(Later)
  <2>1. IsFiniteSet(DOMAIN R)
    BY <1>2, FS_Interval
  <2>2. U \in SUBSET DOMAIN R /\ V \in SUBSET DOMAIN R
        /\ First \in SUBSET DOMAIN R /\ Later \in SUBSET DOMAIN R
    OBVIOUS
  <2> HIDE DEF U, V, First, Later
  <2> QED
    BY <2>1, <2>2, FS_Subset
<1>9. Cardinality(First) <= NumSubs(r)
  <2> DEFINE f == [n \in First |-> R[n].sub]
  <2>1. \A n \in First : f[n] \in 0 .. (NumSubs(r) - 1)
    BY <1>4, <1>3
  <2>2. \A m, n \in First : f[m] = f[n] => m = n
    BY <1>4, <1>6
  <2>3. f \in [First -> 0 .. (NumSubs(r) - 1)]
    BY <2>1
  <2> HIDE DEF f, First
  <2>4. f \in Injection(First, 0 .. (NumSubs(r) - 1))
    BY <2>2, <2>3, Fun_IsInj
  <2>5. IsFiniteSet(0 .. (NumSubs(r) - 1)) /\ Cardinality(0 .. (NumSubs(r) - 1)) = NumSubs(r)
    <3>1. 0 \in Int /\ NumSubs(r) - 1 \in Int /\ ~(0 > NumSubs(r) - 1)
      BY <1>3
    <3>2. Cardinality(0 .. (NumSubs(r) - 1)) = NumSubs(r) - 1 - 0 + 1
      BY <3>1, FS_Interval
    <3>3. NumSubs(r) - 1 - 0 + 1 = NumSubs(r)
      BY <1>3
    <3>4. IsFiniteSet(0 .. (NumSubs(r) - 1))
      BY <3>1, FS_Interval
    <3> QED
      BY <3>2, <3>3, <3>4
  <2> QED
    BY <2>4, <2>5, FS_Injection
<1>10. Cardinality(Later) <= Cardinality(V)
  <2> DEFINE f == [n \in Later |-> n - d]
  <2>1. f \in [Later -> V]
    BY <1>7
  <2>2. \A m, n \in Later : f[m] = f[n] => m = n
    <3>1. d \in Int /\ \A n \in Later : n \in Int
      BY <1>5, <1>1, <1>2
    <3> QED
      BY <3>1
  <2> HIDE DEF f, Later, V
  <2>3. f \in Injection(Later, V)
    BY <2>1, <2>2, Fun_IsInj
  <2> QED
    BY <1>8, <2>3, FS_Injection
<1>11. Cardinality(U) <= Cardinality(First) + Cardinality(Later)
  <2>1. U = First \cup Later
    <3>1. \A n \in U : R[n].iter < d \/ R[n].iter >= d
      <4>1. d \in Nat
        BY <1>1, <1>5
      <4>2. \A n \in U : R[n].iter \in Nat
        BY <1>4
      <4> QED
        BY <4>1, <4>2
    <3> QED
      BY <3>1
  <2> HIDE DEF U, First, Later
  <2>2. Cardinality(U) = Cardinality(First) + Cardinality(Later) - Cardinality(First \cap Later)
    BY <1>8, <2>1, FS_Union
  <2>3. IsFiniteSet(First \cap Later)
    BY <1>8, FS_Intersection
  <2>4. Cardinality(First \cap Later) \in Nat /\ Cardinality(First) \in Nat /\ Cardinality(Later) \in Nat
    BY <1>8, <2>3, FS_CardinalityType
  <2> QED
    BY <2>2, <2>4
<1>12. /\ Cardinality(U) \in Nat /\ Cardinality(V) \in Nat
       /\ Cardinality(First) \in Nat /\ Cardinality(Later) \in Nat
  BY <1>8, FS_CardinalityType
<1>13. Cardinality(U) <= Cardinality(V) + NumSubs(r)
  <2> HIDE DEF U, V, First, Later
  <2> QED
    BY <1>3, <1>9, <1>10, <1>11, <1>12
<1> QED
  BY <1>13 DEF R

\* For any number of values, iterations and threads, two values of a loop are
\* used equally often up to one use per subtask.
THEOREM LoopsAreBalanced == Spec => []RoundRobinBalanced
<1>1. TypeOK /\ WorkInv /\ RoundsInv => RoundRobinBalanced
  BY UsesBalanced DEF RoundRobinBalanced
<1> QED
  BY <1>1, TypeCorrect, WorkInvariant, RoundsInvariant, PTL
=============================================================================
