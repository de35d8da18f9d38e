------------------------- MODULE MCPowerfulService -------------------------
(* Instances of PowerfulService for TLC. *)
EXTENDS PowerfulServiceInvariants, TLC

\* An instruction that calls a next hop over HTTP, collected as a list.
Plain == [times |-> 2, threads |-> 2, leaf |-> FALSE, call |-> "url", by |-> "http",
          prep |-> {"ok"}, renders |-> {"url"}, tmplOk |-> TRUE, rr |-> 0,
          collectBy |-> "each", headersOk |-> TRUE]

\* Requests that compete for the pool: an uneven split with random errors, and
\* more threads than iterations and than the pool has.
PoolInstructions ==
  { [Plain EXCEPT !.leaf = TRUE, !.prep = {"ok", "throw"}, !.times = 3],
    [Plain EXCEPT !.leaf = TRUE, !.threads = 3] }

\* Requests whose execute ends before its subtasks do: a broken template, a
\* stream nobody reads, no collectBy at all, and one that fits.
StragglerInstructions ==
  { [Plain EXCEPT !.leaf = TRUE, !.tmplOk = FALSE],
    [Plain EXCEPT !.leaf = TRUE, !.collectBy = "other"],
    [Plain EXCEPT !.leaf = TRUE, !.collectBy = "null"],
    [Plain EXCEPT !.leaf = TRUE] }

Symmetry == Permutations(Workers)

\* One request, executed by its web thread (one iteration or none asked for, a
\* loop, a stream that is not consumed or cannot be reduced, a response header or
\* a target that cannot be rendered, a target that comes out empty) ...
InlineInstructions ==
  { [Plain EXCEPT !.times = 0, !.threads = 3, !.collectBy = "badstat", !.headersOk = FALSE],
    [Plain EXCEPT !.times = 1, !.prep = {"throw"}],
    [Plain EXCEPT !.times = 3, !.threads = 1, !.call = "dubbo", !.prep = {"ok", "throw"},
                  !.renders = Outcomes],
    [Plain EXCEPT !.times = 2, !.threads = 0, !.collectBy = "other"],
    [Plain EXCEPT !.times = 2, !.threads = 1, !.collectBy = "badstat", !.call = ""],
    [Plain EXCEPT !.times = 2, !.threads = 1, !.headersOk = FALSE] }

\* ... or by two threads that share the node of the next hop, or loop over copies
\* of it, with and without a prefix, a template that renders, a target, a known
\* protocol.
IterationInstructions ==
  InlineInstructions
    \cup { [Plain EXCEPT !.times = 3, !.call = c, !.rr = k] : c \in {"dubbo", "tmpl"}, k \in {0, 2} }
    \cup { [Plain EXCEPT !.call = "tmpl", !.renders = o] : o \in {{"url", ""}, {"url", "throw"}} }
    \cup { [Plain EXCEPT !.call = "tmpl", !.times = 3, !.rr = 2, !.renders = {"url", ""}] }
    \cup { [Plain EXCEPT !.times = 3, !.call = ""], [Plain EXCEPT !.by = "grpc"],
           [Plain EXCEPT !.collectBy = "null"], [Plain EXCEPT !.collectBy = "other", !.headersOk = FALSE] }
=============================================================================
