------------------------------ MODULE BatchRPC ------------------------------
(***************************************************************************)
(* Onchain.RPC.send_batch/2: several requests in one HTTP exchange, whose  *)
(* answers the node may give in any order, twice, or not at all.  Requests *)
(* are numbered from 1; a result or an error is told from others by its    *)
(* place in the node's answer.                                             *)
(***************************************************************************)
EXTENDS Integers, Sequences, FiniteSetsExt

Stray == 0      \* an id that is no request's, or an item that is no map
Error(why) == [tag |-> "error", why |-> why]
Ok(places) == [tag |-> "ok", places |-> places]

\* decode_batch_responses/2: of two items with one id Map.new keeps the last.
Place(items, i) == Max({0} \cup {k \in DOMAIN items : items[k].id = i})

Kind(items, i) == IF Place(items, i) = 0 THEN "missing" ELSE items[Place(items, i)].kind

\* Faulty variant: the first error in the order of the answer.
CollectFirstError(items, n) ==
  LET errors == {Place(items, i) : i \in {j \in 1..n : Kind(items, j) # "result"}} IN
  IF errors = {} THEN Ok([i \in 1..n |-> Place(items, i)])
  ELSE Error(IF 0 \in errors THEN "missing" ELSE [place |-> Min(errors)])

\* collect_batch_results/1: the first request without a result decides.
Collect(items, n) ==
  LET failing == {i \in 1..n : Kind(items, i) # "result"} IN
  IF failing = {} THEN Ok([i \in 1..n |-> Place(items, i)])
  ELSE LET i == Min(failing) IN
       Error(IF Kind(items, i) = "missing" THEN "missing" ELSE [place |-> Place(items, i)])

\* send_batch/2: the body is the list the node answered, or why there is none
\* (a request that is no {method, params}, a failed exchange, an error for the
\* batch as a whole, a body that is no list).  No batch of nothing is sent.
SendBatch(n, body) ==
  IF n = 0 THEN Ok(<<>>)
  ELSE IF body.kind = "list" THEN Collect(body.items, n)
  ELSE Error(body.kind)

=============================================================================
