----------------------------- MODULE MCEvmFork -----------------------------
(* A sender c and a contract k, and the calls that tell the rules apart. *)
EXTENDS EvmFork, FiniteSets

CONSTANTS c, k

Unforced == [a \in Accounts |-> NoOverride]
With(a, field, v) == [Unforced EXCEPT ![a][field] = v]

Overrides ==
  { Unforced, With(c, "nonce", MaxNonce), With(k, "slot", MaxWord),
    With(k, "code", "bump"), [With(c, "nonce", 0) EXCEPT ![k].slot = 0] }

Simulate(op, calls, overrides, number, tag, chainId, revision) ==
  [op |-> op, from |-> c, calls |-> calls, overrides |-> overrides,
   number |-> number, tag |-> tag, chainId |-> chainId, spec |-> revision]

\* What a call runs; a transaction differs in its answer only.
Singles ==
  { Simulate("call", <<k>>, o, Nil, tag, 1, Nil) :
      o \in Overrides, tag \in {"latest", "pending"} }
  \cup { Simulate("transaction", <<k>>, Unforced, Nil, tag, 1, Nil) :
           tag \in {"latest", "pending"} }

\* A block named every way; a number wins over a tag.
Placed ==
  { Simulate("call", <<k>>, Unforced, Nil, tag, 1, Nil) :
      tag \in {Nil, "finalized", "safe", "earliest"} }
  \cup { Simulate("call", <<k>>, Unforced, n, "earliest", 1, Nil) : n \in 1..2 }

Batches ==
  { Simulate("batch", calls, o, Nil, tag, 1, Nil) :
      calls \in {<<k, k>>, <<c, k>>}, o \in Overrides, tag \in {"latest", "pending"} }
  \cup { Simulate("batch", <<>>, Unforced, Nil, "latest", 1, Nil) }

\* The revision: by number, by time, named by the caller, or unknown.
Revised ==
  { Simulate("call", <<k>>, Unforced, Nil, "latest", chainId, revision) :
      chainId \in {1, 10, 8453, 137},
      revision \in {Nil, "Prague", "Unheard"} }

MCSimulations == Singles \cup Placed \cup Batches \cup Revised

\* The sender has no code; the contract has any.
MCGenesis ==
  { [info |-> [a \in Accounts |-> [nonce |-> IF a = c THEN 1 ELSE 0,
                                  code |-> IF a = c THEN "none" ELSE code]],
     slot |-> [a \in Accounts |-> 0]] : code \in Codes }

\* Headers just below an activation.
MCOrigins == { [number |-> 12964999, time |-> 1779991199] }

=============================================================================
