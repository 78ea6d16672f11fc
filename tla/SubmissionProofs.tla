-------------------------- MODULE SubmissionProofs --------------------------
(***************************************************************************)
(* For every number of calls, fees, retries and whichever options, calls   *)
(* of execute_trx/3 satisfy TypeOK, OncePerCall, NoGap and OkStays, and    *)
(* their answers mean what Broadcast says.                                 *)
(***************************************************************************)
EXTENDS Submission, TLAPS

\* Nothing of c has left it.
Absent(c) ==
  /\ \A m \in wire : m.call # c
  /\ \A e \in pool : e[2] # c
  /\ ~Mined(c)
  /\ \A e \in displaced : e[1] # c /\ e[2] # c

\* What each call has at each request.
Stages ==
  \A c \in Calls :
    /\ pc[c] \notin {"send", "done"} => Absent(c) /\ outcome[c] = None
    /\ outcome[c] = "unsent" => Absent(c)
    /\ answer[c] # None => pc[c] = "send"
    /\ pc[c] = "send" => outcome[c] = None
    /\ pc[c] \in {"idle", "fees", "nonce"} => nonce[c] = None
    /\ pc[c] \in {"verify", "estimate", "send"} => nonce[c] # None
    /\ pc[c] \in {"nonce", "verify", "estimate", "send"} => fee[c] # None

\* A transaction has its call's nonce wherever it is, and the node keeps one
\* for each nonce.
Agreement ==
  /\ \A m \in wire :
       /\ m.nonce = nonce[m.call] /\ fee[m.call] # None
       /\ m.attempt = "current" => pc[m.call] = "send"
  /\ \A e \in pool : e[1] = nonce[e[2]] /\ fee[e[2]] # None /\ e[1] >= Len(chain)
  /\ \A e, f \in pool : e[1] = f[1] => e = f
  /\ \A i \in DOMAIN chain : nonce[chain[i]] = i - 1
  /\ \A e \in displaced : nonce[e[1]] # None /\ nonce[e[1]] = nonce[e[2]]

\* A nonce that was accepted stays taken.
Held ==
  \A c \in Accepted : nonce[c] # None /\ (nonce[c] < Len(chain) \/ Occupied(nonce[c]))

\* An answer is true when it is given and stays true.
Truthful ==
  \A c \in Calls :
    /\ "ok" \in {answer[c], outcome[c]} => c \in Accepted
    /\ "refused" \in {answer[c], outcome[c]} =>
         nonce[c] # None /\ fee[c] # None /\ ~Takes(c, nonce[c])

\* Without retries one copy is sent, and its answer says it all.
Single ==
  MaxRetries = 0 =>
    \A c \in Calls :
      /\ pc[c] = "send" => \A m \in wire : m.call = c => m.attempt = "current"
      /\ answer[c] # None => \A m \in wire : m.call # c
      /\ pc[c] = "send" /\ answer[c] # "ok" => c \notin Accepted
      /\ outcome[c] = "refused" => c \notin Accepted

\* A call that began later has a later nonce.
Later ==
  Selector = "pending" =>
    \A c \in Calls : \A d \in before[c] :
      /\ outcome[d] = "ok"
      /\ nonce[c] # None => nonce[d] < nonce[c]

IInv ==
  /\ TypeOK /\ Stages /\ Agreement /\ NoGap /\ Held /\ Truthful /\ Single
  /\ Later /\ OkStays

-----------------------------------------------------------------------------
(* Operators. *)

LEMMA FollowingIs ==
  /\ Following("nonce") \in {"verify", "estimate", "send"}
  /\ Following("verify") \in {"estimate", "send"}
  /\ Following("estimate") = "send"
BY DEF Following

LEMMA StaleIs ==
  ASSUME TypeOK, NEW c \in Calls
  PROVE  /\ Stale(c) \subseteq Copies
         /\ \A m \in Stale(c) : \E k \in wire :
              /\ k.call = m.call /\ k.nonce = m.nonce
              /\ m.attempt = IF m.call = c THEN "old" ELSE k.attempt
BY DEF Stale, TypeOK, Copies

\* Steps of a call that leave the node as it is.
Quiet == UNCHANGED <<pool, chain, displaced>>

LEMMA QuietNode ==
  ASSUME Quiet
  PROVE  /\ Accepted' = Accepted
         /\ \A c : Mined(c)' = Mined(c)
         /\ \A n : Occupied(n)' = Occupied(n)
BY DEF Quiet, Accepted, Mined, Occupied

THEOREM InitIInv == Init => IInv
<1> SUFFICES ASSUME Init PROVE IInv
  OBVIOUS
<1> USE DEF Init
<1>1. TypeOK
  BY OptionsGiven DEF TypeOK, Preparing, Nonces
<1>2. Accepted = {} /\ \A c \in Calls : Absent(c)
  BY DEF Accepted, Mined, Absent
<1>3. Stages
  BY <1>2 DEF Stages, Preparing
<1>4. Agreement /\ NoGap /\ OkStays
  BY DEF Agreement, NoGap, OkStays
<1>5. Held /\ Truthful /\ Single /\ Later
  BY <1>2, NoneIsNoNumber DEF Held, Truthful, Single, Later
<1> QED
  BY <1>1, <1>3, <1>4, <1>5 DEF IInv

-----------------------------------------------------------------------------
(* The steps of a call. *)

LEMMA BeginStep ==
  ASSUME IInv, NEW c \in Calls, Begin(c)
  PROVE  IInv'
<1> USE DEF IInv, Begin, Enter
<1>1. TypeOK'
  BY OptionsGiven DEF TypeOK, Preparing
<1>2. Quiet /\ wire' = wire
  BY DEF Quiet
<1>3. \A d \in Calls : Absent(d)' = Absent(d)
  BY <1>2, QuietNode DEF Absent, Quiet
<1>4. Stages'
  BY <1>3 DEF Stages, TypeOK
<1>5. Agreement'
  BY <1>2 DEF Agreement, Quiet, TypeOK, Copies
<1>6. NoGap' /\ Held' /\ Truthful'
  BY <1>2, QuietNode DEF NoGap, Held, Truthful, Takes, Outbids, Quiet
<1>7. Single'
  BY <1>2, QuietNode DEF Single, TypeOK, Copies
<1>8. Later'
  BY DEF Later, Stages, TypeOK
<1>9. OkStays'
  BY <1>2 DEF OkStays, Stages, Absent, TypeOK, Quiet
<1> QED
  BY <1>1, <1>4, <1>5, <1>6, <1>7, <1>8, <1>9

LEMMA GasParametersStep ==
  ASSUME IInv, NEW c \in Calls, GasParameters(c)
  PROVE  IInv'
<1> USE DEF IInv, GasParameters, Enter
<1>1. TypeOK'
  BY OptionsGiven DEF TypeOK, Preparing
<1>2. Quiet /\ wire' = wire /\ Absent(c)
  BY DEF Quiet, Stages
<1>3. \A d \in Calls : Absent(d)' = Absent(d)
  BY <1>2, QuietNode DEF Absent, Quiet
<1>a. \A d \in Calls : d # c => fee'[d] = fee[d]
  BY DEF TypeOK
<1>b. fee'[c] # None
  BY OptionsGiven, NoneIsNoNumber DEF TypeOK
<1>4. Stages'
  BY <1>3, <1>a, <1>b DEF Stages, TypeOK
<1>5. Agreement'
  BY <1>2, <1>a, <1>b DEF Agreement, Quiet, TypeOK, Copies
<1>6. NoGap' /\ Held'
  BY <1>2, QuietNode DEF NoGap, Held, Quiet
<1>7. \A d \in Calls : \A n : d # c => Takes(d, n)' = Takes(d, n)
  BY <1>2, <1>a DEF Takes, Outbids, Quiet, Absent
<1>8. Truthful'
  BY <1>2, <1>7, <1>a, <1>b, QuietNode DEF Truthful, Stages
<1>9. Single' /\ Later' /\ OkStays'
  BY <1>2, QuietNode DEF Single, Later, OkStays, TypeOK, Copies, Quiet
<1> QED
  BY <1>1, <1>4, <1>5, <1>6, <1>8, <1>9

\* What entering a request sends.
LEMMA Sends ==
  ASSUME IInv, NEW c \in Calls, NEW p, NEW n \in Nat, Enter(c, p, n)
  PROVE  /\ Quiet
         /\ \A m \in wire' : m \in wire \/ (p = "send" /\ m = Copy(c, n, "current"))
         /\ wire' \subseteq Copies
         /\ \A d \in Calls : d # c => Absent(d)' = Absent(d)
         /\ p # "send" => Absent(c)' = Absent(c)
<1> USE DEF Enter, Copy
<1>1. Quiet
  BY DEF Quiet
<1> QED
  BY <1>1, QuietNode DEF IInv, TypeOK, Copies, Absent, Quiet

LEMMA GetNonceStep ==
  ASSUME IInv, NEW c \in Calls, GetNonce(c)
  PROVE  IInv'
<1>1. PICK n \in TransactionCounts :
        nonce' = [nonce EXCEPT ![c] = n] /\ Enter(c, Following("nonce"), n)
  BY DEF GetNonce
<1>a. Len(chain) \in Nat
  BY DEF IInv, TypeOK
<1>2. n \in Nat /\ n >= Len(chain)
  BY <1>a DEF TransactionCounts, PendingCounts
<1>b. \A m \in Len(chain)..n : m < n => Occupied(m)
  <2>1. CASE Selector = "latest"
    BY <1>a, <2>1 DEF TransactionCounts
  <2>2. CASE Selector # "latest"
    BY <2>2 DEF TransactionCounts, PendingCounts
  <2> QED
    BY <2>1, <2>2
<1> DEFINE p == Following("nonce")
<1>3. p \in {"verify", "estimate", "send"}
  BY FollowingIs
<1>4. /\ pc[c] = "nonce" /\ Absent(c) /\ outcome[c] = None /\ fee[c] # None
      /\ answer[c] = None /\ nonce[c] = None
  BY DEF GetNonce, IInv, Stages
<1>5. /\ pc' = [pc EXCEPT ![c] = p] /\ left' = [left EXCEPT ![c] = MaxRetries]
      /\ UNCHANGED <<contract, fee, before, answer, outcome, reason>>
  BY <1>1 DEF GetNonce, Enter
<1> HIDE DEF p
<1>6. /\ Quiet /\ wire' \subseteq Copies
      /\ \A m \in wire' : m \in wire \/ (p = "send" /\ m = Copy(c, n, "current"))
      /\ \A d \in Calls : d # c => Absent(d)' = Absent(d)
      /\ p # "send" => Absent(c)' = Absent(c)
  BY <1>1, <1>2, Sends DEF p
<1>7. \A d \in Calls : d # c => nonce'[d] = nonce[d]
  BY <1>1 DEF IInv, TypeOK
<1>8. nonce'[c] = n /\ n # None
  BY <1>1, <1>2, NoneIsNoNumber DEF IInv, TypeOK
<1> USE DEF IInv
<1>9. TypeOK'
  BY <1>1, <1>2, <1>3, <1>5, <1>6, OptionsGiven DEF TypeOK, Nonces, Preparing, Quiet
<1>10. Stages'
  <2>1. \A d \in Calls : d # c => pc'[d] = pc[d]
    BY <1>5 DEF TypeOK
  <2>2. pc'[c] = p
    BY <1>5 DEF TypeOK
  <2> QED
    BY <1>3, <1>4, <1>5, <1>6, <1>7, <1>8, <2>1, <2>2, NoneIsNoNumber DEF Stages
<1>11. Agreement'
  BY <1>3, <1>4, <1>5, <1>6, <1>7, <1>8 DEF Agreement, Quiet, TypeOK, Copies, Copy, Absent, Mined
<1>12. NoGap'
  <2> SUFFICES ASSUME NEW d \in Calls, nonce'[d] # None,
                      NEW m \in Len(chain)..nonce'[d], m < nonce'[d]
               PROVE  Occupied(m)
    BY <1>6, QuietNode DEF NoGap, Quiet
  <2>1. CASE d = c
    BY <1>8, <1>b, <2>1
  <2>2. CASE d # c
    BY <1>7, <2>2 DEF NoGap
  <2> QED
    BY <2>1, <2>2
<1>13. c \notin Accepted
  BY <1>4 DEF Accepted, Absent
<1>14. Held'
  BY <1>6, <1>7, <1>13, QuietNode DEF Held, Quiet, Accepted
<1>15. \A d \in Calls : \A k : Takes(d, k)' = Takes(d, k)
  BY <1>5, <1>6 DEF Takes, Outbids, Quiet
<1>16. Truthful'
  BY <1>4, <1>5, <1>6, <1>7, <1>15, NoneIsNoNumber, QuietNode DEF Truthful
<1>17. Single'
  BY <1>3, <1>4, <1>5, <1>6, <1>13, QuietNode DEF Single, TypeOK, Copies, Copy, Absent
<1>18. ASSUME Selector = "pending", NEW d \in before[c]
       PROVE  nonce[d] < n
  <2>1. /\ d \in Accepted /\ d \in Calls /\ nonce[d] \in Nat
        /\ nonce[d] < Len(chain) \/ Occupied(nonce[d])
    BY <1>18, NoneIsNoNumber DEF Later, Truthful, Held, TypeOK, Nonces
  <2>2. ~Occupied(n) /\ \A m \in Len(chain)..n : m < n => Occupied(m)
    BY <1>1, <1>18 DEF TransactionCounts, PendingCounts
  <2>3. n < nonce[d] => Occupied(n)
    BY <1>a, <1>2, <2>1, NoneIsNoNumber DEF NoGap
  <2> QED
    BY <1>2, <2>1, <2>2, <2>3
<1>19. Later'
  BY <1>4, <1>5, <1>7, <1>8, <1>18, NoneIsNoNumber DEF Later, TypeOK
<1>20. OkStays'
  BY <1>5, <1>6 DEF OkStays, Quiet
<1> QED
  BY <1>9, <1>10, <1>11, <1>12, <1>14, <1>16, <1>17, <1>19, <1>20

LEMMA TryStep ==
  ASSUME IInv, NEW c \in Calls, Try(c)
  PROVE  IInv'
<1> DEFINE p == Following(pc[c])
<1>1. p \in {"estimate", "send"}
  BY FollowingIs DEF Try
<1>2. /\ pc[c] \in {"verify", "estimate"} /\ Absent(c) /\ outcome[c] = None
      /\ fee[c] # None /\ nonce[c] \in Nat /\ answer[c] = None
  BY DEF Try, IInv, Stages, TypeOK, Nonces
<1>3. /\ pc' = [pc EXCEPT ![c] = p] /\ left' = [left EXCEPT ![c] = MaxRetries]
      /\ UNCHANGED <<contract, fee, nonce, before, answer, outcome, reason>>
  BY DEF Try, Enter
<1> HIDE DEF p
<1>4. /\ Quiet /\ wire' \subseteq Copies
      /\ \A m \in wire' : m \in wire \/ (p = "send" /\ m = Copy(c, nonce[c], "current"))
      /\ \A d \in Calls : d # c => Absent(d)' = Absent(d)
      /\ p # "send" => Absent(c)' = Absent(c)
  BY <1>2, Sends DEF p, Try
<1> USE DEF IInv
<1>5. TypeOK'
  BY <1>1, <1>3, <1>4, OptionsGiven DEF TypeOK, Preparing, Quiet
<1>6. Stages'
  BY <1>1, <1>2, <1>3, <1>4, NoneIsNoNumber DEF Stages, TypeOK
<1>7. Agreement'
  BY <1>1, <1>2, <1>3, <1>4 DEF Agreement, Quiet, TypeOK, Copies, Copy, Absent
<1>8. NoGap' /\ Held'
  BY <1>3, <1>4, QuietNode DEF NoGap, Held, Quiet
<1>9. c \notin Accepted
  BY <1>2 DEF Accepted, Absent
<1>10. Truthful'
  BY <1>3, <1>4, QuietNode DEF Truthful, Takes, Outbids, Quiet
<1>11. Single'
  BY <1>1, <1>2, <1>3, <1>4, <1>9, QuietNode DEF Single, TypeOK, Copies, Copy, Absent
<1>12. Later' /\ OkStays'
  BY <1>3, <1>4 DEF Later, OkStays, Quiet
<1> QED
  BY <1>5, <1>6, <1>7, <1>8, <1>10, <1>11, <1>12

\* Every way to return.
LEMMA FinishStep ==
  ASSUME IInv, NEW c \in Calls, NEW o \in {"ok", "refused", "lost", "unsent"}, NEW why,
         why \in {None, "reverted", "error"}, Finish(c, o, why),
         \/ o = "unsent" /\ pc[c] \in Preparing
         \/ o = "lost" /\ pc[c] = "send"
         \/ o = answer[c] /\ pc[c] = "send"
  PROVE  IInv'
<1> USE DEF IInv, Finish
<1>1. Quiet /\ wire' = Stale(c)
  BY DEF Quiet
<1>2. \A m \in wire' : \E k \in wire :
        /\ k.call = m.call /\ k.nonce = m.nonce
        /\ m.attempt = IF m.call = c THEN "old" ELSE k.attempt
  BY <1>1, StaleIs
<1>3. TypeOK'
  BY <1>1, StaleIs DEF TypeOK, Quiet
<1>4. \A d \in Calls : Absent(d) => Absent(d)'
  BY <1>1, <1>2, QuietNode DEF Absent, Quiet
<1>5. Stages'
  BY <1>4, NoneIsNoNumber DEF Stages, TypeOK, Preparing
<1>6. Agreement'
  BY <1>1, <1>2 DEF Agreement, Quiet, TypeOK, Copies
<1>7. NoGap' /\ Held'
  BY <1>1, QuietNode DEF NoGap, Held, Quiet
<1>8. Truthful'
  BY <1>1, QuietNode, NoneIsNoNumber
     DEF Truthful, Takes, Outbids, Quiet, TypeOK, Stages, Preparing
<1>9. Single'
  BY <1>1, <1>2, QuietNode DEF Single, TypeOK, Copies, Stages, Preparing
<1>10. Later'
  BY NoneIsNoNumber DEF Later, TypeOK, Stages, Preparing
<1>11. OkStays'
  BY <1>1 DEF OkStays, Quiet
<1> QED
  BY <1>3, <1>5, <1>6, <1>7, <1>8, <1>9, <1>10, <1>11

LEMMA RetryStep ==
  ASSUME IInv, NEW c \in Calls, Retry(c)
  PROVE  IInv'
<1> USE DEF IInv, Retry, Resend
<1>1. Quiet /\ nonce' = nonce /\ MaxRetries # 0
  BY OptionsGiven DEF Quiet, TypeOK
<1>2. \A m \in wire' :
        \/ pc[c] = "send" /\ m = Copy(c, nonce[c], "current")
        \/ \E k \in wire :
             /\ k.call = m.call /\ k.nonce = m.nonce
             /\ m.attempt # k.attempt => m.attempt = "old"
  BY StaleIs
<1>3. TypeOK'
  <2>1. pc[c] = "send" => Copy(c, nonce[c], "current") \in Copies
    BY DEF Copy, Copies, TypeOK, Nonces, Stages
  <2>2. wire' \subseteq Copies
    BY <2>1, StaleIs DEF TypeOK
  <2>3. left' \in [Calls -> 0..MaxRetries]
    BY OptionsGiven DEF TypeOK
  <2>4. answer' \in [Calls -> {None, "ok", "refused"}]
    BY DEF TypeOK
  <2> QED
    BY <1>1, <2>2, <2>3, <2>4 DEF TypeOK, Quiet
<1>4. \A d \in Calls : Absent(d) /\ (d # c \/ pc[c] # "send") => Absent(d)'
  BY <1>1, <1>2, QuietNode DEF Absent, Quiet, Copy
<1>5. Stages'
  BY <1>1, <1>4, NoneIsNoNumber DEF Stages, TypeOK, Preparing
<1>6. Agreement'
  BY <1>1, <1>2 DEF Agreement, Quiet, TypeOK, Copies, Copy, Stages
<1>7. NoGap' /\ Held'
  BY <1>1, QuietNode DEF NoGap, Held, Quiet
<1>8. Truthful'
  BY <1>1, QuietNode, NoneIsNoNumber DEF Truthful, Takes, Outbids, Quiet, TypeOK
<1>9. Single' /\ Later' /\ OkStays'
  BY <1>1 DEF Single, Later, OkStays, Quiet
<1> QED
  BY <1>3, <1>5, <1>6, <1>7, <1>8, <1>9

-----------------------------------------------------------------------------
(* The steps of the node. *)

\* What taking a copy does to the node.
LEMMA ReceiveTakes ==
  ASSUME IInv, NEW m \in wire, Receive(m), Takes(m.call, m.nonce)
  PROVE  /\ m.call \in Calls /\ m.nonce \in Nat /\ nonce[m.call] = m.nonce
         /\ fee[m.call] \in Nat
         /\ \A d \in Calls : <<m.nonce, d>> \in pool => fee[d] \in Nat /\ fee[d] < fee[m.call]
         /\ \A e \in pool' : e = <<m.nonce, m.call>> \/ (e \in pool /\ e[1] # m.nonce)
         /\ <<m.nonce, m.call>> \in pool'
         /\ \A e \in pool : e[1] # m.nonce => e \in pool'
         /\ \A n : Occupied(n) => Occupied(n)'
         /\ displaced \subseteq displaced'
         /\ \A e \in displaced' : e \in displaced \/
              (e = <<e[1], m.call>> /\ e[1] \in Calls /\ <<m.nonce, e[1]>> \in pool)
         /\ Accepted' = Accepted \cup {m.call}
<1> DEFINE c == m.call  n == m.nonce
<1>1. c \in Calls /\ n \in Nat /\ nonce[c] = n /\ fee[c] # None
  BY DEF IInv, TypeOK, Copies, Agreement
<1>2. fee[c] \in Nat
  BY <1>1, OptionsGiven DEF IInv, TypeOK
<1>3. \A d \in Calls : <<n, d>> \in pool => fee[d] \in Nat /\ fee[d] < fee[c]
  <2> SUFFICES ASSUME NEW d \in Calls, <<n, d>> \in pool
               PROVE  fee[d] \in Nat /\ fee[d] < fee[c]
    OBVIOUS
  <2>1. fee[d] # None
    <3> DEFINE e == <<n, d>>
    <3>1. fee[e[2]] # None
      BY DEF IInv, Agreement
    <3> QED
      BY <3>1
  <2>2. fee[d] \in Nat
    BY <2>1, OptionsGiven DEF IInv, TypeOK
  <2>3. fee[c] > fee[d]
    BY DEF Takes, Outbids
  <2> QED
    BY <1>2, <2>2, <2>3
<1>4. /\ pool' = {e \in pool : e[1] # n} \cup {<<n, c>>} /\ chain' = chain
      /\ displaced' = displaced \cup {<<d, c>> : d \in {d \in Calls : <<n, d>> \in pool}}
  BY DEF Receive
<1>5. \A k : Occupied(k) => Occupied(k)'
  BY <1>1, <1>4 DEF Occupied
<1>7. /\ displaced \subseteq displaced'
      /\ \A d \in Calls : <<n, d>> \in pool => <<d, c>> \in displaced'
      /\ \A e \in displaced' : e \in displaced \/
           (e = <<e[1], c>> /\ e[1] \in Calls /\ <<n, e[1]>> \in pool)
  <2>1. \A e \in displaced' : e \in displaced \/
          \E d \in Calls : <<n, d>> \in pool /\ e = <<d, c>>
    BY <1>4
  <2>2. ASSUME NEW e \in displaced', e \notin displaced
        PROVE  e = <<e[1], c>> /\ e[1] \in Calls /\ <<n, e[1]>> \in pool
    <3>1. PICK d \in Calls : <<n, d>> \in pool /\ e = <<d, c>>
      BY <2>1, <2>2
    <3>2. e[1] = d
      BY <3>1
    <3> QED
      BY <3>1, <3>2
  <2>3. \A d \in Calls : <<n, d>> \in pool => <<d, c>> \in displaced'
    BY <1>4
  <2> QED
    BY <1>4, <2>2, <2>3
<1>8. <<n, c>> \in pool' /\ \A e \in pool : e[1] # n => e \in pool'
  BY <1>4
<1>9. \A e \in pool' : e = <<n, c>> \/ (e \in pool /\ e[1] # n)
  BY <1>4
<1>6. Accepted' = Accepted \cup {c}
  <2>1. ASSUME NEW d \in Accepted PROVE d \in Accepted'
    <3>1. CASE \E e \in pool : e[2] = d
      <4>1. PICK e \in pool : e[2] = d
        BY <3>1
      <4>2. e \in Nat \X Calls /\ e = <<e[1], d>>
        BY <4>1 DEF IInv, TypeOK
      <4>3. d \in Calls
        BY <2>1 DEF Accepted
      <4>4. CASE e[1] = n
        <5> DEFINE x == <<d, c>>
        <5>1. x \in displaced' /\ x[1] = d
          BY <1>7, <4>1, <4>2, <4>3, <4>4
        <5> QED
          BY <4>3, <5>1 DEF Accepted
      <4>5. CASE e[1] # n
        BY <1>8, <4>1, <4>3, <4>5 DEF Accepted
      <4> QED
        BY <4>4, <4>5
    <3>2. CASE Mined(d) \/ \E e \in displaced : e[1] = d
      BY <1>4, <1>7, <2>1, <3>2 DEF Accepted, Mined
    <3> QED
      BY <2>1, <3>1, <3>2 DEF Accepted
  <2>2. c \in Accepted'
    <3> DEFINE x == <<n, c>>
    <3>1. x \in pool' /\ x[2] = c
      BY <1>8
    <3> QED
      BY <1>1, <3>1 DEF Accepted
  <2>3. ASSUME NEW d \in Accepted', d # c PROVE d \in Accepted
    <3>1. d \in Calls
      BY <2>3 DEF Accepted
    <3>2. CASE \E e \in pool' : e[2] = d
      BY <1>9, <2>3, <3>1, <3>2 DEF Accepted
    <3>3. CASE Mined(d)'
      BY <1>4, <3>1, <3>3 DEF Accepted, Mined
    <3>4. CASE \E e \in displaced' : e[1] = d
      <4>1. PICK e \in displaced' : e[1] = d
        BY <3>4
      <4>2. CASE e \in displaced
        BY <3>1, <4>1, <4>2 DEF Accepted
      <4>3. CASE <<n, d>> \in pool
        <5> DEFINE x == <<n, d>>
        <5>1. x \in pool /\ x[2] = d
          BY <4>3
        <5> QED
          BY <3>1, <5>1 DEF Accepted
      <4> QED
        BY <1>7, <4>1, <4>2, <4>3
    <3> QED
      BY <2>3, <3>2, <3>3, <3>4 DEF Accepted
  <2> QED
    BY <2>1, <2>2, <2>3
<1> QED
  BY <1>1, <1>2, <1>3, <1>5, <1>6, <1>7, <1>8, <1>9

LEMMA ReceiveStep ==
  ASSUME IInv, NEW m \in wire, Receive(m)
  PROVE  IInv'
<1> DEFINE c == m.call  n == m.nonce
<1>1. c \in Calls /\ n \in Nat /\ nonce[c] = n /\ fee[c] # None
  BY DEF IInv, TypeOK, Copies, Agreement
<1>2. /\ UNCHANGED <<pc, left, contract, fee, nonce, outcome, reason, before, chain>>
      /\ wire' = wire \ {m}
  BY DEF Receive
<1>3. /\ answer' \in [Calls -> {None, "ok", "refused"}]
      /\ \A d \in Calls : answer'[d] # answer[d] =>
           /\ d = c /\ m.attempt = "current" /\ pc[c] = "send"
           /\ answer'[c] = IF Takes(c, n) THEN "ok" ELSE "refused"
  BY DEF Receive, IInv, TypeOK, Copies, Agreement
<1>4. CASE Takes(c, n)
  <2> USE <1>4
  <2>1. /\ fee[c] \in Nat
        /\ \A d \in Calls : <<n, d>> \in pool => fee[d] \in Nat /\ fee[d] < fee[c]
        /\ \A e \in pool' : e = <<n, c>> \/ (e \in pool /\ e[1] # n)
        /\ <<n, c>> \in pool'
        /\ \A e \in pool : e[1] # n => e \in pool'
        /\ \A k : Occupied(k) => Occupied(k)'
        /\ Accepted' = Accepted \cup {c}
        /\ \A e \in displaced' : e \in displaced \/
             (e = <<e[1], c>> /\ e[1] \in Calls /\ <<n, e[1]>> \in pool)
    BY ReceiveTakes
  <2> HIDE <1>4
  <2>2. \A e \in displaced' : e \in displaced \/
          (e[1] \in Calls /\ e[2] = c /\ nonce[e[1]] = n
             /\ \E f \in pool : f[1] = n /\ f[2] = e[1])
    <3> SUFFICES ASSUME NEW e \in displaced', e \notin displaced
                 PROVE  /\ e[1] \in Calls /\ e[2] = c /\ nonce[e[1]] = n
                        /\ \E f \in pool : f[1] = n /\ f[2] = e[1]
      OBVIOUS
    <3> DEFINE d == e[1]  f == <<n, d>>
    <3>1. e = <<d, c>> /\ d \in Calls /\ f \in pool
      BY <2>1
    <3>2. f[1] = n /\ f[2] = d /\ e[2] = c
      BY <3>1
    <3>3. nonce[d] = n
      BY <3>1, <3>2 DEF IInv, Agreement
    <3> HIDE DEF f
    <3> QED
      BY <3>1, <3>2, <3>3
  <2>3. TypeOK'
    <3>1. pool' \subseteq Nat \X Calls
      BY <1>1, <2>1 DEF IInv, TypeOK
    <3>2. ASSUME NEW e \in displaced' PROVE e \in Calls \X Calls
      <4>1. CASE e \in displaced
        BY <4>1 DEF IInv, TypeOK
      <4>2. CASE e = <<e[1], c>> /\ e[1] \in Calls
        <5> DEFINE d == e[1]
        <5>1. <<d, c>> \in Calls \X Calls
          BY <1>1, <4>2
        <5> QED
          BY <4>2, <5>1
      <4> QED
        BY <2>1, <4>1, <4>2
    <3> QED
      BY <1>2, <1>3, <3>1, <3>2 DEF IInv, TypeOK
  <2>4. \A d \in Calls : Absent(d) => d # c /\ Absent(d)'
    <3> SUFFICES ASSUME NEW d \in Calls, Absent(d) PROVE d # c /\ Absent(d)'
      OBVIOUS
    <3>1. d # c
      BY DEF Absent
    <3>2. \A e \in pool' : e[2] # d
      BY <2>1, <3>1 DEF Absent
    <3>3. \A e \in displaced' : e[1] # d /\ e[2] # d
      BY <2>2, <3>1 DEF Absent
    <3> QED
      BY <1>2, <3>1, <3>2, <3>3 DEF Absent, Mined
  <2>5. Stages'
    BY <1>2, <1>3, <2>4 DEF IInv, Stages
  <2>6. Agreement'
    <3>1. \A e \in pool' : e[1] = nonce[e[2]] /\ fee[e[2]] # None /\ e[1] >= Len(chain)
      BY <1>1, <1>4, <2>1 DEF IInv, Agreement, Takes
    <3>2. \A e, f \in pool' : e[1] = f[1] => e = f
      BY <2>1 DEF IInv, Agreement
    <3>3. \A e \in displaced' : nonce[e[1]] # None /\ nonce[e[1]] = nonce[e[2]]
      BY <1>1, <2>2, NoneIsNoNumber DEF IInv, Agreement
    <3> QED
      BY <1>2, <3>1, <3>2, <3>3 DEF IInv, Agreement
  <2>7. NoGap'
    BY <1>2, <2>1 DEF IInv, NoGap
  <2>8. Held'
    <3>1. Occupied(n)' /\ n # None
      BY <1>1, <2>1, NoneIsNoNumber DEF Occupied
    <3> QED
      BY <1>1, <1>2, <2>1, <3>1 DEF IInv, Held
  <2>9. ASSUME NEW d \in Calls, fee[d] # None, nonce[d] # None, ~Takes(d, nonce[d])
        PROVE  ~Takes(d, nonce[d])' /\ d # c
    <3>1. CASE nonce[d] >= Len(chain)
      <4>1. PICK x \in Calls : <<nonce[d], x>> \in pool /\ ~(fee[d] > fee[x])
        BY <2>9, <3>1 DEF Takes, Outbids
      <4>2. CASE nonce[d] = n
        <5>1. fee[d] \in Nat /\ fee[x] \in Nat /\ fee[x] < fee[c]
          BY <2>1, <2>9, <4>1, <4>2, OptionsGiven DEF IInv, TypeOK
        <5>2. ~(fee[d] > fee[c])
          BY <2>1, <4>1, <5>1
        <5> QED
          BY <1>1, <1>2, <1>4, <2>1, <2>9, <4>2, <5>2 DEF Takes, Outbids
      <4>3. CASE nonce[d] # n
        BY <1>1, <1>2, <2>1, <4>1, <4>3 DEF Takes, Outbids
      <4> QED
        BY <4>2, <4>3
    <3>2. CASE ~(nonce[d] >= Len(chain))
      BY <1>1, <1>2, <1>4, <3>2 DEF Takes
    <3> QED
      BY <3>1, <3>2
  <2>10. Truthful'
    <3> SUFFICES ASSUME NEW d \in Calls
                 PROVE  /\ "ok" \in {answer'[d], outcome'[d]} => d \in Accepted'
                        /\ "refused" \in {answer'[d], outcome'[d]} =>
                             nonce'[d] # None /\ fee'[d] # None /\ ~Takes(d, nonce[d])'
      BY <1>2 DEF Truthful
    <3>1. CASE answer'[d] = answer[d]
      BY <1>2, <2>1, <2>9, <3>1 DEF IInv, Truthful
    <3>2. CASE answer'[d] # answer[d]
      BY <1>2, <1>3, <1>4, <2>1, <2>9, <3>2 DEF IInv, Truthful
    <3> QED
      BY <3>1, <3>2
  <2>11. outcome[c] # "refused"
    BY <1>1, <1>4 DEF IInv, Truthful
  <2>12. Single'
    <3> SUFFICES ASSUME MaxRetries = 0, NEW d \in Calls
                 PROVE  /\ pc[d] = "send" =>
                             \A k \in wire' : k.call = d => k.attempt = "current"
                        /\ answer'[d] # None => \A k \in wire' : k.call # d
                        /\ pc[d] = "send" /\ answer'[d] # "ok" => d \notin Accepted'
                        /\ outcome[d] = "refused" => d \notin Accepted'
      BY <1>2 DEF Single
    <3>1. CASE d # c
      BY <1>2, <1>3, <2>1, <3>1 DEF IInv, Single
    <3>2. CASE d = c
      <4>1. pc[c] = "send" => m.attempt = "current" /\ answer'[c] = "ok"
        BY <1>1, <1>4 DEF IInv, Single, Receive, TypeOK
      <4>2. pc[c] = "send" => \A k \in wire' : k.call # c
        <5> SUFFICES ASSUME pc[c] = "send", NEW k \in wire', k.call = c PROVE FALSE
          OBVIOUS
        <5>1. k \in Copies /\ m \in Copies /\ k.nonce = m.nonce /\ k.attempt = m.attempt
          BY <1>1, <1>2 DEF IInv, Single, Agreement, TypeOK
        <5>2. k = m
          BY <5>1 DEF Copies
        <5> QED
          BY <1>2, <5>2
      <4>3. answer'[c] # None => pc[c] = "send"
        BY <1>1, <1>3 DEF IInv, Stages
      <4> QED
        BY <1>2, <2>11, <3>2, <4>1, <4>2, <4>3
    <3> QED
      BY <3>1, <3>2
  <2>13. Later'
    BY <1>2 DEF IInv, Later
  <2>14. OkStays'
    <3> SUFFICES ASSUME Selector = "pending", NEW e \in displaced', e \notin displaced,
                        e[1] \in before[c]
                 PROVE  FALSE
      BY <1>2, <2>2 DEF IInv, OkStays
    <3>1. nonce[e[1]] < nonce[c]
      BY <1>1, NoneIsNoNumber DEF IInv, Later
    <3> QED
      BY <1>1, <2>2, <3>1
  <2> QED
    BY <2>3, <2>5, <2>6, <2>7, <2>8, <2>10, <2>12, <2>13, <2>14 DEF IInv
<1>5. CASE ~Takes(c, n)
  <2>1. Quiet
    BY <1>5 DEF Receive, Quiet
  <2>2. TypeOK'
    BY <1>2, <1>3, <2>1 DEF IInv, TypeOK, Quiet
  <2>3. \A d \in Calls : Absent(d) => d # c /\ Absent(d)'
    BY <1>2, <2>1, QuietNode DEF Absent, Quiet
  <2>4. Stages'
    BY <1>2, <1>3, <2>3 DEF IInv, Stages
  <2>5. Agreement'
    BY <1>2, <2>1 DEF IInv, Agreement, Quiet
  <2>6. NoGap' /\ Held'
    BY <1>2, <2>1, QuietNode DEF IInv, NoGap, Held, Quiet
  <2>7. Truthful'
    <3>1. \A d \in Calls : \A k : Takes(d, k)' = Takes(d, k)
      BY <1>2, <2>1 DEF Takes, Outbids, Quiet
    <3> QED
      BY <1>1, <1>2, <1>3, <1>5, <2>1, <3>1, QuietNode, NoneIsNoNumber DEF IInv, Truthful
  <2>8. Single'
    <3> SUFFICES ASSUME MaxRetries = 0, NEW d \in Calls
                 PROVE  /\ pc[d] = "send" =>
                             \A k \in wire' : k.call = d => k.attempt = "current"
                        /\ answer'[d] # None => \A k \in wire' : k.call # d
                        /\ pc[d] = "send" /\ answer'[d] # "ok" => d \notin Accepted
                        /\ outcome[d] = "refused" => d \notin Accepted
      BY <1>2, <2>1, QuietNode DEF Single
    <3>1. CASE d # c
      BY <1>2, <1>3, <3>1 DEF IInv, Single
    <3>2. CASE d = c
      <4>1. answer[c] = None
        BY <1>1 DEF IInv, Single
      <4>2. pc[c] = "send" => m.attempt = "current" /\ c \notin Accepted
        BY <1>1, <4>1, NoneIsNoNumber DEF IInv, Single
      <4>3. pc[c] = "send" => \A k \in wire' : k.call # c
        <5> SUFFICES ASSUME pc[c] = "send", NEW k \in wire', k.call = c PROVE FALSE
          OBVIOUS
        <5>1. k \in Copies /\ m \in Copies /\ k.nonce = m.nonce /\ k.attempt = m.attempt
          BY <1>1, <1>2 DEF IInv, Single, Agreement, TypeOK
        <5>2. k = m
          BY <5>1 DEF Copies
        <5> QED
          BY <1>2, <5>2
      <4>4. answer'[c] # None => pc[c] = "send"
        BY <1>1, <1>3 DEF IInv, Stages
      <4> QED
        BY <1>1, <1>2, <3>2, <4>2, <4>3, <4>4 DEF IInv, Single
    <3> QED
      BY <3>1, <3>2
  <2>9. Later' /\ OkStays'
    BY <1>2, <2>1 DEF IInv, Later, OkStays, Quiet
  <2> QED
    BY <2>2, <2>4, <2>5, <2>6, <2>7, <2>8, <2>9 DEF IInv
<1> QED
  BY <1>4, <1>5

LEMMA MineStep ==
  ASSUME IInv, Mine
  PROVE  IInv' /\ Accepted' = Accepted
<1> DEFINE L == Len(chain)
<1>1. PICK c \in Calls : /\ <<L, c>> \in pool
                         /\ pool' = pool \ {<<L, c>>}
                         /\ chain' = Append(chain, c)
  BY DEF Mine
<1>2. UNCHANGED <<callVars, wire, displaced>>
  BY DEF Mine
<1>3. /\ L \in Nat /\ chain' \in Seq(Calls) /\ Len(chain') = L + 1
      /\ \A i \in 1..L : chain'[i] = chain[i]
      /\ chain'[L + 1] = c /\ DOMAIN chain = 1..L /\ DOMAIN chain' = 1..(L + 1)
  BY <1>1 DEF IInv, TypeOK
<1>a. L \in Nat
  BY <1>3
<1>4. nonce[c] = L /\ fee[c] # None
  <2> DEFINE e == <<L, c>>
  <2>1. e \in pool /\ e[1] = L /\ e[2] = c
    BY <1>1
  <2> HIDE DEF e
  <2> QED
    BY <2>1 DEF IInv, Agreement
<1>5. \A e \in pool : e \in pool' \/ (e[1] = L /\ e[2] = c)
  BY <1>1
<1>6. \A e \in pool' : e \in pool /\ e[1] > L
  <2> SUFFICES ASSUME NEW e \in pool' PROVE e[1] > L
    BY <1>1
  <2>1. e \in pool /\ e # <<L, c>> /\ <<L, c>>[1] = L
    BY <1>1
  <2>2. e[1] # L
    BY <1>1, <2>1 DEF IInv, Agreement
  <2>3. e[1] \in Nat /\ e[1] >= L
    BY <2>1 DEF IInv, Agreement, TypeOK
  <2> QED
    BY <1>3, <2>2, <2>3
<1>7. \A n \in Nat : n # L => (Occupied(n)' <=> Occupied(n))
  BY <1>1 DEF Occupied
<1>8. \A d : Mined(d)' <=> Mined(d) \/ d = c
  <2> SUFFICES ASSUME NEW d PROVE Mined(d)' <=> Mined(d) \/ d = c
    OBVIOUS
  <2>1. Mined(d) => Mined(d)'
    BY <1>3 DEF Mined
  <2>2. d = c => Mined(d)'
    BY <1>3 DEF Mined
  <2>3. Mined(d)' => Mined(d) \/ d = c
    BY <1>3 DEF Mined
  <2> QED
    BY <2>1, <2>2, <2>3
<1>9. Accepted' = Accepted
  <2>1. c \in Accepted /\ c \in Accepted'
    <3> DEFINE e == <<L, c>>
    <3>1. e \in pool /\ e[2] = c
      BY <1>1
    <3> HIDE DEF e
    <3> QED
      BY <1>8, <3>1 DEF Accepted
  <2>2. ASSUME NEW d \in Calls, d # c PROVE d \in Accepted' <=> d \in Accepted
    BY <1>2, <1>5, <1>6, <1>8, <2>2 DEF Accepted
  <2>3. Accepted \subseteq Calls /\ Accepted' \subseteq Calls
    BY DEF Accepted
  <2> QED
    BY <2>1, <2>2, <2>3
<1>10. TypeOK'
  BY <1>1, <1>2, <1>3 DEF IInv, TypeOK, callVars
<1>11. \A d \in Calls : Absent(d) => Absent(d)'
  <2> SUFFICES ASSUME NEW d \in Calls, Absent(d) PROVE Absent(d)'
    OBVIOUS
  <2>1. d # c
    <3> DEFINE e == <<L, c>>
    <3>1. e \in pool /\ e[2] = c
      BY <1>1
    <3> HIDE DEF e
    <3> QED
      BY <3>1 DEF Absent
  <2> QED
    BY <1>2, <1>6, <1>8, <2>1 DEF Absent
<1>12. Stages'
  BY <1>2, <1>11 DEF IInv, Stages, callVars
<1>13. Agreement'
  <2>1. \A e \in pool' : e[1] = nonce[e[2]] /\ fee[e[2]] # None /\ e[1] >= L + 1
    BY <1>3, <1>6 DEF IInv, Agreement, TypeOK
  <2>2. \A i \in DOMAIN chain' : nonce[chain'[i]] = i - 1
    BY <1>3, <1>4 DEF IInv, Agreement
  <2> QED
    BY <1>2, <1>3, <1>6, <2>1, <2>2 DEF IInv, Agreement, callVars
<1>14. NoGap'
  <2> SUFFICES ASSUME NEW d \in Calls, nonce[d] # None,
                      NEW m \in (L + 1)..nonce[d], m < nonce[d]
               PROVE  Occupied(m)'
    BY <1>2, <1>3 DEF NoGap, callVars
  <2>1. nonce[d] \in Nat
    BY DEF IInv, TypeOK, Nonces
  <2> HIDE DEF L
  <2>2. m \in Nat /\ m # L /\ m \in L..nonce[d]
    BY <1>a, <2>1
  <2> USE DEF L
  <2> QED
    BY <1>7, <2>2 DEF IInv, NoGap
<1>15. Held'
  <2> SUFFICES ASSUME NEW d \in Accepted
               PROVE  /\ nonce[d] # None
                      /\ nonce[d] < L + 1 \/ \E x \in Calls : <<nonce[d], x>> \in pool'
    BY <1>2, <1>3, <1>9 DEF Held, callVars, Occupied
  <2>1. nonce[d] \in Nat
    BY DEF IInv, Held, TypeOK, Nonces, Accepted
  <2>2. nonce[d] < L \/ Occupied(nonce[d])
    BY DEF IInv, Held
  <2>3. nonce[d] # None
    BY DEF IInv, Held
  <2> HIDE DEF L
  <2> QED
    BY <1>a, <1>7, <2>1, <2>2, <2>3 DEF Occupied
<1>16. ASSUME NEW d \in Calls, nonce[d] # None, ~Takes(d, nonce[d])
       PROVE  ~Takes(d, nonce[d])'
  <2>1. nonce[d] \in Nat
    BY <1>16 DEF IInv, TypeOK, Nonces
  <2>2. CASE nonce[d] <= L
    BY <1>2, <1>3, <2>1, <2>2 DEF Takes, callVars
  <2>3. CASE nonce[d] > L
    <3>0. nonce[d] >= L
      <4> HIDE DEF L
      <4> QED
        BY <1>a, <2>1, <2>3
    <3>1. PICK x \in Calls : <<nonce[d], x>> \in pool /\ ~(fee[d] > fee[x])
      BY <1>16, <3>0 DEF Takes, Outbids
    <3>2. <<nonce[d], x>> \in pool'
      BY <1>1, <1>3, <2>1, <2>3, <3>1
    <3> QED
      BY <1>2, <3>1, <3>2 DEF Takes, Outbids, callVars
  <2> QED
    BY <1>3, <2>1, <2>2, <2>3
<1>17. Truthful'
  BY <1>2, <1>9, <1>16 DEF IInv, Truthful, callVars
<1>18. Single' /\ Later' /\ OkStays'
  BY <1>2, <1>9 DEF IInv, Single, Later, OkStays, callVars
<1> QED
  BY <1>9, <1>10, <1>12, <1>13, <1>14, <1>15, <1>17, <1>18 DEF IInv

LEMMA StutterStep ==
  ASSUME IInv, UNCHANGED vars
  PROVE  IInv'
<1> USE DEF IInv, vars, callVars, nodeVars
<1>1. Quiet
  BY DEF Quiet
<1>2. TypeOK' /\ Agreement' /\ Later' /\ OkStays'
  BY DEF TypeOK, Agreement, Later, OkStays
<1>3. Stages'
  BY <1>1, QuietNode DEF Stages, Absent
<1>4. NoGap' /\ Held' /\ Single'
  BY <1>1, QuietNode DEF NoGap, Held, Single
<1>5. Truthful'
  BY <1>1, QuietNode DEF Truthful, Takes, Outbids
<1> QED
  BY <1>2, <1>3, <1>4, <1>5

-----------------------------------------------------------------------------
(* The theorems. *)

LEMMA WorkStep ==
  ASSUME IInv, NEW c \in Calls, Work(c) \/ PrepareFails(c) \/ Garbled(c)
  PROVE  IInv'
<1>1. CASE GasParameters(c)
  BY <1>1, GasParametersStep
<1>2. CASE GetNonce(c)
  BY <1>2, GetNonceStep
<1>3. CASE Try(c)
  BY <1>3, TryStep
<1>4. CASE TryReverts(c)
  BY <1>4, FinishStep DEF TryReverts, Preparing
<1>5. CASE Retry(c)
  BY <1>5, RetryStep
<1>6. CASE GiveUp(c)
  BY <1>6, FinishStep DEF GiveUp
<1>7. CASE Answered(c)
  <2>1. answer[c] \in {"ok", "refused"}
    BY <1>7 DEF Answered, IInv, TypeOK
  <2> QED
    BY <1>7, <2>1, FinishStep DEF Answered
<1>8. CASE PrepareFails(c)
  BY <1>8, FinishStep DEF PrepareFails
<1>9. CASE Garbled(c)
  BY <1>9, FinishStep DEF Garbled
<1> QED
  BY <1>1, <1>2, <1>3, <1>4, <1>5, <1>6, <1>7, <1>8, <1>9 DEF Work

LEMMA Inductive == IInv /\ [Next]_vars => IInv'
<1> SUFFICES ASSUME IInv, [Next]_vars PROVE IInv'
  OBVIOUS
<1>1. ASSUME NEW c \in Calls, Begin(c) PROVE IInv'
  BY <1>1, BeginStep
<1>2. ASSUME NEW c \in Calls, Work(c) \/ PrepareFails(c) \/ Garbled(c) PROVE IInv'
  BY <1>2, WorkStep
<1>3. ASSUME NEW m \in wire, Receive(m) PROVE IInv'
  BY <1>3, ReceiveStep
<1>4. CASE Mine
  BY <1>4, MineStep
<1>5. CASE UNCHANGED vars
  BY <1>5, StutterStep
<1> QED
  BY <1>1, <1>2, <1>3, <1>4, <1>5 DEF Next

LEMMA Invariance == Spec => []IInv
<1> QED
  BY InitIInv, Inductive, PTL DEF Spec

\* The values of the variables.
THEOREM TypeCorrect == Spec => []TypeOK
<1>1. IInv => TypeOK
  BY DEF IInv
<1> QED
  BY <1>1, Invariance, PTL

\* Whatever the transport repeats, a call puts at most one transaction on the
\* chain: every copy has the nonce the call read once.
THEOREM AtMostOnce == Spec => []OncePerCall
<1>1. IInv => OncePerCall
  <2> SUFFICES ASSUME IInv, NEW i \in DOMAIN chain, NEW j \in DOMAIN chain,
                      chain[i] = chain[j]
               PROVE  i = j
    BY DEF OncePerCall
  <2>1. i \in Nat /\ j \in Nat
    BY DEF IInv, TypeOK
  <2>2. nonce[chain[i]] = i - 1 /\ nonce[chain[j]] = j - 1
    BY DEF IInv, Agreement
  <2>3. i - 1 = j - 1
    BY <2>2
  <2> QED
    BY <2>1, <2>3
<1> QED
  BY <1>1, Invariance, PTL

\* No transaction waits for a nonce that nobody uses.
THEOREM Gapless == Spec => []NoGap
<1>1. IInv => NoGap
  BY DEF IInv
<1> QED
  BY <1>1, Invariance, PTL

\* With block_number: "pending" no later call takes the nonce of a
\* transaction that was answered :ok.
THEOREM OkIsKept == Spec => []OkStays
<1>1. IInv => OkStays
  BY DEF IInv
<1> QED
  BY <1>1, Invariance, PTL

\* A call that returns, in the terms of Broadcast.
LEMMA FinishAnswers ==
  ASSUME IInv, NEW c \in Calls, NEW o \in {"ok", "refused", "lost", "unsent"}, NEW why,
         Finish(c, o, why),
         \/ o = "unsent" /\ pc[c] \in Preparing
         \/ o = "lost" /\ pc[c] = "send"
         \/ o = answer[c] /\ pc[c] = "send"
  PROVE  Abs!Answer(c, o)
<1>1. Quiet
  BY DEF Finish, Quiet
<1>2. Accepted' = Accepted
  BY <1>1, QuietNode
<1>3. outcome[c] = None
  BY DEF IInv, Stages, Preparing
<1>4. o = "ok" => c \in Accepted
  BY DEF IInv, Truthful, Preparing
<1>5. o = "refused" => c \notin Accepted \/ MaxRetries > 0
  BY OptionsGiven, NoneIsNoNumber DEF IInv, Single
<1>6. o = "unsent" => c \notin Accepted
  BY NoneIsNoNumber DEF IInv, Stages, TypeOK, Preparing, Absent, Accepted
<1> QED
  BY <1>2, <1>3, <1>4, <1>5, <1>6 DEF Abs!Answer, Finish

LEMMA StepImplements ==
  ASSUME IInv, [Next]_vars
  PROVE  [Abs!Next]_(Abs!absVars)
<1> DEFINE Unseen == Accepted' = Accepted /\ outcome' = outcome
<1>1. ASSUME NEW c \in Calls,
             Begin(c) \/ GasParameters(c) \/ GetNonce(c) \/ Try(c) \/ Retry(c)
      PROVE  Unseen
  <2>1. Quiet /\ outcome' = outcome
    BY <1>1 DEF Begin, GasParameters, GetNonce, Try, Retry, Enter, Quiet
  <2> QED
    BY <2>1, QuietNode
<1>2. ASSUME NEW c \in Calls,
             \/ TryReverts(c) \/ GiveUp(c) \/ Answered(c) \/ PrepareFails(c) \/ Garbled(c)
      PROVE  Abs!Next
  <2>1. PICK o \in {"ok", "refused", "lost", "unsent"} : \E why :
          /\ Finish(c, o, why)
          /\ \/ o = "unsent" /\ pc[c] \in Preparing
             \/ o = "lost" /\ pc[c] = "send"
             \/ o = answer[c] /\ pc[c] = "send"
    <3>1. CASE TryReverts(c)
      BY <3>1 DEF TryReverts, Preparing
    <3>2. CASE GiveUp(c)
      BY <3>2 DEF GiveUp
    <3>3. CASE Answered(c)
      BY <3>3 DEF Answered, IInv, TypeOK
    <3>4. CASE PrepareFails(c) \/ Garbled(c)
      BY <3>4 DEF PrepareFails, Garbled
    <3> QED
      BY <1>2, <3>1, <3>2, <3>3, <3>4
  <2>2. Abs!Answer(c, o)
    BY <2>1, FinishAnswers
  <2> QED
    BY <2>2 DEF Abs!Next, Abs!Outcomes
<1>3. ASSUME NEW m \in wire, Receive(m)
      PROVE  Abs!Next \/ Unseen
  <2> DEFINE c == m.call
  <2>1. c \in Calls /\ m.nonce = nonce[c] /\ outcome' = outcome
    BY <1>3 DEF IInv, TypeOK, Copies, Agreement, Receive
  <2>2. CASE Takes(c, m.nonce)
    <3>1. Accepted' = Accepted \cup {c}
      BY <1>3, <2>2, ReceiveTakes
    <3>2. outcome[c] # "refused"
      BY <2>1, <2>2 DEF IInv, Truthful
    <3>3. outcome[c] # "unsent"
      BY <2>1 DEF IInv, Stages, Absent
    <3>4. outcome[c] = "ok" => c \in Accepted
      BY <2>1 DEF IInv, Truthful
    <3>5. CASE c \in Accepted
      BY <2>1, <3>1, <3>5
    <3>6. CASE c \notin Accepted
      <4>1. outcome[c] \in {None, "lost"}
        BY <2>1, <3>2, <3>3, <3>4, <3>6 DEF IInv, TypeOK
      <4> QED
        BY <2>1, <3>1, <3>6, <4>1 DEF Abs!Next, Abs!Accept
    <3> QED
      BY <3>5, <3>6
  <2>3. CASE ~Takes(c, m.nonce)
    <3>1. Quiet
      BY <1>3, <2>3 DEF Receive, Quiet
    <3> QED
      BY <2>1, <3>1, QuietNode
  <2> QED
    BY <2>2, <2>3
<1>4. ASSUME Mine PROVE Unseen
  BY <1>4, MineStep DEF Mine, callVars
<1>5. ASSUME UNCHANGED vars PROVE Unseen
  <2>1. Quiet /\ outcome' = outcome
    BY <1>5 DEF vars, callVars, nodeVars, Quiet
  <2> QED
    BY <2>1, QuietNode
<1> QED
  BY <1>1, <1>2, <1>3, <1>4, <1>5 DEF Next, Work, Abs!absVars

\* The answers of execute_trx/3 mean what Broadcast says, for every number of
\* calls and of retries.
THEOREM Implements == Spec => Concludes
<1>1. Init => Abs!Init
  BY DEF Init, Abs!Init, Accepted, Mined
<1>2. IInv /\ [Next]_vars => [Abs!Next]_(Abs!absVars)
  BY StepImplements
<1> QED
  BY <1>1, <1>2, Invariance, PTL DEF Spec, Concludes, Abs!Spec

=============================================================================
