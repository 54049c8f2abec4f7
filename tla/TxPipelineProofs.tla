-------------------------- MODULE TxPipelineProofs --------------------------
(***************************************************************************)
(* Any number of callers that share an account, with any number of         *)
(* Transaction objects: the account's nonces have no gap, no object is     *)
(* executed twice, and returned hashes are what they are meant to be.      *)
(***************************************************************************)
EXTENDS TxPipeline, FiniteSetTheorems, TLAPS

\* All that the node has accepted.
Sent == relayed \cup Known

Steps == {"idle", "nonce", "chain", "fee", "submit", "poll", "receipt"}

\* c's variable o holds a Transaction.
Holds(c, o) == c \in Callers /\ o \in Objects /\ tx[c][o] # NoObject

-----------------------------------------------------------------------------
\* The invariant, in five parts.

Typed ==
    /\ jobs \in 0 .. MaxJobs
    /\ tx \in [Callers -> [Objects -> TxRecords \cup {NoObject}]]
    /\ \A c, o : Holds(c, o) => tx[c][o].job <= jobs /\ tx[c][o].maxFee \in Fees \cup {0}
    /\ call \in [Callers -> [at : Steps, object : Objects \cup {NoObject},
                             fresh : {TRUE, FALSE}, waits : 0 .. MaxWaits]]
    /\ \A c \in Callers : call[c].at # "idle" => Holds(c, call[c].object)
    /\ \A c \in Callers : call[c].at = "submit" => tx[c][call[c].object].maxFee \in Fees
    /\ relayed \subseteq Networked /\ pool \subseteq Networked
    /\ mined \in Seq(Networked)
    /\ \A r \in returned : r.tx \in Networked

\* An object is a job of its own, and the node accepts at most one transaction of
\* a job: an unsigned object has none there.
JobsApart ==
    /\ \A c, o, d, p : Holds(c, o) /\ Holds(d, p) /\ tx[c][o].job = tx[d][p].job
                       => c = d /\ o = p
    /\ \A t, u \in Sent : t.job = u.job => t = u
    /\ \A t \in Sent : t.job <= jobs
    /\ \A c, o : Holds(c, o) /\ tx[c][o].sig = "empty" =>
          \A t \in Sent : t.job # tx[c][o].job

\* Blocks take the nonces one after the other.
MinedInOrder == \A i \in DOMAIN mined : mined[i].nonce = i - 1

\* The nonces that are taken are those below k, and nobody is beyond k.
Reached(k) ==
    /\ \A n \in Nat : Taken(n) <=> n < k
    /\ \A t \in relayed : t.nonce <= k
    /\ \A c, o : Holds(c, o) => tx[c][o].nonce <= k

\* While a call goes on with a nonce it fetched, no hash its caller has been
\* given before has that nonce.
FetchedIsNew ==
    \A c \in Callers :
        call[c].fresh /\ call[c].at \in {"nonce", "chain", "fee", "submit", "poll"} =>
            \A r \in returned : r.caller = c => r.tx.nonce # tx[c][call[c].object].nonce

IInv ==
    /\ Typed /\ JobsApart /\ MinedInOrder
    /\ \E k \in Nat : Reached(k)
    /\ FetchedIsNew /\ ReturnedIsKnown /\ OwnNoncesDiffer

-----------------------------------------------------------------------------
\* The nonce the node counts.

\* What has been accepted is typed.
LEMMA SentTyped ==
    ASSUME Typed
    PROVE  /\ Sent \subseteq Networked /\ Known \subseteq Networked
           /\ \A t \in Networked : t.job \in 1 .. MaxJobs /\ t.nonce \in Nat /\ t.fee \in Fees
           /\ Len(mined) \in Nat /\ DOMAIN mined = 1 .. Len(mined)
<1>1. /\ relayed \subseteq Networked /\ pool \subseteq Networked /\ mined \in Seq(Networked)
      /\ Len(mined) \in Nat /\ DOMAIN mined = 1 .. Len(mined)
  BY DEF Typed
<1>2. \A i \in DOMAIN mined : mined[i] \in Networked
  BY <1>1
<1>3. Known \subseteq Networked
  BY <1>1, <1>2 DEF Known, Mined
<1>4. QED BY <1>1, <1>3 DEF Sent, Networked

\* A transaction has a job of its own, so that no more nonces are taken than
\* there are jobs.
LEMMA NoncesBounded ==
    ASSUME Typed, JobsApart, NEW k \in Nat, Reached(k)
    PROVE  k <= MaxJobs
<1>1. SUFFICES ASSUME k > MaxJobs
               PROVE  FALSE
  BY PipelineAssumption
<1> DEFINE N == 0 .. MaxJobs
           J == 1 .. MaxJobs
           with(n) == CHOOSE t \in Known : t.nonce = n
           f == [n \in N |-> with(n).job]
<1>2. MaxJobs \in Nat
  BY PipelineAssumption
<1>3. \A n \in N : Taken(n)
  BY <1>1, <1>2 DEF Reached
<1>4. ASSUME NEW n \in N
      PROVE  with(n) \in Known /\ with(n).nonce = n
  BY <1>3 DEF Taken
<1>5. f \in [N -> J]
  BY <1>4, SentTyped
<1>6. IsFiniteSet(N) /\ IsFiniteSet(J) /\ Cardinality(N) = MaxJobs + 1 /\ Cardinality(J) = MaxJobs
  BY <1>2, FS_Interval
<1>7. PICK m, n \in N : m # n /\ f[m] = f[n]
  <2> HIDE DEF N, J, f
  <2>1. Cardinality(J) < Cardinality(N)
    BY <1>2, <1>6
  <2>2. QED BY <1>5, <1>6, <2>1, FS_PigeonHole
<1>8. with(m).job = with(n).job
  BY <1>7
<1>9. with(m) = with(n)
  BY <1>4, <1>8 DEF JobsApart, Sent
<1>10. QED BY <1>4, <1>7, <1>9

\* The count the node answers is the number of nonces that are taken.
LEMMA CountIsReached ==
    ASSUME Typed, JobsApart, NEW k \in Nat, Reached(k)
    PROVE  PendingCount = k
<1>1. k \in 0 .. MaxJobs + 1
  BY NoncesBounded, PipelineAssumption
<1>2. ~Taken(k) /\ \A m \in 0 .. k - 1 : Taken(m)
  BY DEF Reached
<1>3. ASSUME NEW n \in 0 .. MaxJobs + 1, ~Taken(n), \A m \in 0 .. n - 1 : Taken(m)
      PROVE  n = k
  <2>1. n \in Nat /\ ~(n < k)
    BY <1>3, PipelineAssumption DEF Reached
  <2>2. ~(k < n)
    BY <1>2, <1>3, <2>1
  <2>3. QED BY <2>1, <2>2
<1>4. QED BY <1>1, <1>2, <1>3 DEF PendingCount

-----------------------------------------------------------------------------
\* Steps that change one object of a call, or none.

\* Other objects stay.
LEMMA OneObjectChanges ==
    ASSUME Typed, NEW c \in Callers, NEW o \in Objects, NEW t \in TxRecords,
           tx' = [tx EXCEPT ![c][o] = t]
    PROVE  /\ tx' \in [Callers -> [Objects -> TxRecords \cup {NoObject}]]
           /\ tx'[c][o] = t
           /\ \A d \in Callers, p \in Objects : d # c \/ p # o => tx'[d][p] = tx[d][p]
<1>1. tx \in [Callers -> [Objects -> TxRecords \cup {NoObject}]]
      /\ tx[c] \in [Objects -> TxRecords \cup {NoObject}]
  BY DEF Typed
<1>2. tx' = [tx EXCEPT ![c] = [tx[c] EXCEPT ![o] = t]]
  BY <1>1
<1>3. [tx[c] EXCEPT ![o] = t] \in [Objects -> TxRecords \cup {NoObject}]
  BY <1>1
<1>4. tx'[c] = [tx[c] EXCEPT ![o] = t] /\ \A d \in Callers : d # c => tx'[d] = tx[d]
  BY <1>1, <1>2
<1>5. QED BY <1>1, <1>2, <1>3, <1>4

\* A call works on an object.
LEMMA CallTyped ==
    ASSUME Typed, NEW c \in Callers, call[c].at # "idle"
    PROVE  /\ call[c].object \in Objects /\ Holds(c, call[c].object)
           /\ Current(c) \in TxRecords /\ Current(c).job <= jobs
           /\ Current(c).maxFee \in Fees \cup {0}
<1>1. Holds(c, call[c].object) /\ call[c].object \in Objects
  BY DEF Typed, Holds
<1>2. tx[c][call[c].object] \in TxRecords
  BY <1>1 DEF Typed, Holds
<1>3. QED BY <1>1, <1>2 DEF Typed, Current

\* An object that keeps its job and is not signed anew leaves the jobs apart.
LEMMA JobsAfterChange ==
    ASSUME Typed, JobsApart, NEW c \in Callers, NEW o \in Objects, Holds(c, o),
           NEW t \in TxRecords, tx' = [tx EXCEPT ![c][o] = t],
           t.job = tx[c][o].job, t.sig = "empty" => tx[c][o].sig = "empty",
           UNCHANGED <<jobs, relayed, pool, mined>>
    PROVE  JobsApart'
<1>1. Sent' = Sent
  BY DEF Sent, Known, Mined
<1>2. ASSUME NEW d, NEW p, Holds(d, p)'
      PROVE  /\ Holds(d, p) /\ tx'[d][p].job = tx[d][p].job
             /\ tx'[d][p].sig = "empty" => tx[d][p].sig = "empty"
  BY <1>2, OneObjectChanges DEF Holds
<1>3. QED BY <1>1, <1>2 DEF JobsApart

\* And one whose nonce is not beyond what is taken leaves that as it is.
LEMMA ReachedAfterChange ==
    ASSUME Typed, NEW k \in Nat, Reached(k), NEW c \in Callers, NEW o \in Objects,
           NEW t \in TxRecords, tx' = [tx EXCEPT ![c][o] = t], t.nonce <= k,
           UNCHANGED <<relayed, pool, mined>>
    PROVE  Reached(k)'
<1>1. \A n \in Nat : Taken(n)' <=> Taken(n)
  BY DEF Taken, Known, Mined
<1>2. ASSUME NEW d, NEW p, Holds(d, p)'
      PROVE  tx'[d][p].nonce <= k
  <2>1. CASE d = c /\ p = o
    BY <2>1, OneObjectChanges
  <2>2. CASE d # c \/ p # o
    BY <1>2, <2>2, OneObjectChanges DEF Holds, Reached
  <2>3. QED BY <2>1, <2>2
<1>3. QED BY <1>1, <1>2 DEF Reached

\* What depends on the node and the returned hashes alone.
LEMMA NodeUnchanged ==
    ASSUME IInv, UNCHANGED <<relayed, pool, mined, returned>>
    PROVE  MinedInOrder' /\ ReturnedIsKnown' /\ OwnNoncesDiffer'
  BY DEF IInv, MinedInOrder, ReturnedIsKnown, OwnNoncesDiffer, Taken, Known, Mined

Calls == [at : Steps, object : Objects \cup {NoObject},
          fresh : {TRUE, FALSE}, waits : 0 .. MaxWaits]
Fetched == {"nonce", "chain", "fee", "submit", "poll"}

\* Other calls stay.
LEMMA OneCallChanges ==
    ASSUME Typed, NEW c \in Callers, NEW x \in Calls, call' = [call EXCEPT ![c] = x]
    PROVE  /\ call' \in [Callers -> Calls] /\ call'[c] = x
           /\ \A d \in Callers : d # c => call'[d] = call[d]
<1>1. call \in [Callers -> Calls]
  BY DEF Typed, Calls
<1>2. QED BY <1>1

\* A call that is over, and one that has come to another request.
LEMMA NextCall ==
    ASSUME Typed, NEW c \in Callers
    PROVE  /\ call[c] \in Calls /\ Idle \in Calls /\ Idle.at = "idle"
           /\ \A step \in Steps :
                 /\ [call[c] EXCEPT !.at = step] \in Calls
                 /\ [call[c] EXCEPT !.at = step].at = step
                 /\ [call[c] EXCEPT !.at = step].object = call[c].object
                 /\ [call[c] EXCEPT !.at = step].fresh = call[c].fresh
<1>1. call[c] \in Calls
  BY DEF Typed, Calls
<1>2. Idle \in Calls /\ Idle.at = "idle"
  BY PipelineAssumption DEF Idle, Calls, Steps
<1>3. QED BY <1>1, <1>2 DEF Calls

\* A step that changes how far one call has come and nothing else.
LEMMA CallOnlyIInv ==
    ASSUME IInv, NEW c \in Callers, NEW x \in Calls, call' = [call EXCEPT ![c] = x],
           UNCHANGED <<tx, jobs, relayed, pool, mined, returned>>,
           x.at # "idle" => Holds(c, x.object),
           x.at # "submit",
           x.fresh /\ x.at \in Fetched =>
              x.object = call[c].object /\ call[c].fresh /\ call[c].at \in Fetched
    PROVE  IInv'
<1>1. Typed /\ JobsApart /\ FetchedIsNew /\ \E k \in Nat : Reached(k)
  BY DEF IInv
<1>2. /\ call' \in [Callers -> Calls] /\ call'[c] = x
      /\ \A d \in Callers : d # c => call'[d] = call[d]
  BY <1>1, OneCallChanges
<1>3. \A d, o : Holds(d, o)' <=> Holds(d, o)
  BY DEF Holds
<1>4. Typed'
  <2>1. \A d \in Callers : call'[d].at # "idle" => Holds(d, call'[d].object)
    BY <1>1, <1>2 DEF Typed
  <2>2. \A d \in Callers : call'[d].at = "submit" => tx[d][call'[d].object].maxFee \in Fees
    BY <1>1, <1>2 DEF Typed
  <2>3. QED BY <1>1, <1>2, <1>3, <2>1, <2>2 DEF Typed, Calls
<1>5. JobsApart'
  BY <1>1, <1>3 DEF JobsApart, Sent, Known, Mined
<1>6. \E k \in Nat : Reached(k)'
  <2>1. PICK k \in Nat : Reached(k)
    BY <1>1
  <2>2. Reached(k)'
    BY <1>3, <2>1 DEF Reached, Taken, Known, Mined
  <2>3. QED BY <2>2
<1>7. FetchedIsNew'
  BY <1>1, <1>2 DEF FetchedIsNew, Fetched
<1>8. QED BY <1>4, <1>5, <1>6, <1>7, NodeUnchanged DEF IInv

\* A step of populateTransaction or of the signing: it changes the object of the
\* call, which keeps its job, and how far the call has come.
LEMMA ObjectStepIInv ==
    ASSUME IInv, NEW c \in Callers, call[c].at # "idle",
           NEW t \in TxRecords, SetCurrent(c, t),
           t.job = Current(c).job, t.sig = "empty" => Current(c).sig = "empty",
           t.maxFee \in Fees \cup {0},
           t.nonce = Current(c).nonce \/ t.nonce = PendingCount,
           NEW x \in Calls, call' = [call EXCEPT ![c] = x],
           x.at # "idle" => x.object = call[c].object,
           x.at = "submit" => t.maxFee \in Fees,
           x.fresh /\ x.at \in Fetched =>
              \/ t.nonce = PendingCount
              \/ t.nonce = Current(c).nonce /\ call[c].fresh /\ call[c].at \in Fetched,
           UNCHANGED <<jobs, relayed, pool, mined, returned>>
    PROVE  IInv'
<1> DEFINE o == call[c].object
<1>1. Typed /\ JobsApart /\ FetchedIsNew /\ ReturnedIsKnown
  BY DEF IInv
<1>2. /\ call' \in [Callers -> Calls] /\ call'[c] = x
      /\ \A d \in Callers : d # c => call'[d] = call[d]
  BY <1>1, OneCallChanges
<1>3. o \in Objects /\ Holds(c, o) /\ Current(c) = tx[c][o] /\ Current(c) \in TxRecords
      /\ Current(c).job <= jobs
  BY <1>1, CallTyped DEF Current
<1>4. tx' = [tx EXCEPT ![c][o] = t]
  BY DEF SetCurrent
<1> HIDE DEF o
<1>5. /\ tx' \in [Callers -> [Objects -> TxRecords \cup {NoObject}]]
      /\ tx'[c][o] = t
      /\ \A d \in Callers, p \in Objects : d # c \/ p # o => tx'[d][p] = tx[d][p]
  BY <1>1, <1>3, <1>4, OneObjectChanges
<1>6. t # NoObject
  BY PipelineAssumption
<1>7. \A d, p : Holds(d, p)' <=> Holds(d, p)
  BY <1>3, <1>5, <1>6 DEF Holds
<1>8. Typed'
  <2>1. \A d, p : Holds(d, p) => tx'[d][p].job <= jobs /\ tx'[d][p].maxFee \in Fees \cup {0}
    BY <1>1, <1>3, <1>5 DEF Typed, Holds
  <2>2. \A d \in Callers : call'[d].at # "idle" => Holds(d, call'[d].object)
    BY <1>1, <1>2, <1>3 DEF Typed, o
  <2>3. ASSUME NEW d \in Callers, call'[d].at = "submit"
        PROVE  tx'[d][call'[d].object].maxFee \in Fees
    <3>1. CASE d = c
      BY <1>2, <1>5, <2>3, <3>1 DEF o
    <3>2. CASE d # c
      <4>1. call'[d] = call[d] /\ Holds(d, call[d].object)
        BY <1>1, <1>2, <2>3, <3>2 DEF Typed
      <4>2. tx'[d][call[d].object] = tx[d][call[d].object]
        BY <1>5, <3>2, <4>1 DEF Holds
      <4>3. QED BY <1>1, <2>3, <4>1, <4>2 DEF Typed
    <3>3. QED BY <3>1, <3>2
  <2>4. QED BY <1>1, <1>2, <1>5, <1>7, <2>1, <2>2, <2>3 DEF Typed, Calls
<1>9. JobsApart'
  BY <1>1, <1>3, <1>4, JobsAfterChange
<1>10. PICK k \in Nat : Reached(k)
  BY DEF IInv
<1>11. PendingCount = k
  BY <1>1, <1>10, CountIsReached
<1>12. Reached(k)'
  <2>1. Current(c).nonce <= k
    BY <1>3, <1>10 DEF Reached
  <2>2. t.nonce <= k
    BY <1>10, <1>11, <2>1
  <2>3. QED BY <1>1, <1>3, <1>4, <1>10, <2>2, ReachedAfterChange
<1>13. FetchedIsNew'
  <2>1. SUFFICES ASSUME NEW d \in Callers, call'[d].fresh, call'[d].at \in Fetched,
                        NEW r \in returned, r.caller = d
                 PROVE  r.tx.nonce # tx'[d][call'[d].object].nonce
    BY DEF FetchedIsNew, Fetched
  <2>2. CASE d = c
    <3>1. x.fresh /\ x.at \in Fetched /\ x.at # "idle"
      BY <1>2, <2>1, <2>2 DEF Fetched
    <3>2. tx'[d][call'[d].object] = t
      BY <1>2, <1>5, <2>2, <3>1 DEF o
    <3>3. CASE t.nonce = PendingCount
      <4>1. r.tx.nonce \in Nat /\ Taken(r.tx.nonce)
        BY <1>1, <2>1, SentTyped DEF Typed, ReturnedIsKnown
      <4>2. r.tx.nonce < k
        BY <1>10, <4>1 DEF Reached
      <4>3. QED BY <1>10, <1>11, <3>2, <3>3, <4>1, <4>2
    <3>4. CASE t.nonce = Current(c).nonce /\ call[c].fresh /\ call[c].at \in Fetched
      BY <1>1, <1>3, <2>1, <2>2, <3>2, <3>4 DEF FetchedIsNew, Fetched, o
    <3>5. QED BY <3>1, <3>3, <3>4
  <2>3. CASE d # c
    <3>1. call'[d] = call[d] /\ Holds(d, call[d].object)
      BY <1>1, <1>2, <2>1, <2>3 DEF Typed, Fetched
    <3>2. tx'[d][call[d].object] = tx[d][call[d].object]
      BY <1>5, <2>3, <3>1 DEF Holds
    <3>3. QED BY <1>1, <2>1, <3>1, <3>2 DEF FetchedIsNew, Fetched
  <2>4. QED BY <2>2, <2>3
<1>14. QED BY <1>8, <1>9, <1>12, <1>13, NodeUnchanged DEF IInv

-----------------------------------------------------------------------------
\* The actions.

\* What the two ways of going on with a call do.
LEMMA ProceedOrThrow ==
    ASSUME Typed, NEW c \in Callers
    PROVE  /\ \A step \in Steps :
                 Proceed(c, step) => call' = [call EXCEPT ![c] = [call[c] EXCEPT !.at = step]]
           /\ Throw(c) => call' = [call EXCEPT ![c] = Idle]
<1>1. call \in [Callers -> Calls]
  BY DEF Typed, Calls
<1>2. QED BY <1>1 DEF Proceed, Throw

\* A call that ends and changes nothing else.
LEMMA ThrowIInv ==
    ASSUME IInv, NEW c \in Callers, Throw(c), UNCHANGED <<objectVars, nodeVars, returned>>
    PROVE  IInv'
<1>1. Typed
  BY DEF IInv
<1>2. Idle \in Calls /\ Idle.at = "idle" /\ call' = [call EXCEPT ![c] = Idle]
  BY <1>1, NextCall DEF Throw
<1>3. UNCHANGED <<tx, jobs, relayed, pool, mined, returned>>
  BY DEF objectVars, nodeVars
<1> HIDE DEF IInv
<1>4. Idle.at \notin Fetched /\ Idle.at # "submit"
  BY <1>2 DEF Fetched
<1>5. QED BY <1>2, <1>3, <1>4, CallOnlyIInv

\* A new object is a new job.
LEMMA CreateIInv ==
    ASSUME IInv, NEW c \in Callers, Create(c)
    PROVE  IInv'
<1>1. Typed /\ JobsApart /\ FetchedIsNew
  BY DEF IInv
<1>2. PICK o \in Objects, chainId \in ChainIds :
         tx' = [tx EXCEPT ![c][o] = NewTx(jobs + 1, chainId)]
  BY DEF Create
<1> DEFINE t == NewTx(jobs + 1, chainId)
<1>3. /\ call[c].at = "idle" /\ jobs < MaxJobs /\ jobs' = jobs + 1
      /\ UNCHANGED <<call, relayed, pool, mined, returned>>
  BY DEF Create, At, nodeVars
<1>4. /\ t \in TxRecords /\ t.job = jobs + 1 /\ t.nonce = 0 /\ t.maxFee = 0
      /\ jobs \in Nat /\ jobs + 1 \in 0 .. MaxJobs
  <2>1. jobs \in Nat /\ jobs + 1 \in 1 .. MaxJobs /\ chainId \in Nat
    BY <1>1, <1>3, PipelineAssumption DEF Typed
  <2>2. t = [job |-> jobs + 1, nonce |-> 0, chainId |-> chainId, maxFee |-> 0, sig |-> "empty"]
    BY DEF NewTx
  <2>3. QED BY <2>1, <2>2 DEF TxRecords
<1>0. tx' = [tx EXCEPT ![c][o] = t]
  BY <1>2
<1> HIDE DEF t
<1>5. /\ tx' \in [Callers -> [Objects -> TxRecords \cup {NoObject}]]
      /\ tx'[c][o] = t
      /\ \A d \in Callers, p \in Objects : d # c \/ p # o => tx'[d][p] = tx[d][p]
  BY <1>0, <1>1, <1>4, OneObjectChanges
<1>6. ASSUME NEW d, NEW p, Holds(d, p)'
      PROVE  \/ d = c /\ p = o /\ tx'[d][p] = t
             \/ (d # c \/ p # o) /\ Holds(d, p) /\ tx'[d][p] = tx[d][p]
  BY <1>5, <1>6 DEF Holds
<1>7. ASSUME NEW d \in Callers, call[d].at # "idle"
      PROVE  /\ Holds(d, call[d].object) /\ Holds(d, call[d].object)'
             /\ tx'[d][call[d].object] = tx[d][call[d].object]
  <2>1. d # c /\ Holds(d, call[d].object)
    BY <1>1, <1>3, <1>7 DEF Typed
  <2>2. QED BY <1>3, <1>5, <2>1 DEF Holds
<1>8. Typed'
  <2>1. \A d, p : Holds(d, p)' => tx'[d][p].job <= jobs' /\ tx'[d][p].maxFee \in Fees \cup {0}
    <3>1. SUFFICES ASSUME NEW d, NEW p, Holds(d, p)'
                   PROVE  tx'[d][p].job <= jobs' /\ tx'[d][p].maxFee \in Fees \cup {0}
      OBVIOUS
    <3>2. CASE tx'[d][p] = t
      BY <1>3, <1>4, <3>2
    <3>3. CASE Holds(d, p) /\ tx'[d][p] = tx[d][p]
      <4>1. tx[d][p] \in TxRecords
        BY <1>1, <3>3 DEF Typed, Holds
      <4>2. tx[d][p].job \in Nat
        BY <4>1 DEF TxRecords
      <4>3. QED BY <1>1, <1>3, <1>4, <3>3, <4>2 DEF Typed
    <3>4. QED BY <1>6, <3>1, <3>2, <3>3
  <2>2. \A d \in Callers : call[d].at # "idle" => Holds(d, call[d].object)'
    BY <1>7
  <2>3. \A d \in Callers : call[d].at = "submit" => tx'[d][call[d].object].maxFee \in Fees
    BY <1>1, <1>7 DEF Typed
  <2>4. QED BY <1>1, <1>3, <1>4, <1>5, <2>1, <2>2, <2>3 DEF Typed
<1>9. JobsApart'
  <2>1. Sent' = Sent
    BY <1>3 DEF Sent, Known, Mined
  <2>2. ASSUME NEW d, NEW p, Holds(d, p)
        PROVE  tx[d][p].job \in Nat /\ tx[d][p].job <= jobs
    <3>1. tx[d][p] \in TxRecords
      BY <1>1, <2>2 DEF Typed, Holds
    <3>2. QED BY <1>1, <2>2, <3>1 DEF Typed, TxRecords
  <2>3. \A u \in Sent : u.job \in Nat /\ u.job <= jobs
    BY <1>1, SentTyped DEF JobsApart
  <2>4. \A d, p : Holds(d, p) => tx[d][p].job # t.job
    BY <1>4, <2>2
  <2>5. \A u \in Sent : u.job # t.job /\ u.job <= jobs'
    BY <1>3, <1>4, <2>3
  <2>6. \A d, p, e, q : Holds(d, p)' /\ Holds(e, q)' /\ tx'[d][p].job = tx'[e][q].job
                          => d = e /\ p = q
    BY <1>1, <1>6, <2>4 DEF JobsApart
  <2>7. \A d, p : Holds(d, p)' /\ tx'[d][p].sig = "empty" =>
           \A u \in Sent : u.job # tx'[d][p].job
    BY <1>1, <1>6, <2>5 DEF JobsApart
  <2>8. QED BY <1>1, <2>1, <2>5, <2>6, <2>7 DEF JobsApart
<1>10. PICK k \in Nat : Reached(k)
  BY DEF IInv
<1>11. Reached(k)'
  <2>1. t.nonce <= k
    BY <1>4
  <2>2. QED BY <1>0, <1>1, <1>3, <1>4, <1>10, <2>1, ReachedAfterChange
<1>12. FetchedIsNew'
  BY <1>1, <1>3, <1>7 DEF FetchedIsNew
<1>13. QED BY <1>3, <1>8, <1>9, <1>11, <1>12, NodeUnchanged DEF IInv

\* A call begins.
LEMMA BeginIInv ==
    ASSUME IInv, NEW c \in Callers, Begin(c)
    PROVE  IInv'
<1>1. Typed
  BY DEF IInv
<1>2. PICK o \in Objects :
         /\ tx[c][o] # NoObject
         /\ call' = [call EXCEPT ![c] = [Idle EXCEPT !.at = "nonce", !.object = o]]
  BY DEF Begin
<1> DEFINE x == [Idle EXCEPT !.at = "nonce", !.object = o]
<1>3. Idle \in Calls /\ ~Idle.fresh
  BY <1>1, NextCall DEF Idle
<1>4. x \in Calls /\ x.at = "nonce" /\ x.object = o /\ x.fresh = Idle.fresh
  <2> DEFINE y == [Idle EXCEPT !.at = "nonce"]
  <2>1. y \in Calls /\ y.at = "nonce" /\ y.fresh = Idle.fresh
    BY <1>3 DEF Calls, Steps
  <2>2. x = [y EXCEPT !.object = o]
    BY <1>3 DEF Calls
  <2> HIDE DEF x, y
  <2>3. QED BY <2>1, <2>2 DEF Calls
<1> HIDE DEF x
<1>5. Holds(c, o) /\ ~x.fresh /\ UNCHANGED <<tx, jobs, relayed, pool, mined, returned>>
  BY <1>2, <1>3, <1>4 DEF Holds, Begin, objectVars, nodeVars
<1> HIDE DEF IInv
<1>6. call' = [call EXCEPT ![c] = x]
  BY <1>2 DEF x
<1>7. QED BY <1>4, <1>5, <1>6, CallOnlyIInv

\* The nonce is fetched, or kept.
LEMMA FetchNonceIInv ==
    ASSUME IInv, NEW c \in Callers, FetchNonce(c)
    PROVE  IInv'
<1>1. Typed /\ JobsApart
  BY DEF IInv
<1>2. call[c].at = "nonce" /\ UNCHANGED <<jobs, relayed, pool, mined, returned>>
  BY DEF FetchNonce, At, nodeVars
<1>3. call \in [Callers -> Calls] /\ call[c] \in Calls
  BY <1>1 DEF Typed, Calls
<1>4. /\ Holds(c, call[c].object) /\ Current(c) \in TxRecords
      /\ Current(c).maxFee \in Fees \cup {0}
  BY <1>1, <1>2, CallTyped
<1>5. CASE Current(c).nonce = 0
  <2> DEFINE t == [Current(c) EXCEPT !.nonce = PendingCount]
             x == [call[c] EXCEPT !.at = "chain", !.fresh = TRUE]
  <2>1. PendingCount \in Nat
    <3>1. PICK k \in Nat : Reached(k)
      BY DEF IInv
    <3>2. QED BY <1>1, <3>1, CountIsReached
  <2>2. /\ t \in TxRecords /\ t.nonce = PendingCount /\ t.job = Current(c).job
        /\ t.sig = Current(c).sig /\ t.maxFee = Current(c).maxFee
    BY <1>4, <2>1 DEF TxRecords
  <2>3. x \in Calls /\ x.at = "chain" /\ x.object = call[c].object
    BY <1>3 DEF Calls, Steps
  <2>4. SetCurrent(c, t) /\ call' = [call EXCEPT ![c] = x]
    BY <1>3, <1>5 DEF FetchNonce
  <2> HIDE DEF t, x, IInv
  <2>5. QED BY <1>2, <1>4, <2>2, <2>3, <2>4, ObjectStepIInv
<1>6. CASE Current(c).nonce # 0
  <2> DEFINE x == [call[c] EXCEPT !.at = "chain"]
  <2>1. x \in Calls /\ x.at = "chain" /\ x.object = call[c].object /\ x.fresh = call[c].fresh
    BY <1>1, NextCall DEF Steps
  <2>2. UNCHANGED tx /\ call' = [call EXCEPT ![c] = x]
    BY <1>1, <1>6, ProceedOrThrow DEF FetchNonce, Steps
  <2> HIDE DEF x, IInv
  <2>3. QED BY <1>2, <1>4, <2>1, <2>2, CallOnlyIInv DEF Fetched
<1>7. QED BY <1>5, <1>6

\* The chain is the right one, or the call ends.
LEMMA CheckChainIInv ==
    ASSUME IInv, NEW c \in Callers, CheckChain(c)
    PROVE  IInv'
<1>1. Typed
  BY DEF IInv
<1>2. call[c].at = "chain" /\ UNCHANGED <<jobs, relayed, pool, mined, returned>>
  BY DEF CheckChain, At, nodeVars
<1>3. /\ Holds(c, call[c].object) /\ Current(c) \in TxRecords
      /\ Current(c).maxFee \in Fees \cup {0}
  BY <1>1, <1>2, CallTyped
<1>4. CASE /\ SetCurrent(c, [Current(c) EXCEPT !.chainId = Chain])
           /\ Proceed(c, "fee")
  <2> DEFINE t == [Current(c) EXCEPT !.chainId = Chain]
             x == [call[c] EXCEPT !.at = "fee"]
  <2>1. /\ t \in TxRecords /\ t.nonce = Current(c).nonce /\ t.job = Current(c).job
        /\ t.sig = Current(c).sig /\ t.maxFee = Current(c).maxFee
    BY <1>3, PipelineAssumption DEF TxRecords
  <2>2. x \in Calls /\ x.at = "fee" /\ x.object = call[c].object /\ x.fresh = call[c].fresh
    BY <1>1, NextCall DEF Steps
  <2>3. SetCurrent(c, t) /\ call' = [call EXCEPT ![c] = x]
    BY <1>1, <1>4, ProceedOrThrow DEF Steps
  <2> HIDE DEF t, x, IInv
  <2>4. QED BY <1>2, <1>3, <2>1, <2>2, <2>3, ObjectStepIInv DEF Fetched
<1>5. CASE Throw(c) /\ UNCHANGED tx
  BY <1>2, <1>5, ThrowIInv DEF objectVars, nodeVars
<1>6. QED BY <1>4, <1>5 DEF CheckChain

\* The fee is set.
LEMMA FetchFeeIInv ==
    ASSUME IInv, NEW c \in Callers, FetchFee(c)
    PROVE  IInv'
<1>1. Typed
  BY DEF IInv
<1>2. /\ call[c].at = "fee" /\ Proceed(c, "submit")
      /\ UNCHANGED <<jobs, relayed, pool, mined, returned>>
  BY DEF FetchFee, At, nodeVars
<1>3. /\ Holds(c, call[c].object) /\ Current(c) \in TxRecords
      /\ Current(c).maxFee \in Fees \cup {0}
  BY <1>1, <1>2, CallTyped
<1>4. PICK fee \in Fees :
         SetCurrent(c, [Current(c) EXCEPT !.maxFee = IF @ = 0 THEN fee ELSE @])
  BY DEF FetchFee
<1> DEFINE t == [Current(c) EXCEPT !.maxFee = IF @ = 0 THEN fee ELSE @]
           x == [call[c] EXCEPT !.at = "submit"]
<1>5. /\ t \in TxRecords /\ t.nonce = Current(c).nonce /\ t.job = Current(c).job
      /\ t.sig = Current(c).sig /\ t.maxFee \in Fees
  <2>1. (IF Current(c).maxFee = 0 THEN fee ELSE Current(c).maxFee) \in Fees
    BY <1>3
  <2>2. fee \in Nat
    BY PipelineAssumption
  <2>3. QED BY <1>3, <2>1, <2>2 DEF TxRecords
<1>6. x \in Calls /\ x.at = "submit" /\ x.object = call[c].object /\ x.fresh = call[c].fresh
  BY <1>1, NextCall DEF Steps
<1>7. SetCurrent(c, t) /\ call' = [call EXCEPT ![c] = x]
  BY <1>1, <1>2, <1>4, ProceedOrThrow DEF Steps
<1> HIDE DEF t, x, IInv
<1>8. QED BY <1>2, <1>3, <1>5, <1>6, <1>7, ObjectStepIInv DEF Fetched

\* The transaction is signed and sent; the node may take it, and the call may
\* learn of that or not.
LEMMA SubmitIInv ==
    ASSUME IInv, NEW c \in Callers, Submit(c)
    PROVE  IInv'
<1> DEFINE o == call[c].object
           t == Signed(Current(c))
           h == Hashed(t)
           stop == Idle
           wait == [call[c] EXCEPT !.at = "poll", !.waits = MaxWaits]
<1>1. Typed /\ JobsApart /\ FetchedIsNew
  BY DEF IInv
<1>2. call[c].at = "submit" /\ SetCurrent(c, t) /\ UNCHANGED <<jobs, pool, mined, returned>>
  BY DEF Submit, At
<1>3. /\ o \in Objects /\ Holds(c, o) /\ Current(c) = tx[c][o] /\ Current(c) \in TxRecords
      /\ Current(c).job <= jobs /\ Current(c).maxFee \in Fees
  BY <1>1, <1>2, CallTyped DEF Current, Typed
<1>4. /\ t \in TxRecords /\ t.nonce = Current(c).nonce /\ t.job = Current(c).job
      /\ t.maxFee = Current(c).maxFee /\ t.sig # "empty"
      /\ t.sig = "valid" => Current(c).sig = "empty"
  <2>1. (IF Current(c).sig = "empty" THEN "valid" ELSE "invalid") \in {"valid", "invalid"}
    OBVIOUS
  <2>2. t = [Current(c) EXCEPT !.sig = IF Current(c).sig = "empty" THEN "valid" ELSE "invalid"]
    BY DEF Signed
  <2> HIDE DEF t
  <2>3. QED BY <1>3, <2>1, <2>2 DEF TxRecords
<1>5. /\ stop \in Calls /\ stop.at = "idle"
      /\ wait \in Calls /\ wait.at = "poll" /\ wait.object = o /\ wait.fresh = call[c].fresh
  <2>1. call[c] \in Calls /\ stop \in Calls /\ stop.at = "idle"
    BY <1>1, NextCall
  <2>2. MaxWaits \in 0 .. MaxWaits
    BY PipelineAssumption
  <2>3. wait \in Calls /\ wait.at = "poll" /\ wait.object = o /\ wait.fresh = call[c].fresh
    <3> DEFINE y == [call[c] EXCEPT !.at = "poll"]
    <3>1. y \in Calls /\ y.at = "poll" /\ y.object = o /\ y.fresh = call[c].fresh
      BY <2>1 DEF Calls, Steps
    <3>2. wait = [y EXCEPT !.waits = MaxWaits]
      BY <2>1 DEF Calls
    <3> HIDE DEF y, wait, o
    <3>3. QED BY <2>2, <3>1, <3>2 DEF Calls
  <2>4. QED BY <2>1, <2>3
<1>6. PICK x \in Calls :
         /\ call' = [call EXCEPT ![c] = x]
         /\ x.at = "idle" \/ (x.at = "poll" /\ x.object = o /\ x.fresh = call[c].fresh)
         /\ \/ UNCHANGED relayed
            \/ NodeAccepts(t) /\ relayed' = relayed \cup {h}
  <2>1. call \in [Callers -> Calls]
    BY <1>1 DEF Typed, Calls
  <2>2. CASE Throw(c)
    <3>1. call' = [call EXCEPT ![c] = stop]
      BY <2>2 DEF Throw
    <3>2. UNCHANGED relayed \/ (NodeAccepts(t) /\ relayed' = relayed \cup {h})
      BY DEF Submit
    <3> HIDE DEF t, h, stop, wait
    <3>3. QED BY <1>5, <3>1, <3>2
  <2>3. CASE ~Throw(c)
    <3>1. /\ NodeAccepts(t) /\ relayed' = relayed \cup {h}
          /\ call' = [call EXCEPT ![c].at = "poll", ![c].waits = MaxWaits]
      BY <2>3 DEF Submit
    <3>2. call' = [call EXCEPT ![c] = wait]
      BY <2>1, <3>1
    <3> HIDE DEF t, h, stop, wait
    <3>3. QED BY <1>5, <3>1, <3>2
  <2>4. QED BY <2>2, <2>3
<1>7. h.job = t.job /\ h.nonce = t.nonce /\ h.fee = t.maxFee /\ h \in Networked
  <2> HIDE DEF t
  <2>1. QED BY <1>3, <1>4 DEF Hashed, Networked, TxRecords
<1> HIDE DEF t, h, o, stop, wait
<1>8. CASE UNCHANGED relayed
  <2>1. t.maxFee \in Fees \cup {0}
    BY <1>3, <1>4
  <2>2. x.at # "submit" /\ (x.at # "idle" => x.object = call[c].object)
    BY <1>6 DEF o
  <2>3. x.fresh /\ x.at \in Fetched => call[c].fresh /\ call[c].at \in Fetched
    BY <1>2, <1>6 DEF Fetched
  <2> HIDE DEF IInv
  <2>4. QED BY <1>2, <1>4, <1>6, <1>8, <2>1, <2>2, <2>3, ObjectStepIInv
<1>9. CASE NodeAccepts(t) /\ relayed' = relayed \cup {h}
  <2>1. Current(c).sig = "empty"
    BY <1>4, <1>9 DEF NodeAccepts
  <2>2. /\ call' \in [Callers -> Calls] /\ call'[c] = x
        /\ \A d \in Callers : d # c => call'[d] = call[d]
    BY <1>1, <1>6, OneCallChanges
  <2>3. /\ tx' \in [Callers -> [Objects -> TxRecords \cup {NoObject}]]
        /\ tx'[c][o] = t
        /\ \A d \in Callers, p \in Objects : d # c \/ p # o => tx'[d][p] = tx[d][p]
        /\ tx' = [tx EXCEPT ![c][o] = t]
    <3>1. tx' = [tx EXCEPT ![c][o] = t]
      BY <1>2 DEF SetCurrent, o
    <3>2. QED BY <1>1, <1>3, <1>4, <3>1, OneObjectChanges
  <2>4. t # NoObject
    BY <1>4, PipelineAssumption
  <2>5. \A d, p : Holds(d, p)' <=> Holds(d, p)
    BY <1>3, <2>3, <2>4 DEF Holds
  <2>6. Typed'
    <3>1. \A d, p : Holds(d, p) => tx'[d][p].job <= jobs /\ tx'[d][p].maxFee \in Fees \cup {0}
      BY <1>1, <1>3, <1>4, <2>3 DEF Typed, Holds
    <3>2. \A d \in Callers : call'[d].at # "idle" => Holds(d, call'[d].object)
      BY <1>1, <1>3, <1>6, <2>2 DEF Typed
    <3>3. ASSUME NEW d \in Callers, call'[d].at = "submit"
          PROVE  tx'[d][call'[d].object].maxFee \in Fees
      <4>1. d # c /\ call'[d] = call[d] /\ Holds(d, call[d].object)
        BY <1>1, <1>6, <2>2, <3>3 DEF Typed
      <4>2. tx'[d][call[d].object] = tx[d][call[d].object]
        BY <2>3, <4>1 DEF Holds
      <4>3. QED BY <1>1, <3>3, <4>1, <4>2 DEF Typed
    <3>4. relayed' \subseteq Networked
      BY <1>1, <1>7, <1>9 DEF Typed
    <3>5. QED BY <1>1, <1>2, <2>2, <2>3, <2>5, <3>1, <3>2, <3>3, <3>4 DEF Typed, Calls
  <2>7. JobsApart'
    <3>1. Sent' = Sent \cup {h}
      BY <1>2, <1>9 DEF Sent, Known, Mined
    <3>2. \A u \in Sent : u.job # h.job
      BY <1>1, <1>3, <1>4, <1>7, <2>1 DEF JobsApart
    <3>3. ASSUME NEW d, NEW p, Holds(d, p)'
          PROVE  /\ Holds(d, p) /\ tx'[d][p].job = tx[d][p].job
                 /\ tx'[d][p].sig = "empty" => tx[d][p].sig = "empty" /\ (d # c \/ p # o)
      BY <1>4, <1>3, <2>3, <2>5, <3>3 DEF Holds
    <3>4. h.job <= jobs
      BY <1>3, <1>4, <1>7
    <3>5. ASSUME NEW d, NEW p, Holds(d, p)', tx'[d][p].sig = "empty"
          PROVE  \A u \in Sent \cup {h} : u.job # tx'[d][p].job
      <4>1. h.job # tx[d][p].job
        BY <1>1, <1>3, <1>4, <1>7, <3>3, <3>5 DEF JobsApart
      <4>2. QED BY <1>1, <3>3, <3>5, <4>1 DEF JobsApart
    <3>6. \A d, p, e, q : Holds(d, p)' /\ Holds(e, q)' /\ tx'[d][p].job = tx'[e][q].job
                            => d = e /\ p = q
      BY <1>1, <3>3 DEF JobsApart
    <3>7. QED BY <1>1, <1>2, <3>1, <3>2, <3>4, <3>5, <3>6 DEF JobsApart
  <2>8. PICK k \in Nat : Reached(k)
    BY DEF IInv
  <2>9. Reached(k)'
    <3>1. Taken(k)' <=> Taken(k)
      BY <1>2 DEF Taken, Known, Mined
    <3>2. \A n \in Nat : Taken(n)' <=> Taken(n)
      BY <1>2 DEF Taken, Known, Mined
    <3>3. t.nonce <= k
      BY <1>3, <1>4, <2>8 DEF Reached
    <3>4. \A u \in relayed' : u.nonce <= k
      BY <1>7, <1>9, <2>8, <3>3 DEF Reached
    <3>5. ASSUME NEW d, NEW p, Holds(d, p)'
          PROVE  tx'[d][p].nonce <= k
      <4>1. CASE d = c /\ p = o
        BY <2>3, <3>3, <4>1
      <4>2. CASE d # c \/ p # o
        BY <2>3, <2>5, <2>8, <3>5, <4>2 DEF Holds, Reached
      <4>3. QED BY <4>1, <4>2
    <3>6. QED BY <2>8, <3>2, <3>4, <3>5 DEF Reached
  <2>10. FetchedIsNew'
    <3>1. SUFFICES ASSUME NEW d \in Callers, call'[d].fresh, call'[d].at \in Fetched,
                          NEW r \in returned, r.caller = d
                   PROVE  r.tx.nonce # tx'[d][call'[d].object].nonce
      BY <1>2 DEF FetchedIsNew, Fetched
    <3>2. CASE d = c
      <4>1. x.fresh /\ x.at \in Fetched /\ x.at # "idle"
        BY <2>2, <3>1, <3>2 DEF Fetched
      <4>2. call[c].fresh /\ call[c].at \in Fetched /\ x.object = o
        BY <1>2, <1>6, <4>1 DEF Fetched
      <4>3. tx'[d][call'[d].object].nonce = tx[c][o].nonce
        BY <1>3, <1>4, <2>2, <2>3, <3>2, <4>2
      <4>4. QED BY <1>1, <3>1, <3>2, <4>2, <4>3 DEF FetchedIsNew, Fetched, o
    <3>3. CASE d # c
      <4>1. call'[d] = call[d] /\ Holds(d, call[d].object)
        BY <1>1, <2>2, <3>1, <3>3 DEF Typed, Fetched
      <4>2. tx'[d][call[d].object] = tx[d][call[d].object]
        BY <2>3, <3>3, <4>1 DEF Holds
      <4>3. QED BY <1>1, <3>1, <4>1, <4>2 DEF FetchedIsNew, Fetched
    <3>4. QED BY <3>2, <3>3
  <2>11. MinedInOrder' /\ ReturnedIsKnown' /\ OwnNoncesDiffer'
    BY <1>2 DEF IInv, MinedInOrder, ReturnedIsKnown, OwnNoncesDiffer, Taken, Known, Mined
  <2>12. QED BY <2>6, <2>7, <2>9, <2>10, <2>11 DEF IInv
<1>10. QED BY <1>6, <1>8, <1>9

\* A turn of the loop: the hash is returned, the wait goes on, or it ends.
LEMMA PollIInv ==
    ASSUME IInv, NEW c \in Callers, Poll(c)
    PROVE  IInv'
<1>1. Typed /\ JobsApart /\ FetchedIsNew /\ ReturnedIsKnown /\ OwnNoncesDiffer
  BY DEF IInv
<1>2. call[c].at = "poll" /\ UNCHANGED <<tx, jobs, relayed, pool, mined>>
  BY DEF Poll, At, objectVars, nodeVars
<1>3. /\ call[c].object \in Objects /\ Holds(c, call[c].object)
      /\ Current(c) = tx[c][call[c].object] /\ Current(c) \in TxRecords
  BY <1>1, <1>2, CallTyped DEF Current
<1>4. call \in [Callers -> Calls] /\ call[c] \in Calls
  BY <1>1 DEF Typed, Calls
<1>5. CASE Hashed(Current(c)) \in Known /\ Return(c)
  <2> DEFINE x == [call[c] EXCEPT !.at = "receipt"]
             h == Hashed(Current(c))
             new == [caller |-> c, tx |-> h, fresh |-> call[c].fresh]
  <2>1. /\ x \in Calls /\ x.at = "receipt" /\ x.object = call[c].object
        /\ call' = [call EXCEPT ![c] = x] /\ returned' = returned \cup {new}
    BY <1>1, <1>5, NextCall, ProceedOrThrow DEF Return, Steps
  <2>2. /\ call' \in [Callers -> Calls] /\ call'[c] = x
        /\ \A d \in Callers : d # c => call'[d] = call[d]
    BY <1>1, <2>1, OneCallChanges
  <2>3. h \in Known /\ h \in Networked /\ h.nonce = Current(c).nonce
    BY <1>1, <1>5, SentTyped DEF Hashed
  <2>4. new.tx = h /\ new.caller = c /\ new.fresh = call[c].fresh
    OBVIOUS
  <2> HIDE DEF x, h, new
  <2>5. \A d, o : Holds(d, o)' <=> Holds(d, o)
    BY <1>2 DEF Holds
  <2>6. Typed'
    <3>1. \A d \in Callers : call'[d].at # "idle" => Holds(d, call'[d].object)
      BY <1>1, <1>3, <2>1, <2>2 DEF Typed
    <3>2. \A d \in Callers : call'[d].at = "submit" => tx[d][call'[d].object].maxFee \in Fees
      BY <1>1, <2>1, <2>2 DEF Typed
    <3>3. \A r \in returned' : r.tx \in Networked
      BY <1>1, <2>1, <2>3, <2>4 DEF Typed
    <3>4. QED BY <1>1, <1>2, <2>2, <2>5, <3>1, <3>2, <3>3 DEF Typed, Calls
  <2>7. JobsApart'
    BY <1>1, <1>2, <2>5 DEF JobsApart, Sent, Known, Mined
  <2>8. \E k \in Nat : Reached(k)'
    <3>1. PICK k \in Nat : Reached(k)
      BY DEF IInv
    <3>2. Reached(k)'
      BY <1>2, <2>5, <3>1 DEF Reached, Taken, Known, Mined
    <3>3. QED BY <3>2
  <2>9. FetchedIsNew'
    <3>1. SUFFICES ASSUME NEW d \in Callers, call'[d].fresh, call'[d].at \in Fetched,
                          NEW r \in returned', r.caller = d
                   PROVE  r.tx.nonce # tx[d][call'[d].object].nonce
      BY <1>2 DEF FetchedIsNew, Fetched
    <3>2. d # c
      BY <2>1, <2>2, <3>1 DEF Fetched
    <3>3. call'[d] = call[d] /\ r \in returned
      BY <2>1, <2>2, <2>4, <3>1, <3>2
    <3>4. QED BY <1>1, <3>1, <3>3 DEF FetchedIsNew, Fetched
  <2>10. ReturnedIsKnown'
    <3>1. \A n : Taken(n)' <=> Taken(n)
      BY <1>2 DEF Taken, Known, Mined
    <3>2. Taken(new.tx.nonce)
      BY <2>3, <2>4 DEF Taken
    <3>3. QED BY <1>1, <2>1, <3>1, <3>2 DEF ReturnedIsKnown
  <2>11. OwnNoncesDiffer'
    <3>1. ASSUME NEW r \in returned, r.caller = c, new.fresh
          PROVE  r.tx.nonce # new.tx.nonce
      BY <1>1, <1>2, <1>3, <2>3, <2>4, <3>1 DEF FetchedIsNew
    <3>2. SUFFICES ASSUME NEW r \in returned', NEW s \in returned',
                          r.caller = s.caller, r.fresh, s.fresh, r.tx # s.tx
                   PROVE  r.tx.nonce # s.tx.nonce
      BY DEF OwnNoncesDiffer
    <3>3. CASE r \in returned /\ s \in returned
      BY <1>1, <3>2, <3>3 DEF OwnNoncesDiffer
    <3>4. CASE r \in returned /\ s = new
      BY <2>4, <3>1, <3>2, <3>4
    <3>5. CASE r = new /\ s \in returned
      BY <2>4, <3>1, <3>2, <3>5
    <3>6. QED BY <2>1, <3>2, <3>3, <3>4, <3>5
  <2>12. MinedInOrder'
    BY <1>2 DEF IInv, MinedInOrder
  <2>13. QED BY <2>6, <2>7, <2>8, <2>9, <2>10, <2>11, <2>12 DEF IInv
<1>6. CASE /\ call[c].waits > 0 /\ call' = [call EXCEPT ![c].waits = @ - 1]
           /\ UNCHANGED returned
  <2> DEFINE x == [call[c] EXCEPT !.waits = @ - 1]
  <2>1. call[c].waits - 1 \in 0 .. MaxWaits
    BY <1>4, <1>6, PipelineAssumption DEF Calls
  <2>2. x \in Calls /\ x.at = "poll" /\ x.object = call[c].object /\ x.fresh = call[c].fresh
    BY <1>2, <1>4, <2>1 DEF Calls
  <2>3. call' = [call EXCEPT ![c] = x]
    BY <1>4, <1>6
  <2> HIDE DEF x, IInv
  <2>4. QED BY <1>2, <1>3, <1>6, <2>2, <2>3, CallOnlyIInv DEF Fetched
<1>7. CASE Throw(c) /\ UNCHANGED returned
  BY <1>2, <1>7, ThrowIInv DEF objectVars, nodeVars
<1>8. QED BY <1>5, <1>6, <1>7 DEF Poll

\* The caller stops waiting for a receipt.
LEMMA AwaitReceiptIInv ==
    ASSUME IInv, NEW c \in Callers, AwaitReceipt(c)
    PROVE  IInv'
  BY ThrowIInv DEF AwaitReceipt

\* A request fails.
LEMMA RequestFailsIInv ==
    ASSUME IInv, NEW c \in Callers, RequestFails(c)
    PROVE  IInv'
  BY ThrowIInv DEF RequestFails

\* What the network does leaves objects and calls alone.
LEMMA NetworkKeepsCalls ==
    ASSUME IInv, UNCHANGED <<objectVars, call, returned>>,
           relayed' \subseteq Networked, pool' \subseteq Networked, mined' \in Seq(Networked),
           Sent' \subseteq Sent, \A n \in Nat : Taken(n) => Taken(n)'
    PROVE  /\ Typed' /\ JobsApart' /\ FetchedIsNew' /\ ReturnedIsKnown' /\ OwnNoncesDiffer'
           /\ \A c, o : Holds(c, o)' <=> Holds(c, o)
<1>1. UNCHANGED <<tx, jobs, call, returned>>
  BY DEF objectVars
<1>2. \A c, o : Holds(c, o)' <=> Holds(c, o)
  BY <1>1 DEF Holds
<1>3. Typed'
  BY <1>1, <1>2 DEF IInv, Typed
<1>4. JobsApart'
  BY <1>1, <1>2 DEF IInv, JobsApart
<1>5. FetchedIsNew' /\ OwnNoncesDiffer'
  BY <1>1 DEF IInv, FetchedIsNew, OwnNoncesDiffer
<1>6. ReturnedIsKnown'
  <2>1. \A r \in returned : r.tx.nonce \in Nat
    BY SentTyped DEF IInv, Typed
  <2>2. QED BY <1>1, <2>1 DEF IInv, ReturnedIsKnown
<1>7. QED BY <1>2, <1>3, <1>4, <1>5, <1>6

\* An accepted transaction gets into the pool, where its nonce is the next at
\* most, or is lost.
LEMMA RelayIInv ==
    ASSUME IInv, NEW t \in relayed, Relay(t)
    PROVE  IInv'
<1>1. Typed /\ MinedInOrder
  BY DEF IInv
<1>2. PICK k \in Nat : Reached(k)
  BY DEF IInv
<1>3. /\ relayed' = relayed \ {t} /\ mined' = mined /\ UNCHANGED <<objectVars, call, returned>>
      /\ \/ pool' = {u \in pool : u.nonce # t.nonce} \cup {t}
         \/ pool' = pool
  BY DEF Relay
<1>4. t \in Networked /\ t.nonce \in Nat /\ t.nonce <= k
  BY <1>1, <1>2, SentTyped DEF Sent, Reached
<1>5. /\ relayed' \subseteq Networked /\ pool' \subseteq Networked /\ mined' \in Seq(Networked)
      /\ Sent' \subseteq Sent
  BY <1>1, <1>3, <1>4 DEF Typed, Sent, Known, Mined
<1>6. CASE pool' = pool
  <2>1. \A n \in Nat : Taken(n)' <=> Taken(n)
    BY <1>3, <1>6 DEF Taken, Known, Mined
  <2>2. Typed' /\ JobsApart' /\ FetchedIsNew' /\ ReturnedIsKnown' /\ OwnNoncesDiffer'
        /\ \A c, o : Holds(c, o)' <=> Holds(c, o)
    BY <1>3, <1>5, <2>1, NetworkKeepsCalls
  <2>3. Reached(k)'
    BY <1>2, <1>3, <2>1, <2>2 DEF Reached, objectVars
  <2>4. QED BY <1>1, <1>3, <2>2, <2>3 DEF IInv, MinedInOrder
<1>7. CASE pool' = {u \in pool : u.nonce # t.nonce} \cup {t}
  <2>1. \A n \in Nat : Taken(n)' <=> (Taken(n) \/ n = t.nonce)
    BY <1>3, <1>7 DEF Taken, Known, Mined
  <2>2. Typed' /\ JobsApart' /\ FetchedIsNew' /\ ReturnedIsKnown' /\ OwnNoncesDiffer'
        /\ \A c, o : Holds(c, o)' <=> Holds(c, o)
    BY <1>3, <1>5, <2>1, NetworkKeepsCalls
  <2>3. \E l \in Nat : Reached(l)'
    <3>1. CASE t.nonce < k
      <4>1. \A n \in Nat : Taken(n)' <=> n < k
        BY <1>2, <1>4, <2>1, <3>1 DEF Reached
      <4>2. Reached(k)'
        BY <1>2, <1>3, <2>2, <4>1 DEF Reached, objectVars
      <4>3. QED BY <4>2
    <3>2. CASE t.nonce = k
      <4>1. \A n \in Nat : Taken(n)' <=> n < k + 1
        BY <1>2, <1>4, <2>1, <3>2 DEF Reached
      <4>2. \A u \in relayed' : u.nonce <= k + 1
        <5>1. \A u \in relayed : u.nonce \in Nat
          BY <1>1, SentTyped DEF Sent
        <5>2. QED BY <1>2, <1>3, <5>1 DEF Reached
      <4>3. \A c, o : Holds(c, o)' => tx'[c][o].nonce <= k + 1
        <5>1. \A c, o : Holds(c, o) => tx[c][o].nonce \in Nat
          BY <1>1 DEF Typed, Holds, TxRecords
        <5>2. QED BY <1>2, <1>3, <2>2, <5>1 DEF Reached, objectVars
      <4>4. Reached(k + 1)'
        BY <4>1, <4>2, <4>3 DEF Reached
      <4>5. QED BY <4>4
    <3>3. QED BY <1>4, <3>1, <3>2
  <2>4. QED BY <1>1, <1>3, <2>2, <2>3 DEF IInv, MinedInOrder
<1>8. QED BY <1>3, <1>6, <1>7

\* A block takes the transaction with the next nonce.
LEMMA MineIInv ==
    ASSUME IInv, Mine
    PROVE  IInv'
<1>1. Typed /\ MinedInOrder
  BY DEF IInv
<1>2. PICK t \in pool :
         /\ t.nonce = Len(mined) /\ mined' = Append(mined, t) /\ pool' = pool \ {t}
         /\ UNCHANGED <<objectVars, call, relayed, returned>>
  BY DEF Mine
<1>3. /\ mined \in Seq(Networked) /\ t \in Networked /\ Len(mined) \in Nat
      /\ DOMAIN mined = 1 .. Len(mined)
  BY <1>1 DEF Typed
<1>4. /\ mined' \in Seq(Networked) /\ DOMAIN mined' = DOMAIN mined \cup {Len(mined) + 1}
      /\ mined'[Len(mined) + 1] = t
      /\ \A i \in DOMAIN mined : mined'[i] = mined[i]
  BY <1>2, <1>3
<1>5. Mined' = Mined \cup {t}
  BY <1>4 DEF Mined
<1>6. Known' = Known
  BY <1>2, <1>5 DEF Known
<1>7. Sent' = Sent /\ \A n : Taken(n)' <=> Taken(n)
  BY <1>2, <1>6 DEF Sent, Taken
<1>8. relayed' \subseteq Networked /\ pool' \subseteq Networked
  BY <1>1, <1>2 DEF Typed
<1>9. Typed' /\ JobsApart' /\ FetchedIsNew' /\ ReturnedIsKnown' /\ OwnNoncesDiffer'
      /\ \A c, o : Holds(c, o)' <=> Holds(c, o)
  BY <1>2, <1>4, <1>7, <1>8, NetworkKeepsCalls
<1>10. PICK k \in Nat : Reached(k)
  BY DEF IInv
<1>11. Reached(k)'
  BY <1>2, <1>7, <1>9, <1>10 DEF Reached, objectVars
<1>12. MinedInOrder'
  BY <1>1, <1>2, <1>3, <1>4 DEF MinedInOrder
<1>13. QED BY <1>9, <1>11, <1>12 DEF IInv

-----------------------------------------------------------------------------
\* The theorems.

\* Nobody has done anything yet.
LEMMA InitIInv == Init => IInv
<1>1. SUFFICES ASSUME Init
               PROVE  IInv
  OBVIOUS
<1>2. /\ tx = [c \in Callers |-> [o \in Objects |-> NoObject]]
      /\ call = [c \in Callers |-> Idle]
      /\ jobs = 0 /\ relayed = {} /\ pool = {} /\ mined = <<>> /\ returned = {}
  BY <1>1 DEF Init
<1>3. \A c, o : ~Holds(c, o)
  BY <1>2 DEF Holds
<1>4. Idle \in Calls /\ Idle.at = "idle"
  BY PipelineAssumption DEF Idle, Calls, Steps
<1>5. call \in [Callers -> Calls] /\ \A c \in Callers : call[c].at = "idle"
  BY <1>2, <1>4
<1>6. Typed
  <2>1. tx \in [Callers -> [Objects -> TxRecords \cup {NoObject}]]
    BY <1>2
  <2>2. jobs \in 0 .. MaxJobs
    BY <1>2, PipelineAssumption
  <2>3. \A c \in Callers : call[c].at # "idle" => Holds(c, call[c].object)
    BY <1>5
  <2>4. \A c \in Callers : call[c].at = "submit" => tx[c][call[c].object].maxFee \in Fees
    BY <1>5
  <2>5. relayed \subseteq Networked /\ pool \subseteq Networked /\ mined \in Seq(Networked)
    BY <1>2
  <2>6. \A r \in returned : r.tx \in Networked
    BY <1>2
  <2>7. QED BY <1>3, <1>5, <2>1, <2>2, <2>3, <2>4, <2>5, <2>6 DEF Typed, Calls
<1>7. Known = {} /\ Sent = {}
  BY <1>2 DEF Known, Mined, Sent
<1>8. JobsApart /\ MinedInOrder /\ FetchedIsNew /\ ReturnedIsKnown /\ OwnNoncesDiffer
  BY <1>2, <1>3, <1>7 DEF JobsApart, MinedInOrder, FetchedIsNew, ReturnedIsKnown, OwnNoncesDiffer
<1>9. Reached(0)
  BY <1>2, <1>3, <1>7 DEF Reached, Taken
<1>10. QED BY <1>6, <1>8, <1>9 DEF IInv

\* Every step.
LEMMA NextIInv == IInv /\ [Next]_vars => IInv'
<1>1. SUFFICES ASSUME IInv, [Next]_vars
               PROVE  IInv'
  OBVIOUS
<1>2. CASE UNCHANGED vars
  <2>1. UNCHANGED <<tx, jobs, call, relayed, pool, mined, returned>>
    BY <1>2 DEF vars, objectVars, nodeVars
  <2>2. (\E k \in Nat : Reached(k))'
    BY <1>1, <2>1 DEF IInv, Reached, Holds, Taken, Known, Mined
  <2>3. Typed' /\ JobsApart'
    <3>1. (\A c, o : Holds(c, o)' <=> Holds(c, o)) /\ Sent' = Sent
      BY <2>1 DEF Holds, Sent, Known, Mined
    <3>2. Typed /\ JobsApart
      BY <1>1 DEF IInv
    <3>3. Typed'
      BY <2>1, <3>1, <3>2 DEF Typed
    <3>4. JobsApart'
      BY <2>1, <3>1, <3>2 DEF JobsApart
    <3>5. QED BY <3>3, <3>4
  <2>4. FetchedIsNew'
    BY <1>1, <2>1 DEF IInv, FetchedIsNew
  <2>5. QED BY <1>1, <2>1, <2>2, <2>3, <2>4, NodeUnchanged DEF IInv
<1>3. QED BY <1>1, <1>2, CreateIInv, BeginIInv, RequestFailsIInv, FetchNonceIInv, CheckChainIInv,
             FetchFeeIInv, SubmitIInv, PollIInv, AwaitReceiptIInv, RelayIInv, MineIInv
          DEF Next, InCall

\* Jobs, nonces and calls, in every state of every instance.
THEOREM PipelineInvariant == Spec => []IInv
  BY InitIInv, NextIInv, PTL DEF Spec

\* Objects, calls and what the node holds keep their types.
THEOREM PipelineTypes == Spec => []TypeOK
<1>1. IInv => TypeOK
  <2>1. SUFFICES ASSUME IInv
                 PROVE  TypeOK
    OBVIOUS
  <2>2. Typed
    BY <2>1 DEF IInv
  <2>3. ASSUME NEW c \in Callers, NEW o \in Objects, tx[c][o] # NoObject
        PROVE  /\ tx[c][o].job \in 1 .. jobs /\ tx[c][o].nonce \in Nat
               /\ tx[c][o].maxFee \in Fees \cup {0}
    <3>1. Holds(c, o) /\ tx[c][o] \in TxRecords
      BY <2>2, <2>3 DEF Holds, Typed
    <3>2. tx[c][o].job \in Nat /\ tx[c][o].job >= 1 /\ tx[c][o].nonce \in Nat
      BY <3>1, PipelineAssumption DEF TxRecords
    <3>3. tx[c][o].job <= jobs /\ jobs \in Nat /\ tx[c][o].maxFee \in Fees \cup {0}
      BY <2>2, <3>1 DEF Typed
    <3>4. QED BY <3>2, <3>3
  <2>4. ASSUME NEW c \in Callers
        PROVE  /\ call[c].waits \in 0 .. MaxWaits
               /\ call[c].at # "idle" => tx[c][call[c].object] # NoObject
    BY <2>2 DEF Typed, Holds
  <2>5. QED BY <2>2, <2>3, <2>4 DEF Typed, TypeOK
<1>2. QED BY <1>1, PipelineInvariant, PTL

\* A hash that was returned is that of a transaction whose nonce is taken.
THEOREM ReturnedKnown == Spec => []ReturnedIsKnown
<1>1. IInv => ReturnedIsKnown
  BY DEF IInv
<1>2. QED BY <1>1, PipelineInvariant, PTL

\* The account's nonces have no gap.
THEOREM NoncesWithoutGap == Spec => []NoNonceGap
<1>1. IInv => NoNonceGap
  <2>1. SUFFICES ASSUME IInv, NEW t \in pool, NEW n \in 0 .. t.nonce
                 PROVE  Taken(n)
    BY DEF NoNonceGap
  <2>2. PICK k \in Nat : Reached(k)
    BY <2>1 DEF IInv
  <2>3. t.nonce \in Nat /\ Taken(t.nonce)
    BY <2>1, SentTyped DEF IInv, Sent, Known, Taken
  <2>4. t.nonce < k /\ n \in Nat
    BY <2>1, <2>2, <2>3 DEF Reached
  <2>5. n < k
    BY <2>1, <2>3, <2>4
  <2>6. QED BY <2>2, <2>4, <2>5 DEF Reached
<1>2. QED BY <1>1, PipelineInvariant, PTL

\* A caller does not compete with itself.
THEOREM OwnNonces == Spec => []OwnNoncesDiffer
<1>1. IInv => OwnNoncesDiffer
  BY DEF IInv
<1>2. QED BY <1>1, PipelineInvariant, PTL

\* However often an object is sent, the chain executes it once at most.
THEOREM NothingTwice == Spec => []ExecutedOnce
<1>1. IInv => ExecutedOnce
  <2>1. SUFFICES ASSUME IInv, NEW i \in DOMAIN mined, NEW j \in DOMAIN mined,
                        mined[i].job = mined[j].job
                 PROVE  i = j
    BY DEF ExecutedOnce
  <2>2. mined[i] \in Sent /\ mined[j] \in Sent
    BY DEF Sent, Known, Mined
  <2>3. mined[i] = mined[j]
    BY <2>1, <2>2 DEF IInv, JobsApart
  <2>4. i - 1 = j - 1
    BY <2>1, <2>3 DEF IInv, MinedInOrder
  <2>5. i \in Nat /\ j \in Nat
    BY <2>1, SentTyped DEF IInv
  <2>6. QED BY <2>4, <2>5
<1>2. QED BY <1>1, PipelineInvariant, PTL

=============================================================================
