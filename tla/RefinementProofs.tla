-------------------------- MODULE RefinementProofs --------------------------
(***************************************************************************)
(* TaskExecution implements TaskLifecycle.  Each kind of step of           *)
(* RetryChainProofs is a step of one invocation, or none: the invocation   *)
(* is the root of the chain of the message concerned.  ViewInv says what   *)
(* the refinement mapping shows of a chain without mentioning CHOOSE; it   *)
(* holds because a clean chain has exactly one latest message.             *)
(***************************************************************************)
EXTENDS RetryChainProofs

IsLatest(i, l) == l \in Chain(i) /\ \A k \in Chain(i) : n_retries[k] <= n_retries[l]

Shows(i, p, a, e) == phaseBar[i] = p /\ attemptBar[i] = a /\ effectsBar[i] = e

\* What the phase of an invocation says about the row of its latest message.
PhaseFits(p, l) ==
    /\ status[l] = "NONE" => p = "waiting"
    /\ status[l] = "RUNNING" => p = "running"
    /\ status[l] = "RETRIED" => p = "retrying"
    /\ status[l] = "SUCCEEDED" => p = IF traceback[l] THEN "skipped" ELSE "succeeded"
    /\ status[l] = "FAILED" => p = "failed"

ViewInv ==
    /\ phaseBar = [i \in MsgIds |-> phaseBar[i]]
    /\ attemptBar = [i \in MsgIds |-> attemptBar[i]]
    /\ effectsBar = [i \in MsgIds |-> effectsBar[i]]
    /\ \A i \in MsgIds :
          /\ Chain(i) = {} => Shows(i, "none", 0, 0)
          /\ Chain(i) # {} /\ ~Clean(i) => Shows(i, "forgotten", 0, 0)
          /\ \A l \in MsgIds : Clean(i) /\ IsLatest(i, l) =>
                /\ PhaseFits(phaseBar[i], l)
                /\ attemptBar[i] = n_retries[l]
                /\ effectsBar[i] = commits[l]

\* A clean chain has one latest message, so Latest finds it.
LEMMA LatestIsUnique ==
    ASSUME TypeOK, ChainInv, NEW i \in MsgIds, Clean(i), NEW l \in MsgIds, IsLatest(i, l)
    PROVE  Latest(i) = l
<1>1. \E m \in Chain(i) : \A k \in Chain(i) : n_retries[k] <= n_retries[m]
  BY DEF IsLatest
<1>2. IsLatest(i, Latest(i))
  BY <1>1, Zenon DEF Latest, IsLatest
<1> HIDE DEF Latest
<1>3. /\ Latest(i) \in MsgIds /\ Sent(Latest(i)) /\ root[Latest(i)] = i /\ Sent(l) /\ root[l] = i
      /\ n_retries[Latest(i)] <= n_retries[l] /\ n_retries[l] <= n_retries[Latest(i)]
  BY <1>2 DEF IsLatest, Chain
<1>4. n_retries[Latest(i)] = n_retries[l]
  BY <1>3 DEF TypeOK
<1> QED
  BY <1>3, <1>4 DEF ChainInv, LineInv

\* The phase is read off the row.
LEMMA PhaseOfFits == ASSUME NEW m PROVE PhaseFits(PhaseOf(m), m)
<1>1. ASSUME status[m] = "NONE" PROVE PhaseOf(m) = "waiting"
  BY <1>1 DEF PhaseOf
<1>2. ASSUME status[m] = "RUNNING" PROVE PhaseOf(m) = "running"
  BY <1>2 DEF PhaseOf
<1>3. ASSUME status[m] = "RETRIED" PROVE PhaseOf(m) = "retrying"
  BY <1>3 DEF PhaseOf
<1>4. ASSUME status[m] = "SUCCEEDED"
      PROVE  PhaseOf(m) = IF traceback[m] THEN "skipped" ELSE "succeeded"
  BY <1>4 DEF PhaseOf
<1>5. ASSUME status[m] = "FAILED" PROVE PhaseOf(m) = "failed"
  BY <1>5 DEF PhaseOf
<1> QED
  BY <1>1, <1>2, <1>3, <1>4, <1>5 DEF PhaseFits

LEMMA ViewsHold == ASSUME TypeOK, ChainInv PROVE ViewInv
<1>1. /\ phaseBar = [i \in MsgIds |-> phaseBar[i]]
      /\ attemptBar = [i \in MsgIds |-> attemptBar[i]]
      /\ effectsBar = [i \in MsgIds |-> effectsBar[i]]
  BY DEF phaseBar, attemptBar, effectsBar
<1>2. ASSUME NEW i \in MsgIds PROVE Forgotten(i) <=> ~Clean(i)
  BY DEF Forgotten, Clean, Chain, ChainInv, RootInv, TypeOK
<1>3. ASSUME NEW i \in MsgIds, Chain(i) = {} PROVE Shows(i, "none", 0, 0)
  BY <1>3 DEF Shows, phaseBar, attemptBar, effectsBar
<1>4. ASSUME NEW i \in MsgIds, Chain(i) # {}, ~Clean(i) PROVE Shows(i, "forgotten", 0, 0)
  <2>1. Forgotten(i)
    BY <1>2, <1>4
  <2> HIDE DEF Forgotten, Chain
  <2> QED
    BY <1>4, <2>1 DEF Shows, phaseBar, attemptBar, effectsBar
<1>5. ASSUME NEW i \in MsgIds, NEW l \in MsgIds, Clean(i), IsLatest(i, l)
      PROVE  /\ PhaseFits(phaseBar[i], l)
             /\ attemptBar[i] = n_retries[l]
             /\ effectsBar[i] = commits[l]
  <2>1. Chain(i) # {} /\ ~Forgotten(i)
    BY <1>2, <1>5 DEF IsLatest
  <2>2. Latest(i) = l
    BY <1>5, LatestIsUnique
  <2> HIDE DEF Forgotten, Chain, Latest
  <2>3. phaseBar[i] = PhaseOf(l) /\ attemptBar[i] = n_retries[l] /\ effectsBar[i] = commits[l]
    BY <2>1, <2>2 DEF phaseBar, attemptBar, effectsBar
  <2> QED
    BY <2>3, PhaseOfFits
<1> QED
  BY <1>1, <1>3, <1>4, <1>5 DEF ViewInv

(***************************************************************************)
(* One step.  SameView(i): the invocation i does not move.                 *)
(***************************************************************************)
SameView(i) ==
    phaseBar'[i] = phaseBar[i] /\ attemptBar'[i] = attemptBar[i] /\ effectsBar'[i] = effectsBar[i]

\* A chain whose messages and whose rows stay as they are shows the same.
LEMMA ViewFrame ==
    ASSUME TypeOK, TypeOK', ChainInv, ViewInv, ViewInv', NEW i \in MsgIds,
           Chain(i)' = Chain(i), Clean(i)' <=> Clean(i),
           \A m \in Chain(i) : /\ n_retries'[m] = n_retries[m]
                               /\ Clean(i) => /\ status'[m] = status[m]
                                              /\ traceback'[m] = traceback[m]
                                              /\ commits'[m] = commits[m]
    PROVE  SameView(i)
<1>1. CASE Chain(i) = {}
  BY <1>1 DEF ViewInv, Shows, SameView
<1>2. CASE Chain(i) # {} /\ ~Clean(i)
  BY <1>2 DEF ViewInv, Shows, SameView
<1>3. CASE Chain(i) # {} /\ Clean(i)
  <2>1. PICK l \in Chain(i) : \A k \in Chain(i) : n_retries[k] <= n_retries[l]
    BY <1>3 DEF ChainInv, LatestInv
  <2>2. l \in MsgIds /\ IsLatest(i, l) /\ IsLatest(i, l)'
    BY <2>1 DEF IsLatest, Chain
  <2>3. /\ PhaseFits(phaseBar[i], l) /\ attemptBar[i] = n_retries[l] /\ effectsBar[i] = commits[l]
        /\ PhaseFits(phaseBar[i], l)' /\ attemptBar'[i] = n_retries'[l]
        /\ effectsBar'[i] = commits'[l]
    BY <1>3, <2>2 DEF ViewInv
  <2>4. /\ n_retries'[l] = n_retries[l] /\ status'[l] = status[l]
        /\ traceback'[l] = traceback[l] /\ commits'[l] = commits[l] /\ status[l] \in Statuses
    BY <1>3, <2>1, <2>2 DEF TypeOK
  <2>5. phaseBar'[i] = phaseBar[i]
    BY <2>3, <2>4 DEF PhaseFits, Statuses, Terminal
  <2> QED
    BY <2>3, <2>4, <2>5 DEF SameView
<1> QED
  BY <1>1, <1>2, <1>3

\* If no invocation moves, the step is a stuttering step of TaskLifecycle.
LEMMA Stutter ==
    ASSUME ViewInv, ViewInv', \A i \in MsgIds : SameView(i)
    PROVE  UNCHANGED Lifecycle!vars
<1>1. phaseBar' = phaseBar
  BY DEF ViewInv, SameView
<1>2. attemptBar' = attemptBar
  BY DEF ViewInv, SameView
<1>3. effectsBar' = effectsBar
  BY DEF ViewInv, SameView
<1> QED
  BY <1>1, <1>2, <1>3 DEF Lifecycle!vars

\* If only i moves, the mapped variables change at i.
LEMMA OneMoves ==
    ASSUME ViewInv, ViewInv', NEW i \in MsgIds, \A j \in MsgIds \ {i} : SameView(j)
    PROVE  /\ phaseBar' = [phaseBar EXCEPT ![i] = phaseBar'[i]]
           /\ attemptBar' = [attemptBar EXCEPT ![i] = attemptBar'[i]]
           /\ effectsBar' = [effectsBar EXCEPT ![i] = effectsBar'[i]]
           /\ attemptBar'[i] = attemptBar[i] => attemptBar' = attemptBar
           /\ effectsBar'[i] = effectsBar[i] => effectsBar' = effectsBar
           /\ phaseBar'[i] = phaseBar[i] => phaseBar' = phaseBar
<1>1. /\ phaseBar' = [phaseBar EXCEPT ![i] = phaseBar'[i]]
      /\ phaseBar'[i] = phaseBar[i] => phaseBar' = phaseBar
  BY DEF ViewInv, SameView
<1>2. /\ attemptBar' = [attemptBar EXCEPT ![i] = attemptBar'[i]]
      /\ attemptBar'[i] = attemptBar[i] => attemptBar' = attemptBar
  BY DEF ViewInv, SameView
<1>3. /\ effectsBar' = [effectsBar EXCEPT ![i] = effectsBar'[i]]
      /\ effectsBar'[i] = effectsBar[i] => effectsBar' = effectsBar
  BY DEF ViewInv, SameView
<1> QED
  BY <1>1, <1>2, <1>3

\* Only the latest message of a clean chain can be without RETRIED.
LEMMA NotRetriedIsLatest ==
    ASSUME TypeOK, ChainInv, NEW c \in MsgIds, Sent(c), Clean(root[c]), status[c] # "RETRIED"
    PROVE  root[c] \in MsgIds /\ IsLatest(root[c], c)
<1>1. root[c] \in MsgIds /\ c \in Chain(root[c])
  BY DEF TypeOK, Chain
<1>2. ASSUME NEW k \in Chain(root[c]) PROVE n_retries[k] <= n_retries[c]
  <2>1. k \in MsgIds /\ Sent(k) /\ root[k] = root[c]
    BY DEF Chain
  <2>2. ~ (n_retries[c] < n_retries[k])
    BY <2>1 DEF ChainInv, LineInv
  <2>3. n_retries[c] \in Nat /\ n_retries[k] \in Nat
    BY <2>1 DEF TypeOK
  <2> QED
    BY <2>2, <2>3
<1> QED
  BY <1>1, <1>2 DEF IsLatest

\* A step that only writes the row, or the effects, of message c moves at most the
\* invocation that c belongs to, and that one only as long as no row of it was deleted.
LEMMA RowStep ==
    ASSUME TypeOK, TypeOK', ChainInv, ViewInv, ViewInv', SameMessages, UNCHANGED pruned,
           NEW c \in MsgIds, Sent(c), NEW i \in MsgIds, i = root[c],
           \A m \in MsgIds \ {c} : /\ status'[m] = status[m] /\ traceback'[m] = traceback[m]
                                   /\ commits'[m] = commits[m]
    PROVE  /\ \A j \in MsgIds \ {i} : SameView(j)
           /\ ~Clean(i) => SameView(i)
           /\ Clean(i)' <=> Clean(i)
           /\ IsLatest(i, c)' <=> IsLatest(i, c)
           /\ n_retries' = n_retries
<1>1. ASSUME NEW j
      PROVE  Chain(j)' = Chain(j) /\ (Clean(j)' <=> Clean(j)) /\ n_retries' = n_retries
  BY DEF SameMessages, Chain, Clean
<1>2. ASSUME NEW j \in MsgIds \ {i} PROVE SameView(j)
  <2>1. \A m \in Chain(j) : m \in MsgIds \ {c}
    BY DEF Chain
  <2> QED
    BY <1>1, <2>1, ViewFrame
<1>3. ~Clean(i) => SameView(i)
  BY <1>1, ViewFrame
<1>4. IsLatest(i, c)' <=> IsLatest(i, c)
  BY <1>1 DEF IsLatest
<1> QED
  BY <1>1, <1>2, <1>3, <1>4

\* A delivery that creates the row starts the attempt.
LEMMA StartMaps ==
    ASSUME TypeOK, TypeOK', ChainInv, ViewInv, ViewInv', NEW w \in Workers, Started(w)
    PROVE  [Lifecycle!Next]_Lifecycle!vars
<1> SUFFICES ASSUME NEW c \in MsgIds, c = cur[w], NEW i \in MsgIds, i = root[c]
             PROVE  [Lifecycle!Next]_Lifecycle!vars
  BY DEF Started, Insert, TypeOK
<1>1. Sent(c) /\ status[c] = "NONE"
  BY DEF Started, Insert, InsertAllowed, TypeOK
<1>2. /\ \A m \in MsgIds \ {c} : /\ status'[m] = status[m] /\ traceback'[m] = traceback[m]
                                 /\ commits'[m] = commits[m]
      /\ status'[c] = "RUNNING" /\ commits' = commits
      /\ SameMessages /\ UNCHANGED pruned
  BY <1>1 DEF Started, Insert, TypeOK
<1>3. /\ \A j \in MsgIds \ {i} : SameView(j)
      /\ ~Clean(i) => SameView(i)
      /\ Clean(i)' <=> Clean(i)
      /\ IsLatest(i, c)' <=> IsLatest(i, c)
      /\ n_retries' = n_retries
  BY <1>1, <1>2, RowStep
<1>4. CASE ~Clean(i)
  BY <1>3, <1>4, Stutter
<1>5. CASE Clean(i)
  <2>1. IsLatest(i, c) /\ IsLatest(i, c)'
    BY <1>1, <1>2, <1>3, <1>5, NotRetriedIsLatest
  <2>2. /\ phaseBar[i] = "waiting" /\ attemptBar[i] = n_retries[c] /\ effectsBar[i] = commits[c]
    BY <1>1, <1>3, <1>5, <2>1 DEF ViewInv, PhaseFits
  <2>3. /\ phaseBar'[i] = "running" /\ attemptBar'[i] = n_retries[c]
        /\ effectsBar'[i] = commits[c]
    BY <1>1, <1>2, <1>3, <1>5, <2>1 DEF ViewInv, PhaseFits
  <2>4. Lifecycle!Start(i)
    BY <1>3, <2>2, <2>3, OneMoves DEF Lifecycle!Start, Lifecycle!Move
  <2> QED
    BY <1>3, <2>4 DEF Lifecycle!Next
<1> QED
  BY <1>4, <1>5

\* A commit is the effect of the attempt, and there is only one.
LEMMA CommitMaps ==
    ASSUME TypeOK, TypeOK', ExecutionInv, ChainInv, ViewInv, ViewInv', NEW w \in Workers,
           Committed(w)
    PROVE  [Lifecycle!Next]_Lifecycle!vars
<1> SUFFICES ASSUME NEW c \in MsgIds, c = cur[w], NEW i \in MsgIds, i = root[c]
             PROVE  [Lifecycle!Next]_Lifecycle!vars
  BY DEF Committed, TypeOK
<1>1. Sent(c) /\ Owns(w)
  BY DEF Committed, Owns, TypeOK
<1>2. /\ \A m \in MsgIds \ {c} : /\ status'[m] = status[m] /\ traceback'[m] = traceback[m]
                                 /\ commits'[m] = commits[m]
      /\ status' = status /\ commits'[c] = commits[c] + 1
      /\ SameMessages /\ UNCHANGED pruned
  BY <1>1 DEF Committed, recordVars, TypeOK
<1>3. /\ \A j \in MsgIds \ {i} : SameView(j)
      /\ ~Clean(i) => SameView(i)
      /\ Clean(i)' <=> Clean(i)
      /\ IsLatest(i, c)' <=> IsLatest(i, c)
      /\ n_retries' = n_retries
  BY <1>1, <1>2, RowStep
<1>4. CASE ~Clean(i)
  BY <1>3, <1>4, Stutter
<1>5. CASE Clean(i)
  <2>1. status[c] = "RUNNING" /\ c \notin pruned
    BY <1>1, <1>5, OwnerIsLatest
  <2>2. commits[c] = 0
    BY <1>1, <2>1 DEF Committed, ExecutionInv, OwnerInv
  <2>3. IsLatest(i, c) /\ IsLatest(i, c)'
    BY <1>1, <1>2, <1>3, <1>5, <2>1, NotRetriedIsLatest
  <2>4. phaseBar[i] = "running" /\ attemptBar[i] = n_retries[c] /\ effectsBar[i] = 0
    BY <1>1, <1>3, <1>5, <2>1, <2>2, <2>3 DEF ViewInv, PhaseFits
  <2>5. phaseBar'[i] = "running" /\ attemptBar'[i] = n_retries[c] /\ effectsBar'[i] = 1
    BY <1>1, <1>2, <1>3, <1>5, <2>1, <2>2, <2>3 DEF ViewInv, PhaseFits
  <2>6. Lifecycle!Commit(i)
    BY <1>3, <2>4, <2>5, OneMoves DEF Lifecycle!Commit
  <2> QED
    BY <1>3, <2>6 DEF Lifecycle!Next
<1> QED
  BY <1>4, <1>5

\* Saving the outcome ends the attempt, as a success only if its writes were committed,
\* and as a retry only while retries are left.
LEMMA SaveMaps ==
    ASSUME TypeOK, TypeOK', ExecutionInv, ChainInv, ViewInv, ViewInv', NEW w \in Workers,
           Saved(w)
    PROVE  [Lifecycle!Next]_Lifecycle!vars
<1> SUFFICES ASSUME NEW c \in MsgIds, c = cur[w], NEW i \in MsgIds, i = root[c]
             PROVE  [Lifecycle!Next]_Lifecycle!vars
  BY DEF Saved, SaveRow, TypeOK
<1>1. Sent(c) /\ Owns(w) /\ pc[w] = "outcome"
  BY DEF Saved, SaveRow, Owns, TypeOK
<1>2. /\ \A m \in MsgIds \ {c} : /\ status'[m] = status[m] /\ traceback'[m] = traceback[m]
                                 /\ commits'[m] = commits[m]
      /\ status'[c] = Outcome(w) /\ traceback'[c] = (traceback[c] \/ err[w] # "none")
      /\ commits' = commits /\ SameMessages /\ UNCHANGED pruned
  BY <1>1 DEF Saved, SaveRow, TypeOK
<1>3. /\ \A j \in MsgIds \ {i} : SameView(j)
      /\ ~Clean(i) => SameView(i)
      /\ Clean(i)' <=> Clean(i)
      /\ IsLatest(i, c)' <=> IsLatest(i, c)
      /\ n_retries' = n_retries
  BY <1>1, <1>2, RowStep
<1>4. CASE ~Clean(i)
  BY <1>3, <1>4, Stutter
<1>5. CASE Clean(i)
  <2>1. status[c] = "RUNNING" /\ c \notin pruned
    BY <1>1, <1>5, OwnerIsLatest
  <2>2. /\ err[w] = "none" => commits[c] = 1
        /\ traceback'[c] = (err[w] # "none")
    BY <1>1, <1>2, <2>1 DEF ExecutionInv, OwnerInv
  <2>3. IsLatest(i, c) /\ IsLatest(i, c)'
    BY <1>1, <1>2, <1>3, <1>5, <2>1, NotRetriedIsLatest
  <2>4. phaseBar[i] = "running" /\ attemptBar[i] = n_retries[c] /\ effectsBar[i] = commits[c]
    BY <1>1, <1>3, <1>5, <2>1, <2>3 DEF ViewInv, PhaseFits
  <2>5. /\ PhaseFits(phaseBar[i], c)'
        /\ attemptBar'[i] = attemptBar[i] /\ effectsBar'[i] = effectsBar[i]
    BY <1>1, <1>2, <1>3, <1>5, <2>3, <2>4 DEF ViewInv
  <2>6. /\ phaseBar' = [phaseBar EXCEPT ![i] = phaseBar'[i]]
        /\ UNCHANGED <<attemptBar, effectsBar>>
    BY <1>3, <2>5, OneMoves
  <2>7. CASE Outcome(w) = "RETRIED"
    <3>1. ~RetriesExhausted(c)
      BY <2>7, Zenon DEF Outcome
    <3>2. attemptBar[i] < MaxRetries
      BY <1>1, <2>4, <3>1, ConstantsAssumption DEF RetriesExhausted, TypeOK
    <3>3. phaseBar'[i] = "retrying"
      BY <1>2, <2>5, <2>7 DEF PhaseFits
    <3>4. Lifecycle!Retry(i)
      BY <2>4, <2>6, <3>2, <3>3 DEF Lifecycle!Retry, Lifecycle!Move
    <3> QED
      BY <1>3, <3>4 DEF Lifecycle!Next
  <2>8. CASE Outcome(w) # "RETRIED"
    <3>1. Outcome(w) \in {"SUCCEEDED", "FAILED"}
      BY <2>8, OutcomeType DEF Terminal
    <3>2. /\ phaseBar'[i] \in Lifecycle!Outcomes
          /\ phaseBar'[i] = "succeeded" => effectsBar[i] = 1
      BY <1>2, <2>2, <2>4, <2>5, <3>1 DEF PhaseFits, Lifecycle!Outcomes
    <3>3. Lifecycle!End(i, phaseBar'[i])
      BY <2>4, <2>6, <3>2 DEF Lifecycle!End, Lifecycle!Move
    <3> QED
      BY <1>3, <3>2, <3>3 DEF Lifecycle!Next
  <2> QED
    BY <2>7, <2>8
<1> QED
  BY <1>4, <1>5

\* A new message moves only the invocation it belongs to.  It has no row and no effects.
LEMMA JoinStep ==
    ASSUME TypeOK, TypeOK', ExecutionInv, ChainInv, ViewInv, ViewInv',
           NEW k \in MsgIds, NEW n, NEW i \in MsgIds, Joins(k, n, i)
    PROVE  /\ \A j \in MsgIds \ {i} : SameView(j)
           /\ \A j \in MsgIds : Clean(j)' <=> Clean(j)
           /\ Chain(i)' = Chain(i) \cup {k}
           /\ \A m \in Chain(i) : m # k /\ n_retries'[m] = n_retries[m]
           /\ n_retries'[k] = n /\ status'[k] = "NONE" /\ commits'[k] = 0
<1>1. /\ \A m \in MsgIds \ {k} :
             /\ Sent(m)' <=> Sent(m)
             /\ root'[m] = root[m] /\ n_retries'[m] = n_retries[m]
      /\ root'[k] = i /\ n_retries'[k] = n /\ ~Sent(k) /\ Sent(k)'
      /\ UNCHANGED <<status, traceback, commits, pruned>>
  BY DEF Joins, TypeOK, recordVars
<1>2. \A j \in MsgIds : Clean(j)' <=> Clean(j)
  BY <1>1 DEF Clean, ChainInv, RootInv, TypeOK
<1>3. Chain(i)' = Chain(i) \cup {k}
  BY <1>1 DEF Chain
<1>4. \A j \in MsgIds : \A m \in Chain(j) : m # k /\ n_retries'[m] = n_retries[m]
  BY <1>1 DEF Chain
<1>5. ASSUME NEW j \in MsgIds \ {i} PROVE SameView(j)
  <2>1. Chain(j)' = Chain(j)
    BY <1>1 DEF Chain
  <2> QED
    BY <1>1, <1>2, <1>4, <2>1, ViewFrame
<1>6. status'[k] = "NONE" /\ commits'[k] = 0
  <2>1. status[k] = "NONE" /\ k \notin pruned
    BY <1>1 DEF TypeOK, ChainInv, RootInv
  <2> QED
    BY <1>1, <2>1 DEF ExecutionInv, RowInv
<1> QED
  BY <1>1, <1>2, <1>3, <1>4, <1>5, <1>6

\* A call, or a replay, is a new invocation.
LEMMA CallMaps ==
    ASSUME TypeOK, TypeOK', ExecutionInv, ChainInv, ViewInv, ViewInv', Called
    PROVE  [Lifecycle!Next]_Lifecycle!vars
<1>1. PICK k \in MsgIds, n \in StartRetries \cup {0} : Joins(k, n, k)
  BY DEF Called
<1>2. /\ \A j \in MsgIds \ {k} : SameView(j)
      /\ Clean(k)' <=> Clean(k)
      /\ Chain(k)' = Chain(k) \cup {k}
      /\ n_retries'[k] = n /\ status'[k] = "NONE" /\ commits'[k] = 0
  BY <1>1, JoinStep
<1>3. Chain(k) = {} /\ Clean(k)
  BY <1>1 DEF Joins, Chain, Clean, ChainInv, RootInv, TypeOK
<1>4. phaseBar[k] = "none" /\ attemptBar[k] = 0 /\ effectsBar[k] = 0
  BY <1>3 DEF ViewInv, Shows
<1>5. IsLatest(k, k)'
  BY <1>2, <1>3 DEF IsLatest, TypeOK
<1>6. phaseBar'[k] = "waiting" /\ attemptBar'[k] = n /\ effectsBar'[k] = 0
  BY <1>2, <1>3, <1>5 DEF ViewInv, PhaseFits
<1>7. Lifecycle!Call(k, n)
  BY <1>2, <1>4, <1>6, OneMoves DEF Lifecycle!Call, Lifecycle!Move
<1> QED
  BY <1>7 DEF Lifecycle!Next

\* Sending the retry starts the next attempt of the invocation.
LEMMA ResendMaps ==
    ASSUME TypeOK, TypeOK', ExecutionInv, ChainInv, ViewInv, ViewInv', NEW w \in Workers,
           Resent(w)
    PROVE  [Lifecycle!Next]_Lifecycle!vars
<1> SUFFICES ASSUME NEW c \in MsgIds, c = cur[w], NEW i \in MsgIds, i = root[c]
             PROVE  [Lifecycle!Next]_Lifecycle!vars
  BY DEF Resent, TypeOK
<1>1. pc[w] = "enqueue" /\ Sent(c) /\ c \in Chain(i)
  BY DEF Resent, TypeOK, Chain
<1>2. PICK k \in MsgIds : Joins(k, n_retries[c] + 1, i)
  BY DEF Resent
<1>3. /\ \A j \in MsgIds \ {i} : SameView(j)
      /\ Clean(i)' <=> Clean(i)
      /\ Chain(i)' = Chain(i) \cup {k}
      /\ \A m \in Chain(i) : m # k /\ n_retries'[m] = n_retries[m]
      /\ n_retries'[k] = n_retries[c] + 1 /\ status'[k] = "NONE" /\ commits'[k] = 0
  BY <1>2, JoinStep
<1>4. CASE ~Clean(i)
  <2>1. SameView(i)
    BY <1>1, <1>3, <1>4 DEF ViewInv, Shows, SameView
  <2> QED
    BY <1>3, <2>1, Stutter
<1>5. CASE Clean(i)
  <2>1. status[c] = "RETRIED"
    BY <1>1, <1>5 DEF ChainInv, SenderInv
  <2>2. \A m \in Chain(i) : n_retries[m] \in Nat /\ n_retries[m] <= n_retries[c]
    <3> TAKE m \in Chain(i)
    <3>1. m \in MsgIds /\ Sent(m) /\ root[m] = i
      BY DEF Chain
    <3>2. n_retries[m] \in Nat /\ n_retries[c] \in Nat
      BY <3>1 DEF TypeOK
    <3> QED
      BY <1>1, <1>5, <3>1, <3>2, RetryExtends
  <2>3. IsLatest(i, c)
    BY <1>1, <2>2 DEF IsLatest
  <2>4. phaseBar[i] = "retrying" /\ attemptBar[i] = n_retries[c]
    BY <1>5, <2>1, <2>3 DEF ViewInv, PhaseFits
  <2>5. IsLatest(i, k)'
    <3>1. n_retries[c] \in Nat
      BY <1>1, <2>2
    <3>2. ASSUME NEW m \in Chain(i) PROVE n_retries'[m] <= n_retries[c] + 1
      BY <1>3, <2>2, <3>1
    <3> QED
      BY <1>3, <3>1, <3>2 DEF IsLatest
  <2>6. phaseBar'[i] = "waiting" /\ attemptBar'[i] = n_retries[c] + 1 /\ effectsBar'[i] = 0
    BY <1>3, <1>5, <2>5 DEF ViewInv, PhaseFits
  <2>7. Lifecycle!Resend(i)
    <3>1. /\ phaseBar' = [phaseBar EXCEPT ![i] = "waiting"]
          /\ attemptBar' = [attemptBar EXCEPT ![i] = n_retries[c] + 1]
          /\ effectsBar' = [effectsBar EXCEPT ![i] = 0]
      BY <1>3, <2>6, OneMoves
    <3> QED
      BY <2>4, <3>1 DEF Lifecycle!Resend, Lifecycle!Move
  <2> QED
    BY <2>7 DEF Lifecycle!Next
<1> QED
  BY <1>4, <1>5

\* Deleting rows forgets the invocations they belong to.
LEMMA CleanupMaps ==
    ASSUME TypeOK, TypeOK', ChainInv, ViewInv, ViewInv', Cleaned
    PROVE  [Lifecycle!Next]_Lifecycle!vars
<1>1. PICK old \in SUBSET {m \in MsgIds : status[m] # "NONE"} :
          /\ status' = [m \in MsgIds |-> IF m \in old THEN "NONE" ELSE status[m]]
          /\ traceback' = [m \in MsgIds |-> IF m \in old THEN FALSE ELSE traceback[m]]
          /\ pruned' = pruned \cup old
  BY DEF Cleaned
<1>2. \A i : Chain(i)' = Chain(i)
  BY DEF Cleaned, SameMessages, Chain
<1>3. n_retries' = n_retries /\ root' = root /\ commits' = commits
  BY DEF Cleaned, SameMessages
<1> DEFINE S == {i \in MsgIds : Chain(i) \cap old # {}}
<1>4. ASSUME NEW i \in MsgIds \ S PROVE SameView(i)
  <2>1. \A m \in Chain(i) : m \in MsgIds \ old
    BY DEF Chain
  <2>2. \A m \in Chain(i) : status'[m] = status[m] /\ traceback'[m] = traceback[m]
    BY <1>1, <2>1
  <2>3. \A m \in old : root[m] # i
    BY <2>1 DEF Chain, TypeOK
  <2>4. Clean(i)' <=> Clean(i)
    BY <1>1, <1>3, <2>3 DEF Clean
  <2> QED
    BY <1>2, <1>3, <2>2, <2>4, ViewFrame
<1>5. ASSUME NEW i \in S
      PROVE  phaseBar[i] # "none" /\ phaseBar'[i] = "forgotten" /\ attemptBar'[i] = 0
             /\ effectsBar'[i] = 0
  <2>1. i \in MsgIds /\ Chain(i) # {} /\ Chain(i)' # {}
    BY <1>2
  <2>2. ~ Clean(i)'
    BY <1>1, <1>3 DEF Clean, Chain
  <2>3. phaseBar'[i] = "forgotten" /\ attemptBar'[i] = 0 /\ effectsBar'[i] = 0
    BY <2>1, <2>2 DEF ViewInv, Shows
  <2>4. CASE ~Clean(i)
    BY <2>1, <2>3, <2>4 DEF ViewInv, Shows
  <2>5. CASE Clean(i)
    <3>1. PICK l \in Chain(i) : \A k \in Chain(i) : n_retries[k] <= n_retries[l]
      BY <2>1, <2>5 DEF ChainInv, LatestInv
    <3>2. l \in MsgIds /\ IsLatest(i, l) /\ status[l] \in Statuses
      BY <3>1 DEF IsLatest, Chain, TypeOK
    <3>3. PhaseFits(phaseBar[i], l)
      BY <2>1, <2>5, <3>2 DEF ViewInv
    <3> QED
      BY <2>3, <3>2, <3>3 DEF PhaseFits, Statuses, Terminal
  <2> QED
    BY <2>4, <2>5
<1> HIDE DEF S
<1>6. Lifecycle!Forget(S)
  <2>1. phaseBar' = [i \in MsgIds |-> IF i \in S THEN "forgotten" ELSE phaseBar[i]]
    BY <1>4, <1>5 DEF ViewInv, SameView
  <2>2. attemptBar' = [i \in MsgIds |-> IF i \in S THEN 0 ELSE attemptBar[i]]
    BY <1>4, <1>5 DEF ViewInv, SameView
  <2>3. effectsBar' = [i \in MsgIds |-> IF i \in S THEN 0 ELSE effectsBar[i]]
    BY <1>4, <1>5 DEF ViewInv, SameView
  <2> QED
    BY <1>5, <2>1, <2>2, <2>3 DEF Lifecycle!Forget
<1>7. S \in SUBSET MsgIds
  BY DEF S
<1> QED
  BY <1>6, <1>7 DEF Lifecycle!Next

\* Everything else is invisible.
LEMMA QuietMaps ==
    ASSUME TypeOK, TypeOK', ChainInv, ViewInv, ViewInv', Quiet
    PROVE  UNCHANGED Lifecycle!vars
<1>1. ASSUME NEW i \in MsgIds PROVE SameView(i)
  <2>1. Chain(i)' = Chain(i) /\ (Clean(i)' <=> Clean(i)) /\ n_retries' = n_retries
    BY DEF Quiet, SameMessages, Chain, Clean
  <2>2. UNCHANGED <<status, traceback, commits>>
    BY DEF Quiet, recordVars
  <2> QED
    BY <2>1, <2>2, ViewFrame
<1> QED
  BY <1>1, Stutter

\* Seen through the records of its latest message, every behaviour of the executor is a
\* behaviour of TaskLifecycle: duplicate deliveries, crashes, failed calls and concurrent
\* workers never show an attempt run or committed twice, an outcome without its effects,
\* or a retry that was not recorded.
THEOREM ExecutionImplementsLifecycle == Spec => ImplementsLifecycle
<1>1. Init => Lifecycle!Init
  <2> SUFFICES ASSUME Init PROVE Lifecycle!Init
    OBVIOUS
  <2>1. \A i \in MsgIds : Chain(i) = {}
    BY DEF Init, Chain, Sent
  <2> HIDE DEF Chain
  <2> QED
    BY <2>1 DEF Lifecycle!Init, phaseBar, attemptBar, effectsBar
<1>2. TypeOK /\ TypeOK' /\ ExecutionInv /\ ChainInv /\ ViewInv /\ ViewInv' /\ [Next]_vars
          => [Lifecycle!Next]_Lifecycle!vars
  <2> SUFFICES ASSUME TypeOK, TypeOK', ExecutionInv, ChainInv, ViewInv, ViewInv', [Next]_vars
               PROVE  [Lifecycle!Next]_Lifecycle!vars
    OBVIOUS
  <2>1. CASE UNCHANGED vars
    <3>1. Quiet
      BY <2>1 DEF vars, queueVars, recordVars, localVars, histVars, Quiet, SameMessages,
         NoNewSender, Sent
    <3> QED
      BY <3>1, QuietMaps
  <2>2. CASE Next
    BY <2>2, StepKinds, QuietMaps, CallMaps, StartMaps, CommitMaps, SaveMaps, ResendMaps,
       CleanupMaps
  <2> QED
    BY <2>1, <2>2
<1>3. TypeOK /\ ChainInv => ViewInv
  BY ViewsHold
<1> QED
  BY <1>1, <1>2, <1>3, TypeCorrect, Executions, Chains, PTL
     DEF Spec, ImplementsLifecycle, Lifecycle!Spec
=============================================================================
