---------------------------- MODULE PreparationProofs ----------------------------
(***************************************************************************)
(* The candidate extraction and the enumeration of task chains, for any     *)
(* skill, any number of threads and any bounds.                             *)
(*   - The debug log: a thread that holds the lock has just written the     *)
(*     head of its line, otherwise the last line is complete (IInv).        *)
(*   - The candidates: what the reader has passed stays done and labelled   *)
(*     (OrderInv).                                                          *)
(*   - The chains: while no bound was met, every task path is found or      *)
(*     lies beyond a path on the stack (Covers, in ChainInv).               *)
(***************************************************************************)
EXTENDS ChainEnumeration, SharedFacts

Entry == [item: Indices, phase: {"start", "finish"}, part: {"head", "tail"}]

Stages == InThread \union {"pending", "done", "raised", "cancelled"}

Piece(i, line, part) == [item |-> i, phase |-> line, part |-> part]

Written(e) == \E j \in DOMAIN log : log[j] = e

\* The last piece is a head exactly while its own thread holds the lock.
LockInv ==
  /\ \A i \in logLock :
       /\ logLock = {i}
       /\ work[i] \in {"start", "finish"}
       /\ log # <<>> /\ log[Len(log)] = Piece(i, work[i], "head")
  /\ logLock = {} /\ log # <<>> => log[Len(log)].part = "tail"

\* With a log, who is past the start line has written both its pieces.
StartInv ==
  \A i \in Indices :
    /\ work[i] = "finish" \/ (logging /\ work[i] = "call") =>
         /\ Written(Piece(i, "start", "head"))
         /\ Written(Piece(i, "start", "tail"))
    /\ work[i] = "finish" => logging

\* A head is followed by its tail unless it is the last piece.
PiecesInv ==
  \A k \in DOMAIN log :
    /\ log[k].part = "head" /\ k < Len(log) =>
         log[k + 1] = Piece(log[k].item, log[k].phase, "tail")
    /\ log[k].part = "tail" =>
         k > 1 /\ log[k - 1] = Piece(log[k].item, log[k].phase, "head")
    /\ log[k].phase = "finish" =>
         \E j \in 1..k : log[j] = Piece(log[k].item, "start", log[k].part)

LogTypeOK ==
  /\ log \in Seq(Entry)
  /\ logLock \subseteq Indices
  /\ work \in [Indices -> Stages]

IInv == LogTypeOK /\ LockInv /\ StartInv /\ PiecesInv

(* The items belong to the graph, which no step changes. *)
LEMMA IndicesFixed ==
  ASSUME ueg' = ueg
  PROVE  Indices' = Indices
<1>1. Items' = Items
  BY DEF Items
<1>  QED  BY <1>1 DEF Indices

LEMMA InitIInv == PoolInit => IInv
<1>  SUFFICES ASSUME PoolInit PROVE IInv
  OBVIOUS
<1>1. log = <<>> /\ logLock = {} /\ work = [i \in Indices |-> "pending"]
  BY DEF PoolInit
<1>2. LogTypeOK
  <2>1. <<>> \in Seq(Entry)
    OBVIOUS
  <2>2. work \in [Indices -> Stages]
    BY <1>1 DEF Stages
  <2>  QED  BY <1>1, <2>1, <2>2 DEF LogTypeOK
<1>3. LockInv
  BY <1>1 DEF LockInv
<1>4. StartInv
  BY <1>1 DEF StartInv
<1>5. PiecesInv
  BY <1>1 DEF PiecesInv
<1>  QED  BY <1>2, <1>3, <1>4, <1>5 DEF IInv

(* A step that leaves the log and its lock alone. *)
LEMMA QuietStep ==
  ASSUME IInv, ueg' = ueg, logging' = logging, log' = log, logLock' = logLock,
         work' \in [Indices -> Stages],
         \A i \in Indices :
           /\ i \in logLock => work'[i] = work[i]
           /\ work'[i] = "finish" =>
                \/ work[i] = "finish"
                \/ logging /\ work[i] = "call"
           /\ work'[i] = "call" => work[i] = "call" \/ ~logging
  PROVE  IInv'
<1>1. Indices' = Indices
  BY IndicesFixed
<1>2. Entry' = Entry
  BY <1>1 DEF Entry
<1>3. \A e : Written(e)' <=> Written(e)
  BY DEF Written
<1>4. LogTypeOK'
  BY <1>1, <1>2 DEF IInv, LogTypeOK
<1>5. LockInv'
  BY DEF IInv, LockInv, LogTypeOK
<1>6. StartInv'
  BY <1>1, <1>3 DEF IInv, StartInv
<1>7. PiecesInv'
  BY DEF IInv, PiecesInv
<1>  QED  BY <1>4, <1>5, <1>6, <1>7 DEF IInv

(* What one more piece does to the log. *)
LEMMA OneMorePiece ==
  ASSUME LogTypeOK, NEW e \in Entry, log' = Append(log, e)
  PROVE  /\ Len(log) \in Nat /\ DOMAIN log = 1..Len(log)
         /\ log' \in Seq(Entry)
         /\ Len(log') = Len(log) + 1 /\ DOMAIN log' = 1..Len(log) + 1
         /\ \A k \in 1..Len(log) : log'[k] = log[k]
         /\ log'[Len(log) + 1] = e
         /\ log' # <<>> /\ log'[Len(log')] = e
         /\ \A d : Written(d) => Written(d)'
         /\ Written(e)'
<1>1. log \in Seq(Entry)
  BY DEF LogTypeOK
<1>2. /\ Len(log) \in Nat /\ DOMAIN log = 1..Len(log)
      /\ log' \in Seq(Entry)
      /\ Len(log') = Len(log) + 1 /\ DOMAIN log' = 1..Len(log) + 1
      /\ \A k \in 1..Len(log) : log'[k] = log[k]
      /\ log'[Len(log) + 1] = e
  BY <1>1, AppendFacts
<1>3. log' # <<>> /\ log'[Len(log')] = e
  BY <1>2
<1>4. Written(e)' /\ \A d : Written(d) => Written(d)'
  BY <1>2 DEF Written
<1>  QED  BY <1>2, <1>3, <1>4

(* The pieces before the last one keep their neighbours. *)
LEMMA EarlierPieces ==
  ASSUME PiecesInv, Len(log) \in Nat, DOMAIN log = 1..Len(log),
         \A k \in 1..Len(log) : log'[k] = log[k],
         NEW k \in 1..Len(log)
  PROVE  /\ k < Len(log) /\ log'[k].part = "head" =>
              log'[k + 1] = Piece(log'[k].item, log'[k].phase, "tail")
         /\ log'[k].part = "tail" =>
              k > 1 /\ log'[k - 1] = Piece(log'[k].item, log'[k].phase, "head")
         /\ log'[k].phase = "finish" =>
              \E j \in 1..k : log'[j] = Piece(log'[k].item, "start", log'[k].part)
<1>1. log'[k] = log[k]
  OBVIOUS
<1>2. k < Len(log) => log'[k + 1] = log[k + 1]
  OBVIOUS
<1>3. k > 1 => log'[k - 1] = log[k - 1]
  OBVIOUS
<1>4. \A j \in 1..k : log'[j] = log[j]
  OBVIOUS
<1>5. k < Len(log) /\ log[k].part = "head" =>
        log[k + 1] = Piece(log[k].item, log[k].phase, "tail")
  BY DEF PiecesInv
<1>6. log[k].part = "tail" =>
        k > 1 /\ log[k - 1] = Piece(log[k].item, log[k].phase, "head")
  BY DEF PiecesInv
<1>7. log[k].phase = "finish" =>
        \E j \in 1..k : log[j] = Piece(log[k].item, "start", log[k].part)
  BY DEF PiecesInv
<1>  QED  BY <1>1, <1>2, <1>3, <1>4, <1>5, <1>6, <1>7

LEMMA HeadStep ==
  ASSUME IInv, NEW i \in Indices, BeginLogLine(i)
  PROVE  IInv'
<1>  DEFINE e == Piece(i, work[i], "head")
<1>1. /\ work[i] \in {"start", "finish"} /\ logLock = {} /\ logLock' = {i}
      /\ log' = Append(log, e) /\ Indices' = Indices
      /\ work' = work /\ logging' = logging
  BY IndicesFixed DEF BeginLogLine, Piece
<1>2. e \in Entry
  BY <1>1 DEF Entry, Piece
<1>3. LogTypeOK /\ LockInv /\ StartInv /\ PiecesInv
  BY DEF IInv
<1>4. /\ Len(log) \in Nat /\ DOMAIN log = 1..Len(log)
      /\ log' \in Seq(Entry)
      /\ Len(log') = Len(log) + 1 /\ DOMAIN log' = 1..Len(log) + 1
      /\ \A k \in 1..Len(log) : log'[k] = log[k]
      /\ log'[Len(log) + 1] = e
      /\ log' # <<>> /\ log'[Len(log')] = e
      /\ \A d : Written(d) => Written(d)'
  BY <1>1, <1>2, <1>3, OneMorePiece
<1>5. LogTypeOK'
  BY <1>1, <1>3, <1>4 DEF LogTypeOK, Entry
<1>6. LockInv'
  BY <1>1, <1>4 DEF LockInv
<1>7. StartInv'
  BY <1>1, <1>3, <1>4 DEF StartInv
<1>8. PiecesInv'
  <2>1. e.item = i /\ e.phase = work[i] /\ e.part = "head"
    BY DEF Piece
  <2>2. log # <<>> => log[Len(log)].part = "tail"
    BY <1>1, <1>3 DEF LockInv
  <2>3. ASSUME NEW k \in 1..Len(log)
        PROVE  /\ log'[k].part = "head" /\ k < Len(log') =>
                    log'[k + 1] = Piece(log'[k].item, log'[k].phase, "tail")
               /\ log'[k].part = "tail" =>
                    k > 1 /\ log'[k - 1]
                               = Piece(log'[k].item, log'[k].phase, "head")
               /\ log'[k].phase = "finish" =>
                    \E j \in 1..k : log'[j]
                               = Piece(log'[k].item, "start", log'[k].part)
    <3>1. log'[k] = log[k] /\ log # <<>>
      BY <1>4
    <3>2. k = Len(log) => log[k].part # "head"
      BY <2>2, <3>1
    <3>3. k < Len(log') => k < Len(log) \/ k = Len(log)
      <4>1. Len(log) \in Nat /\ Len(log') = Len(log) + 1
        BY <1>4
      <4>  QED  BY <4>1
    <3>  QED  BY <1>3, <1>4, <3>1, <3>2, <3>3, EarlierPieces
  <2>4. work[i] = "finish" =>
          \E j \in 1..Len(log) : log'[j] = Piece(i, "start", "head")
    BY <1>3, <1>4 DEF StartInv, Written
  <2>  QED  BY <1>4, <2>1, <2>3, <2>4 DEF PiecesInv
<1>  QED  BY <1>5, <1>6, <1>7, <1>8 DEF IInv

LEMMA TailStep ==
  ASSUME IInv, NEW i \in Indices, EndLogLine(i)
  PROVE  IInv'
<1>  DEFINE e == Piece(i, work[i], "tail")
            next == IF work[i] = "start" THEN "call" ELSE "done"
<1>1. LogTypeOK /\ LockInv /\ StartInv /\ PiecesInv
  BY DEF IInv
<1>2. /\ work[i] \in {"start", "finish"} /\ logLock = {i} /\ logLock' = {}
      /\ log # <<>> /\ log[Len(log)] = Piece(i, work[i], "head")
      /\ log' = Append(log, e) /\ Indices' = Indices
      /\ work' = [work EXCEPT ![i] = next] /\ logging' = logging
  <2>1. i \in logLock /\ logLock = {i}
    BY <1>1 DEF EndLogLine, LockInv
  <2>2. /\ work[i] \in {"start", "finish"}
        /\ log # <<>> /\ log[Len(log)] = Piece(i, work[i], "head")
    BY <1>1, <2>1 DEF LockInv
  <2>3. log' = Append(log, e) /\ logLock' = {}
    BY <2>1 DEF EndLogLine, Piece
  <2>4. work' = [work EXCEPT ![i] = next]
    BY DEF EndLogLine
  <2>5. Indices' = Indices /\ logging' = logging
    BY IndicesFixed DEF EndLogLine
  <2>  QED  BY <2>1, <2>2, <2>3, <2>4, <2>5
<1>3. e \in Entry
  BY <1>2 DEF Entry, Piece
<1>4. /\ Len(log) \in Nat /\ DOMAIN log = 1..Len(log)
      /\ log' \in Seq(Entry)
      /\ Len(log') = Len(log) + 1 /\ DOMAIN log' = 1..Len(log) + 1
      /\ \A k \in 1..Len(log) : log'[k] = log[k]
      /\ log'[Len(log) + 1] = e
      /\ log' # <<>> /\ log'[Len(log')] = e
      /\ \A d : Written(d) => Written(d)'
      /\ \E j \in DOMAIN log' : log'[j] = e
  BY <1>1, <1>2, <1>3, OneMorePiece DEF Written
<1>5. LogTypeOK'
  BY <1>1, <1>2, <1>4 DEF LogTypeOK, Entry, Stages, InThread
<1>6. LockInv'
  BY <1>2, <1>4 DEF LockInv, Piece
<1>7. StartInv'
  <2>1. Len(log) \in DOMAIN log
    BY <1>2, <1>4, <1>1 DEF LogTypeOK
  <2>2. Written(Piece(i, work[i], "head"))
    BY <1>2, <2>1 DEF Written
  <2>3. work[i] = "start" => /\ Written(Piece(i, "start", "head"))'
                             /\ Written(Piece(i, "start", "tail"))'
    <3>1. CASE work[i] = "start"
      <4>1. e = Piece(i, "start", "tail")
        BY <3>1
      <4>2. Written(Piece(i, "start", "tail"))'
        BY <1>4, <4>1 DEF Written
      <4>  QED  BY <1>4, <2>2, <3>1, <4>2
    <3>  QED  BY <3>1
  <2>4. work' \in [Indices -> Stages] /\ work'[i] = next
        /\ \A j \in Indices \ {i} : work'[j] = work[j]
    BY <1>1, <1>2 DEF LogTypeOK, Stages, InThread
  <2>5. ASSUME NEW j \in Indices
        PROVE  /\ work'[j] = "finish" \/ (logging' /\ work'[j] = "call") =>
                    /\ Written(Piece(j, "start", "head"))'
                    /\ Written(Piece(j, "start", "tail"))'
               /\ work'[j] = "finish" => logging'
    <3>1. CASE j = i
      BY <3>1, <2>3, <2>4
    <3>2. CASE j # i
      BY <3>2, <1>1, <1>2, <1>4, <2>4 DEF StartInv
    <3>  QED  BY <3>1, <3>2
  <2>  QED  BY <1>2, <2>5 DEF StartInv
<1>8. PiecesInv'
  <2>1. e.item = i /\ e.phase = work[i] /\ e.part = "tail"
    BY DEF Piece
  <2>2. Len(log) \in 1..Len(log) /\ Len(log) > 0
    BY <1>1, <1>2 DEF LogTypeOK
  <2>3. ASSUME NEW k \in 1..Len(log)
        PROVE  /\ log'[k].part = "head" /\ k < Len(log') =>
                    log'[k + 1] = Piece(log'[k].item, log'[k].phase, "tail")
               /\ log'[k].part = "tail" =>
                    k > 1 /\ log'[k - 1]
                               = Piece(log'[k].item, log'[k].phase, "head")
               /\ log'[k].phase = "finish" =>
                    \E j \in 1..k : log'[j]
                               = Piece(log'[k].item, "start", log'[k].part)
    <3>1. log'[k] = log[k]
      BY <1>4
    <3>2. k = Len(log) => log[k].item = i /\ log[k].phase = work[i]
      BY <1>2 DEF Piece
    <3>3. k = Len(log) =>
            log'[k + 1] = Piece(log'[k].item, log'[k].phase, "tail")
      BY <1>4, <3>1, <3>2
    <3>4. k < Len(log') => k < Len(log) \/ k = Len(log)
      <4>1. Len(log) \in Nat /\ Len(log') = Len(log) + 1
        BY <1>4
      <4>  QED  BY <4>1
    <3>  QED  BY <1>1, <1>4, <3>3, <3>4, EarlierPieces
  <2>4. work[i] = "finish" =>
          \E j \in 1..Len(log) : log'[j] = Piece(i, "start", "tail")
    BY <1>1, <1>4 DEF StartInv, Written
  <2>5. log'[Len(log)] = Piece(i, work[i], "head")
    BY <1>2, <1>4, <2>2
  <2>  QED  BY <1>4, <2>1, <2>2, <2>3, <2>4, <2>5 DEF PiecesInv
<1>  QED  BY <1>5, <1>6, <1>7, <1>8 DEF IInv

LEMMA StepIInv == IInv /\ [PoolNext]_poolVars => IInv'
<1>  SUFFICES ASSUME IInv, [PoolNext]_poolVars PROVE IInv'
  OBVIOUS
<1>  USE DEF Stages, InThread
<1>1. /\ work \in [Indices -> Stages]
      /\ \A i \in logLock : logLock = {i} /\ work[i] \in {"start", "finish"}
  BY DEF IInv, LogTypeOK, LockInv
<1>2. ASSUME NEW i \in Indices, StartItem(i) PROVE IInv'
  BY <1>1, <1>2, QuietStep DEF StartItem
<1>3. ASSUME NEW i \in Indices, BeginLogLine(i) PROVE IInv'
  BY <1>3, HeadStep
<1>4. ASSUME NEW i \in Indices, EndLogLine(i) PROVE IInv'
  BY <1>4, TailStep
<1>5. ASSUME NEW i \in Indices, FailLogLine(i) PROVE IInv'
  BY <1>1, <1>5, QuietStep DEF FailLogLine
<1>6. ASSUME NEW i \in Indices, Classify(i) PROVE IInv'
  BY <1>1, <1>6, QuietStep DEF Classify
<1>7. CASE ReadFailure
  BY <1>1, <1>7, QuietStep DEF ReadFailure
<1>8. CASE ReadResult \/ LeavePool \/ Extract \/ UNCHANGED poolVars
  BY <1>1, <1>8, QuietStep DEF ReadResult, LeavePool, Extract, poolVars
<1>  QED
  BY <1>2, <1>3, <1>4, <1>5, <1>6, <1>7, <1>8 DEF PoolNext

-------------------------------------------------------------------------------
(* The candidates.                                                            *)

(* The items are the action nodes of the graph, each once.                   *)
LEMMA ItemsFacts ==
  ASSUME skill \in Skills, ueg = Compose(skill)
  PROVE  /\ Items \in Seq(NodesOf(ueg)) /\ Len(Items) \in Nat
         /\ Indices = 1..Len(Items)
         /\ \A i \in Indices : Items[i] \in NodesOf(ueg) /\ IsAction(ueg, Items[i])
         /\ \A i, j \in Indices : Items[i] = Items[j] => i = j
<1>  DEFINE N == NodesOf(ueg)
            s == ueg.nodes
            A == {n \in N : IsAction(ueg, n)}
            t == Filter(s, A)
<1>1. s \in Seq(N) /\ IsInjective(s)
  BY SkillsAssumption
<1>2. Items = t /\ t \in Seq(N)
  <2>1. \A X : \A u \in Seq(X) : \A S : Filter(u, S) \in Seq(X)
    BY FilterAppend
  <2>  HIDE DEF N, s, A
  <2>2. t \in Seq(N)
    BY <1>1, <2>1
  <2>  QED  BY <2>2 DEF Items, ActionsOf, N, s, A
<1>3. PICK pos \in [1..Len(t) -> 1..Len(s)] :
         /\ \A k \in 1..Len(t) : t[k] = s[pos[k]] /\ s[pos[k]] \in A
         /\ \A j, k \in 1..Len(t) : j < k => pos[j] < pos[k]
  <2>1. \A u \in Seq(N) : \A S :
          \E p \in [1..Len(Filter(u, S)) -> 1..Len(u)] :
            /\ \A k \in 1..Len(Filter(u, S)) :
                 Filter(u, S)[k] = u[p[k]] /\ u[p[k]] \in S
            /\ \A j, k \in 1..Len(Filter(u, S)) : j < k => p[j] < p[k]
    BY FilterPlaces
  <2>  HIDE DEF N, s, A
  <2>  QED  BY <1>1, <2>1
<1>  HIDE DEF t
<1>4. Len(t) \in Nat /\ DOMAIN t = 1..Len(t) /\ \A k \in 1..Len(t) : t[k] \in N
  <2>  HIDE DEF N
  <2>  QED  BY <1>2
<1>5. \A j, k \in 1..Len(t) : t[j] = t[k] => j = k
  <2>1. \A j, k \in 1..Len(t) : pos[j] = pos[k] => j = k
    <3>1. \A k \in 1..Len(t) : pos[k] \in 1..Len(s)
      OBVIOUS
    <3>2. Len(s) \in Nat
      <4>  HIDE DEF N, s
      <4>  QED  BY <1>1
    <3>  HIDE DEF s
    <3>  QED  BY <1>3, <1>4, <3>1, <3>2
  <2>2. DOMAIN s = 1..Len(s)
    <3>  HIDE DEF N, s
    <3>  QED  BY <1>1
  <2>3. \A a, b \in 1..Len(s) : s[a] = s[b] => a = b
    BY <1>1, <2>2 DEF IsInjective
  <2>  HIDE DEF s
  <2>  QED  BY <1>3, <2>1, <2>3
<1>6. \A k \in 1..Len(t) : IsAction(ueg, t[k])
  BY <1>3
<1>  QED  BY <1>2, <1>4, <1>5, <1>6 DEF Indices

(* What the reader has passed is done, what is done has a label, and an       *)
(* extraction selects only when it has read every result.                    *)
OrderInv ==
  /\ skill \in Skills /\ ueg = Compose(skill)
  /\ label \in [Indices -> Labels \union {"none"}]
  /\ \A i \in Indices : work[i] \in {"finish", "done"} => label[i] \in Labels
  /\ reader \in 1..(Len(Items) + 1)
  /\ \A j \in 1..(reader - 1) : work[j] = "done"
  /\ outcome = "extracted" =>
       reader = Len(Items) + 1 /\ candidates = SelectCandidates

LEMMA InitOrder == PoolInit => OrderInv
<1>  SUFFICES ASSUME PoolInit PROVE OrderInv
  OBVIOUS
<1>1. /\ skill \in Skills /\ ueg = Compose(skill) /\ reader = 1 /\ outcome = "running"
      /\ work = [i \in Indices |-> "pending"] /\ label = [i \in Indices |-> "none"]
  BY DEF PoolInit
<1>2. Len(Items) \in Nat
  BY <1>1, ItemsFacts
<1>  QED  BY <1>1, <1>2 DEF OrderInv

LEMMA StepOrder == IInv /\ OrderInv /\ [PoolNext]_poolVars => OrderInv'
<1>  SUFFICES ASSUME IInv, OrderInv, [PoolNext]_poolVars PROVE OrderInv'
  OBVIOUS
<1>1. /\ skill \in Skills /\ ueg = Compose(skill)
      /\ Len(Items) \in Nat /\ Indices = 1..Len(Items)
      /\ work \in [Indices -> Stages]
      /\ label \in [Indices -> Labels \union {"none"}]
      /\ reader \in 1..(Len(Items) + 1) /\ 1..(reader - 1) \subseteq Indices
  <2>1. skill \in Skills /\ ueg = Compose(skill)
    BY DEF OrderInv
  <2>2. Len(Items) \in Nat /\ Indices = 1..Len(Items)
    BY <2>1, ItemsFacts
  <2>  QED  BY <2>1, <2>2 DEF OrderInv, IInv, LogTypeOK
<1>2. ueg' = ueg => Items' = Items /\ Indices' = Indices
  BY IndicesFixed DEF Items
<1>3. ASSUME UNCHANGED <<skill, ueg, label>>
      PROVE  SelectCandidates' = SelectCandidates
  BY <1>2, <1>3 DEF SelectCandidates, Retained
\* One item moves on, and only one that is not done.
<1>4. ASSUME NEW i \in Indices, work[i] # "done",
             UNCHANGED <<skill, ueg, reader, outcome, candidates>>,
             \A j \in Indices \ {i} : work'[j] = work[j] /\ label'[j] = label[j],
             label' \in [Indices -> Labels \union {"none"}],
             work'[i] \in {"finish", "done"} => label'[i] \in Labels
      PROVE  OrderInv'
  <2>1. outcome # "extracted"
    BY <1>1, <1>4 DEF OrderInv
  <2>2. \A j \in 1..(reader - 1) : j # i
    BY <1>4 DEF OrderInv
  <2>3. \A j \in 1..(reader - 1) : work'[j] = "done"
    BY <1>1, <1>4, <2>2 DEF OrderInv
  <2>  QED  BY <1>1, <1>2, <1>4, <2>1, <2>3 DEF OrderInv
<1>5. ASSUME NEW i \in Indices, StartItem(i) PROVE OrderInv'
  <2>1. /\ work[i] = "pending" /\ UNCHANGED <<skill, ueg, label, reader, outcome, candidates>>
        /\ work' = [work EXCEPT ![i] = IF logging THEN "start" ELSE "call"]
    BY <1>5 DEF StartItem
  <2>  QED  BY <1>1, <1>4, <2>1
<1>6. ASSUME NEW i \in Indices, EndLogLine(i) PROVE OrderInv'
  <2>1. /\ work[i] \in {"start", "finish"}
        /\ UNCHANGED <<skill, ueg, label, reader, outcome, candidates>>
        /\ work' = [work EXCEPT ![i] = IF @ = "start" THEN "call" ELSE "done"]
    BY <1>6 DEF EndLogLine
  <2>2. work'[i] = (IF work[i] = "start" THEN "call" ELSE "done")
        /\ \A j \in Indices \ {i} : work'[j] = work[j]
    BY <1>1, <2>1
  <2>3. work'[i] \in {"finish", "done"} => label[i] \in Labels
    BY <2>1, <2>2 DEF OrderInv
  <2>  QED  BY <1>1, <1>4, <2>1, <2>2, <2>3
<1>7. ASSUME NEW i \in Indices, FailLogLine(i) PROVE OrderInv'
  <2>1. /\ work[i] \in {"start", "finish"}
        /\ UNCHANGED <<skill, ueg, label, reader, outcome, candidates>>
        /\ work' = [work EXCEPT ![i] = "raised"]
    BY <1>7 DEF FailLogLine
  <2>  QED  BY <1>1, <1>4, <2>1
<1>8. ASSUME NEW i \in Indices, Classify(i) PROVE OrderInv'
  <2>1. PICK l \in Labels : label' = [label EXCEPT ![i] = l]
    BY <1>8 DEF Classify
  <2>2. /\ work[i] = "call" /\ UNCHANGED <<skill, ueg, reader, outcome, candidates>>
        /\ work' = [work EXCEPT ![i] = IF logging THEN "finish" ELSE "done"]
    BY <1>8 DEF Classify
  <2>  QED  BY <1>1, <1>4, <2>1, <2>2
<1>9. ASSUME NEW i \in Indices, BeginLogLine(i) PROVE OrderInv'
  BY <1>2, <1>3, <1>9 DEF BeginLogLine, OrderInv
<1>10. CASE ReadResult
  <2>1. /\ reader \in Indices /\ work[reader] = "done" /\ reader' = reader + 1
        /\ outcome = "running"
        /\ UNCHANGED <<skill, ueg, work, label, outcome, candidates>>
    BY <1>10 DEF ReadResult
  <2>2. \A j \in 1..(reader' - 1) : work'[j] = "done"
    <3>1. \A j \in 1..(reader' - 1) : j = reader \/ j \in 1..(reader - 1)
      BY <1>1, <2>1
    <3>  QED  BY <2>1, <3>1 DEF OrderInv
  <2>  QED  BY <1>1, <1>2, <2>1, <2>2 DEF OrderInv
<1>11. CASE ReadFailure
  <2>1. /\ outcome' = "closing"
        /\ UNCHANGED <<skill, ueg, label, reader, candidates>>
        /\ work' = [i \in Indices |-> IF work[i] = "pending" THEN "cancelled" ELSE work[i]]
    BY <1>11 DEF ReadFailure
  <2>2. \A i \in Indices : /\ work'[i] \in {"finish", "done"} => work'[i] = work[i]
                           /\ work[i] = "done" => work'[i] = "done"
    BY <2>1
  <2>  QED  BY <1>1, <1>2, <2>1, <2>2 DEF OrderInv
<1>12. CASE Extract
  <2>1. /\ reader = Len(Items) + 1 /\ candidates' = SelectCandidates
        /\ UNCHANGED <<skill, ueg, work, label, reader>>
    BY <1>12 DEF Extract
  <2>  QED  BY <1>2, <1>3, <2>1 DEF OrderInv
<1>13. CASE LeavePool \/ UNCHANGED poolVars
  <2>1. UNCHANGED <<skill, ueg, work, label, reader, candidates>>
        /\ (outcome' = "extracted" => outcome = "extracted")
    BY <1>13 DEF LeavePool, poolVars
  <2>  QED  BY <1>2, <1>3, <2>1 DEF OrderInv
<1>  QED
  BY <1>5, <1>6, <1>7, <1>8, <1>9, <1>10, <1>11, <1>12, <1>13 DEF PoolNext

(* What is selected: the retained items, in their order.                     *)
LEMMA SelectionFacts ==
  ASSUME skill \in Skills, ueg = Compose(skill)
  PROVE  /\ SelectCandidates \in Seq(NodesOf(ueg))
         /\ \E at \in [DOMAIN SelectCandidates -> Indices] :
              /\ \A k \in DOMAIN SelectCandidates : SelectCandidates[k] = Items[at[k]]
              /\ \A j, k \in DOMAIN SelectCandidates : j < k => at[j] < at[k]
         /\ \A i \in Indices :
              Items[i] \in Range(SelectCandidates) <=> Retained(Items[i], label[i])
<1>  DEFINE n == Len(Items)
            keep == {i \in Indices : Retained(Items[i], label[i])}
            id == [i \in Indices |-> i]
            kept == Filter(id, keep)
            sel == SelectCandidates
<1>1. /\ n \in Nat /\ Indices = 1..n
      /\ \A i \in Indices : Items[i] \in NodesOf(ueg)
      /\ \A i, j \in Indices : Items[i] = Items[j] => i = j
  BY ItemsFacts
<1>2. sel = [k \in DOMAIN kept |-> Items[kept[k]]]
  BY DEF SelectCandidates
<1>  HIDE DEF n, sel
<1>3. id \in Seq(Indices) /\ Len(id) = n /\ DOMAIN id = 1..n /\ \A i \in 1..n : id[i] = i
  BY <1>1
<1>4. keep \subseteq Indices
  OBVIOUS
<1>  HIDE DEF id, keep
<1>5. kept \in Seq(Indices)
  <2>1. \A S : \A u \in Seq(Indices) : Filter(u, S) \in Seq(Indices)
    BY FilterAppend
  <2>  QED  BY <1>3, <2>1
<1>6. PICK pos \in [1..Len(kept) -> 1..Len(id)] :
         /\ \A k \in 1..Len(kept) : kept[k] = id[pos[k]] /\ id[pos[k]] \in keep
         /\ \A j, k \in 1..Len(kept) : j < k => pos[j] < pos[k]
         /\ \A i \in 1..Len(id) : id[i] \in keep => \E k \in 1..Len(kept) : pos[k] = i
  BY <1>3, FilterPlaces
<1>7. DOMAIN kept = 1..Len(kept) /\ Len(kept) \in Nat
  BY <1>5
<1>  HIDE DEF kept
<1>8. \A k \in 1..Len(kept) : kept[k] = pos[k] /\ kept[k] \in keep /\ kept[k] \in 1..n
  BY <1>3, <1>6
<1>9. DOMAIN sel = 1..Len(kept) /\ Len(sel) = Len(kept)
      /\ \A k \in 1..Len(kept) : sel[k] = Items[kept[k]]
  BY <1>2, <1>7
<1>10. sel \in Seq(NodesOf(ueg))
  <2>1. \A k \in 1..Len(kept) : Items[kept[k]] \in NodesOf(ueg)
    BY <1>1, <1>8
  <2>  DEFINE N == NodesOf(ueg)
  <2>  HIDE DEF N
  <2>2. sel = [k \in 1..Len(kept) |-> Items[kept[k]]]
    BY <1>2, <1>7
  <2>3. sel \in Seq(N)
    BY <1>7, <2>1, <2>2 DEF N
  <2>  QED  BY <2>3 DEF N
<1>11. \E at \in [DOMAIN sel -> Indices] :
         /\ \A k \in DOMAIN sel : sel[k] = Items[at[k]]
         /\ \A j, k \in DOMAIN sel : j < k => at[j] < at[k]
  <2>  DEFINE at == [k \in 1..Len(kept) |-> kept[k]]
  <2>1. at \in [1..Len(kept) -> Indices] /\ \A k \in 1..Len(kept) : at[k] = kept[k]
    BY <1>1, <1>8
  <2>  HIDE DEF at
  <2>2. \A j, k \in 1..Len(kept) : j < k => at[j] < at[k]
    BY <1>6, <1>8, <2>1
  <2>  QED  BY <1>9, <2>1, <2>2
<1>12. ASSUME NEW i \in Indices
       PROVE  Items[i] \in Range(sel) <=> i \in keep
  <2>1. ASSUME i \in keep PROVE Items[i] \in Range(sel)
    <3>1. PICK k \in 1..Len(kept) : pos[k] = i
      BY <1>1, <1>3, <1>6, <2>1
    <3>2. sel[k] = Items[i] /\ k \in DOMAIN sel
      BY <1>8, <1>9, <3>1
    <3>  QED  BY <3>2 DEF Range
  <2>2. ASSUME Items[i] \in Range(sel) PROVE i \in keep
    <3>1. PICK k \in 1..Len(kept) : sel[k] = Items[i]
      BY <1>9, <2>2 DEF Range
    <3>  QED  BY <1>1, <1>8, <1>9, <3>1
  <2>  QED  BY <2>1, <2>2
<1>  QED  BY <1>10, <1>11, <1>12 DEF sel, keep

-------------------------------------------------------------------------------
(* The inductive invariant of the log, for any number of threads             *)
(* (client.py 34-47).                                                        *)
THEOREM SpecIInv == PoolSpec => []IInv
  BY InitIInv, StepIInv, PTL DEF PoolSpec

(* The lines of the debug log are whole, and a finish line follows its start *)
(* line (client.py 34-47).                                                   *)
THEOREM LogIsWhole == PoolSpec => []LogLinesAreWhole
<1>1. IInv => LogLinesAreWhole
  <2>  SUFFICES ASSUME IInv PROVE LogLinesAreWhole
    OBVIOUS
  <2>1. log \in Seq(Entry) /\ PiecesInv
    BY DEF IInv, LogTypeOK
  <2>2. ASSUME NEW k \in DOMAIN log
        PROVE  /\ log[k].part = "head" =>
                    [log[k] EXCEPT !.part = "tail"]
                      = Piece(log[k].item, log[k].phase, "tail")
               /\ log[k].part = "tail" =>
                    [log[k] EXCEPT !.part = "head"]
                      = Piece(log[k].item, log[k].phase, "head")
               /\ [log[k] EXCEPT !.phase = "start"]
                      = Piece(log[k].item, "start", log[k].part)
    <3>1. log[k] \in Entry
      BY <2>1, ElementType
    <3>  QED  BY <3>1 DEF Entry, Piece
  <2>  QED  BY <2>1, <2>2 DEF LogLinesAreWhole, PiecesInv
<1>  QED  BY <1>1, SpecIInv, PTL

(* Whatever order the threads run in, the candidates are the retained         *)
(* actions in the order of the graph (candidate_extractor.py 57-144).         *)
THEOREM CandidatesKeepOrder == PoolSpec => []CandidatesInSourceOrder
<1>1. OrderInv => CandidatesInSourceOrder
  <2>  SUFFICES ASSUME OrderInv, outcome = "extracted" PROVE CandidatesInSourceOrder
    BY DEF CandidatesInSourceOrder
  <2>1. /\ skill \in Skills /\ ueg = Compose(skill) /\ candidates = SelectCandidates
        /\ reader = Len(Items) + 1
    BY DEF OrderInv
  <2>2. /\ Len(Items) \in Nat /\ Indices = 1..Len(Items)
        /\ \A i, j \in Indices : Items[i] = Items[j] => i = j
    BY <2>1, ItemsFacts
  <2>3. \A i \in Indices : work[i] = "done" /\ label[i] \in Labels
    BY <2>1, <2>2 DEF OrderInv
  <2>4. /\ candidates \in Seq(NodesOf(ueg))
        /\ \E at \in [DOMAIN candidates -> Indices] :
             /\ \A k \in DOMAIN candidates : candidates[k] = Items[at[k]]
             /\ \A j, k \in DOMAIN candidates : j < k => at[j] < at[k]
        /\ \A i \in Indices :
             Items[i] \in Range(candidates) <=> Retained(Items[i], label[i])
    BY <2>1, SelectionFacts
  <2>5. PICK at \in [DOMAIN candidates -> Indices] :
             /\ \A k \in DOMAIN candidates : candidates[k] = Items[at[k]]
             /\ \A j, k \in DOMAIN candidates : j < k => at[j] < at[k]
    BY <2>4
  <2>6. \A k \in DOMAIN candidates : Position(candidates[k]) = at[k]
    BY <2>2, <2>5 DEF Position
  <2>7. ASSUME NEW k \in DOMAIN candidates, k > 1
        PROVE  Position(candidates[k - 1]) < Position(candidates[k])
    <3>1. k - 1 \in DOMAIN candidates /\ k - 1 < k
      BY <2>4, <2>7
    <3>  QED  BY <2>5, <2>6, <3>1
  <2>8. ASSUME NEW i \in Indices
        PROVE  /\ work[i] = "done" /\ label[i] # "none"
               /\ Items[i] \in skill.privileged => Items[i] \in Range(candidates)
               /\ Items[i] \notin skill.privileged =>
                    (Items[i] \in Range(candidates) <=> label[i] # "related")
    BY <2>3, <2>4 DEF Labels, Retained
  <2>  QED  BY <2>7, <2>8 DEF CandidatesInSourceOrder
<1>2. PoolSpec => []OrderInv
  BY InitIInv, StepIInv, InitOrder, StepOrder, PTL DEF PoolSpec
<1>  QED  BY <1>1, <1>2, PTL

-------------------------------------------------------------------------------
(* The paths of a graph.                                                      *)

WellFormed(g) ==
  /\ IsFiniteSet(NodesOf(g))
  /\ \A n \in NodesOf(g) : g.succ[n] \in Seq(NodesOf(g))

\* A path from start that visits no node twice and goes through no stop.
IsPath(g, start, stop, p) ==
  /\ p \in Seq(NodesOf(g)) /\ p # <<>> /\ p[1] = start
  /\ \A i, j \in 1..Len(p) : p[i] = p[j] => i = j
  /\ \A i \in 1..(Len(p) - 1) :
       p[i] \notin stop /\ p[i + 1] \in Range(g.succ[p[i]])

LEMMA UegWellFormed ==
  ASSUME skill \in Skills, ueg = Compose(skill)
  PROVE  WellFormed(ueg)
<1>  DEFINE N == NodesOf(ueg)
<1>1. ueg.nodes \in Seq(N) /\ \A n \in N : ueg.succ[n] \in Seq(N)
  BY SkillsAssumption
<1>2. N = ToSet(ueg.nodes)
  BY DEF NodesOf, Range, ToSet
<1>3. IsFiniteSet(N)
  <2>1. \A s \in Seq(N) : IsFiniteSet(ToSet(s))
    BY ElementsFinite
  <2>  HIDE DEF N
  <2>  QED  BY <1>1, <1>2, <2>1
<1>  QED  BY <1>1, <1>3 DEF WellFormed

(* A path is no longer than the graph has nodes. *)
LEMMA PathLength ==
  ASSUME NEW g, WellFormed(g), NEW start, NEW stop, NEW p, IsPath(g, start, stop, p)
  PROVE  /\ Len(p) \in 1..Cardinality(NodesOf(g))
         /\ Cardinality(NodesOf(g)) \in Nat
         /\ DOMAIN p = 1..Len(p) /\ \A i \in 1..Len(p) : p[i] \in NodesOf(g)
<1>  DEFINE N == NodesOf(g)
            n == Len(p)
            f == [i \in 1..n |-> p[i]]
<1>1. p \in Seq(N) /\ p # <<>> /\ IsFiniteSet(N)
      /\ \A i, j \in 1..n : p[i] = p[j] => i = j
  BY DEF IsPath, WellFormed
<1>2. n \in Nat \ {0} /\ DOMAIN p = 1..n /\ \A i \in 1..n : p[i] \in N
  <2>  HIDE DEF N
  <2>  QED  BY <1>1
<1>3. f \in Injection(1..n, N)
  <2>  HIDE DEF N, n
  <2>  QED  BY <1>1, <1>2 DEF Injection, IsInjective
<1>4. Cardinality(1..n) = n /\ Cardinality(N) \in Nat
  <2>  HIDE DEF N, n
  <2>  QED  BY <1>1, <1>2, FS_Interval, FS_CardinalityType
<1>5. Cardinality(1..n) <= Cardinality(N)
  <2>  HIDE DEF N, n, f
  <2>  QED  BY <1>1, <1>3, FS_Injection
<1>  QED  BY <1>2, <1>4, <1>5

(* One node more. *)
LEMMA LongerPath ==
  ASSUME NEW g, WellFormed(g), NEW start, NEW stop, NEW p, IsPath(g, start, stop, p),
         Last(p) \notin stop, NEW m \in Onward(g, p)
  PROVE  IsPath(g, start, stop, Append(p, m)) /\ Len(Append(p, m)) = Len(p) + 1
<1>  DEFINE N == NodesOf(g)
            n == Len(p)
            q == Append(p, m)
<1>1. /\ p \in Seq(N) /\ p # <<>> /\ p[1] = start
      /\ \A i, j \in 1..n : p[i] = p[j] => i = j
      /\ \A i \in 1..(n - 1) : p[i] \notin stop /\ p[i + 1] \in Range(g.succ[p[i]])
  BY DEF IsPath
<1>2. n \in Nat \ {0} /\ DOMAIN p = 1..n /\ \A i \in 1..n : p[i] \in N
  BY PathLength
<1>3. p[n] \notin stop /\ m \in Range(g.succ[p[n]]) /\ \A i \in 1..n : p[i] # m
  BY <1>2 DEF Last, Onward, Range
<1>4. m \in N
  <2>1. g.succ[p[n]] \in Seq(N)
    BY <1>2 DEF WellFormed
  <2>  DEFINE s == g.succ[p[n]]
  <2>2. m \in Range(s)
    BY <1>3
  <2>  HIDE DEF N, s
  <2>3. \A x \in Range(s) : s \in Seq(N) => x \in N
    BY DEF Range
  <2>  QED  BY <2>1, <2>2, <2>3 DEF s
<1>  HIDE DEF N
<1>5. /\ q \in Seq(N) /\ Len(q) = n + 1 /\ q # <<>> /\ q[n + 1] = m
      /\ \A i \in 1..n : q[i] = p[i]
  BY <1>1, <1>4
<1>  HIDE DEF q
<1>6. \A i \in 1..(n + 1) : i = n + 1 \/ i \in 1..n
  BY <1>2
<1>7. \A i, j \in 1..(n + 1) : q[i] = q[j] => i = j
  BY <1>1, <1>3, <1>5, <1>6
<1>8. ASSUME NEW i \in 1..n PROVE q[i] \notin stop /\ q[i + 1] \in Range(g.succ[q[i]])
  <2>1. CASE i = n
    BY <1>3, <1>5, <2>1
  <2>2. CASE i # n
    <3>1. i \in 1..(n - 1) /\ i + 1 \in 1..n
      <4>1. n \in Nat
        BY <1>2
      <4>  HIDE DEF n
      <4>  QED  BY <2>2, <4>1
    <3>  QED  BY <1>1, <1>5, <3>1
  <2>  QED  BY <2>1, <2>2
<1>9. q[1] = start /\ (n + 1) - 1 = n
  BY <1>1, <1>2, <1>5
<1>  QED  BY <1>5, <1>7, <1>8, <1>9 DEF IsPath, q, N

(* A longer path is one node more than a path. *)
LEMMA ShorterPath ==
  ASSUME NEW g, WellFormed(g), NEW start, NEW stop, NEW p, IsPath(g, start, stop, p),
         Len(p) # 1
  PROVE  \E q : /\ IsPath(g, start, stop, q) /\ Len(q) = Len(p) - 1
                /\ Last(q) \notin stop
                /\ \E m \in Onward(g, q) : p = Append(q, m)
<1>  DEFINE N == NodesOf(g)
            n == Len(p)
            q == [i \in 1..(n - 1) |-> p[i]]
            m == p[n]
<1>1. /\ p \in Seq(N) /\ p # <<>> /\ p[1] = start
      /\ \A i, j \in 1..n : p[i] = p[j] => i = j
      /\ \A i \in 1..(n - 1) : p[i] \notin stop /\ p[i + 1] \in Range(g.succ[p[i]])
  BY DEF IsPath
<1>2. n \in Nat \ {0, 1} /\ DOMAIN p = 1..n /\ \A i \in 1..n : p[i] \in N
  BY PathLength
<1>  HIDE DEF N
<1>3. /\ q \in Seq(N) /\ Len(q) = n - 1 /\ q # <<>> /\ DOMAIN q = 1..(n - 1)
      /\ \A i \in 1..(n - 1) : q[i] = p[i]
  <2>1. \A i \in 1..(n - 1) : p[i] \in N
    BY <1>2
  <2>  HIDE DEF n
  <2>  QED  BY <1>2, <2>1
<1>  HIDE DEF q
<1>4. p = Append(q, m)
  <2>  DEFINE w == Append(q, m)
  <2>1. m \in N
    BY <1>2
  <2>  HIDE DEF m, n
  <2>2. w \in Seq(N) /\ Len(w) = n /\ w[n] = m /\ \A i \in 1..(n - 1) : w[i] = q[i]
    BY <1>2, <1>3, <2>1
  <2>3. \A i \in 1..n : i = n \/ i \in 1..(n - 1)
    BY <1>2
  <2>4. p[n] = m /\ Len(p) = n
    BY DEF m, n
  <2>  HIDE DEF w
  <2>5. \A i \in 1..n : w[i] = p[i]
    BY <1>3, <2>2, <2>3, <2>4
  <2>6. w = p
    BY <1>1, <2>2, <2>4, <2>5
  <2>  QED  BY <2>6 DEF w
<1>5. \A i \in 1..(n - 1) : i \in 1..n /\ (i \in 1..(n - 2) => i + 1 \in 1..(n - 1))
  BY <1>2
<1>6. IsPath(g, start, stop, q)
  <2>1. \A i, j \in 1..(n - 1) : q[i] = q[j] => i = j
    BY <1>1, <1>3, <1>5
  <2>20. \A k \in Nat : \A i \in 1..((k - 1) - 1) : i \in 1..(k - 1) /\ i + 1 \in 1..(k - 1)
    OBVIOUS
  <2>2. \A i \in 1..((n - 1) - 1) : q[i] \notin stop /\ q[i + 1] \in Range(g.succ[q[i]])
    <3>  TAKE i \in 1..((n - 1) - 1)
    <3>1. i \in 1..(n - 1) /\ i + 1 \in 1..(n - 1)
      BY <1>2, <2>20
    <3>  QED  BY <1>1, <1>3, <3>1
  <2>3. q[1] = start
    BY <1>1, <1>2, <1>3
  <2>  QED  BY <1>3, <2>1, <2>2, <2>3 DEF IsPath, N
<1>7. Last(q) = p[n - 1] /\ n - 1 \in 1..(n - 1) /\ (n - 1) + 1 = n
  BY <1>2, <1>3 DEF Last
<1>8. Last(q) \notin stop /\ m \in Range(g.succ[Last(q)])
  BY <1>1, <1>7
<1>9. m \notin Range(q)
  <2>1. \A i \in 1..(n - 1) : q[i] # m
    <3>1. \A k \in Nat \ {0} : k \in 1..k /\ \A i \in 1..(k - 1) : i # k
      OBVIOUS
    <3>2. n \in 1..n /\ \A i \in 1..(n - 1) : i # n
      BY <1>2, <3>1
    <3>  QED  BY <1>1, <1>3, <1>5, <3>2
  <2>  QED  BY <1>3, <2>1 DEF Range
<1>10. m \in Onward(g, q)
  BY <1>8, <1>9 DEF Onward
<1>  HIDE DEF m
<1>  QED  BY <1>3, <1>4, <1>6, <1>8, <1>10

(* The task paths of the reference definition are the paths.                  *)
LEMMA SimplePathsAre ==
  ASSUME NEW g, WellFormed(g), NEW start \in NodesOf(g), NEW stop
  PROVE  \A p : p \in SimplePaths(g, start, stop) <=> IsPath(g, start, stop, p)
<1>  DEFINE U == SUBSET Seq(NodesOf(g))
            N == Cardinality(NodesOf(g))
            n == N - 1
            Longer(A) == UNION {{Append(p, m) : m \in Onward(g, p)} :
                                  p \in {q \in A : Last(q) \notin stop}}
            All(k) == {p \in Seq(NodesOf(g)) : IsPath(g, start, stop, p) /\ Len(p) = k}
            Eq(h) == h = [k \in 1..N |-> IF k = 1 THEN {<<start>>} ELSE Longer(h[k - 1])]
            ofLength == CHOOSE h : Eq(h)
<1>1. N \in Nat \ {0} /\ n \in Nat
  <2>1. IsFiniteSet(NodesOf(g)) /\ NodesOf(g) # {}
    BY DEF WellFormed
  <2>2. Cardinality(NodesOf(g)) \in Nat /\ Cardinality(NodesOf(g)) # 0
    BY <2>1, FS_CardinalityType, FS_EmptySet
  <2>  QED  BY <2>2
<1>2. All(1) = {<<start>>}
  <2>1. <<start>> \in All(1)
    <3>1. <<start>> \in Seq(NodesOf(g)) /\ Len(<<start>>) = 1 /\ <<start>>[1] = start
          /\ <<start>> # <<>>
      OBVIOUS
    <3>2. IsPath(g, start, stop, <<start>>)
      BY <3>1 DEF IsPath
    <3>  QED  BY <3>1, <3>2
  <2>2. ASSUME NEW p \in All(1) PROVE p = <<start>>
    <3>1. p \in Seq(NodesOf(g)) /\ Len(p) = 1 /\ p[1] = start
      BY <2>2 DEF IsPath
    <3>  QED  BY <3>1
  <2>  QED  BY <2>1, <2>2
<1>3. ASSUME NEW k \in 2..N PROVE All(k) = Longer(All(k - 1))
  <2>1. ASSUME NEW x \in Longer(All(k - 1)) PROVE x \in All(k)
    <3>1. PICK p \in All(k - 1) : Last(p) \notin stop /\ \E m \in Onward(g, p) : x = Append(p, m)
      BY <2>1
    <3>2. IsPath(g, start, stop, p) /\ Len(p) = k - 1
      OBVIOUS
    <3>3. IsPath(g, start, stop, x) /\ Len(x) = Len(p) + 1
      BY <3>1, <3>2, LongerPath
    <3>  QED  BY <3>2, <3>3 DEF IsPath
  <2>2. ASSUME NEW x \in All(k) PROVE x \in Longer(All(k - 1))
    <3>1. IsPath(g, start, stop, x) /\ Len(x) = k /\ Len(x) # 1
      BY <2>2
    <3>2. PICK q : /\ IsPath(g, start, stop, q) /\ Len(q) = Len(x) - 1
                   /\ Last(q) \notin stop
                   /\ \E m \in Onward(g, q) : x = Append(q, m)
      <4>1. \A p : IsPath(g, start, stop, p) /\ Len(p) # 1 =>
              \E q : /\ IsPath(g, start, stop, q) /\ Len(q) = Len(p) - 1
                     /\ Last(q) \notin stop
                     /\ \E m \in Onward(g, q) : p = Append(q, m)
        BY ShorterPath
      <4>  HIDE DEF All, Longer, N
      <4>  QED  BY <3>1, <4>1
    <3>3. q \in All(k - 1)
      BY <3>1, <3>2 DEF IsPath
    <3>  QED  BY <3>2, <3>3
  <2>  QED  BY <2>1, <2>2
<1>  HIDE DEF Longer, All
<1>4. Eq(ofLength)
  <2>  DEFINE h == [k \in 1..N |-> All(k)]
  <2>1. \A k \in 1..N : h[k] = IF k = 1 THEN {<<start>>} ELSE Longer(h[k - 1])
    <3>  TAKE k \in 1..N
    <3>1. k = 1 \/ (k \in 2..N /\ k - 1 \in 1..N)
      BY <1>1
    <3>  HIDE DEF N
    <3>  QED  BY <1>2, <1>3, <3>1
  <2>2. h = [k \in 1..N |-> h[k]]
    OBVIOUS
  <2>3. Eq(h)
    <3>  HIDE DEF h, N
    <3>  QED  BY <2>1, <2>2
  <2>4. \E w : Eq(w)
    BY <2>3
  <2>  HIDE DEF Eq
  <2>  QED  BY <2>4
<1>5. \A k \in 1..N : ofLength[k] = IF k = 1 THEN {<<start>>} ELSE Longer(ofLength[k - 1])
  <2>  HIDE DEF ofLength, N
  <2>  QED  BY <1>4
<1>6. SimplePaths(g, start, stop) = UNION {ofLength[k] : k \in DOMAIN ofLength}
  BY DEF SimplePaths, Longer
<1>7. DOMAIN ofLength = 1..N
  <2>  HIDE DEF ofLength, N
  <2>  QED  BY <1>4
<1>  HIDE DEF ofLength, Eq
<1>8. \A k \in 1..N : ofLength[k] = All(k)
  <2>  DEFINE T == {m \in 0..n : ofLength[m + 1] = All(m + 1)}
  <2>1. 0 \in T
    <3>1. ofLength[1] = All(1)
      BY <1>1, <1>2, <1>5
    <3>  HIDE DEF n
    <3>  QED  BY <1>1, <3>1
  <2>2. ASSUME NEW m \in 1..n, m - 1 \in T PROVE m \in T
    <3>1. m + 1 \in 2..N /\ m + 1 \in 1..N /\ (m + 1) - 1 = m /\ (m - 1) + 1 = m /\ m \in 0..n
          /\ m + 1 # 1
      BY <1>1
    <3>2. ofLength[m] = All(m)
      BY <2>2, <3>1
    <3>3. ofLength[m + 1] = Longer(ofLength[m]) /\ All(m + 1) = Longer(All(m))
      BY <1>3, <1>5, <3>1
    <3>  HIDE DEF n, N
    <3>  QED  BY <3>1, <3>2, <3>3
  <2>3. \A m \in 0..n : m \in T
    <3>  HIDE DEF T, n
    <3>  QED  BY <1>1, <2>1, <2>2, InductionUpTo
  <2>4. \A k \in 1..N : k - 1 \in 0..n /\ (k - 1) + 1 = k
    BY <1>1
  <2>5. \A m \in 0..n : ofLength[m + 1] = All(m + 1)
    BY <2>3
  <2>  HIDE DEF n, N
  <2>6. ASSUME NEW k \in 1..N PROVE ofLength[k] = All(k)
    <3>1. k - 1 \in 0..n /\ (k - 1) + 1 = k
      BY <2>4
    <3>2. ofLength[(k - 1) + 1] = All((k - 1) + 1)
      BY <2>5, <3>1
    <3>  QED  BY <3>1, <3>2
  <2>  QED  BY <2>6
<1>9. ASSUME NEW p PROVE p \in SimplePaths(g, start, stop) <=> IsPath(g, start, stop, p)
  <2>1. p \in SimplePaths(g, start, stop) <=> \E k \in 1..N : p \in All(k)
    <3>  HIDE DEF N
    <3>  QED  BY <1>6, <1>7, <1>8
  <2>2. ASSUME IsPath(g, start, stop, p) PROVE p \in All(Len(p)) /\ Len(p) \in 1..N
    BY <2>2, PathLength DEF All, IsPath
  <2>3. ASSUME NEW k \in 1..N, p \in All(k) PROVE IsPath(g, start, stop, p)
    BY <2>3 DEF All
  <2>  HIDE DEF N
  <2>  QED  BY <2>1, <2>2, <2>3
<1>  QED  BY <1>9

-------------------------------------------------------------------------------
(* One step of a search.                                                      *)

Extends(p, q) == Len(q) <= Len(p) /\ \A i \in 1..Len(q) : p[i] = q[i]

(* A path that continues another continues it by a node the search tries.    *)
LEMMA ContinuedPath ==
  ASSUME NEW g, WellFormed(g), NEW start, NEW stop,
         NEW p, IsPath(g, start, stop, p), NEW q, IsPath(g, start, stop, q),
         Extends(p, q)
  PROVE  \/ p = q
         \/ Last(q) \notin stop /\ \E m \in Onward(g, q) : Extends(p, Append(q, m))
<1>  DEFINE N == NodesOf(g)
            n == Len(p)
            k == Len(q)
<1>1. /\ p \in Seq(N) /\ q \in Seq(N)
      /\ \A i, j \in 1..n : p[i] = p[j] => i = j
      /\ \A i \in 1..(n - 1) : p[i] \notin stop /\ p[i + 1] \in Range(g.succ[p[i]])
  BY DEF IsPath
<1>2. /\ n \in Nat \ {0} /\ k \in Nat \ {0} /\ DOMAIN q = 1..k
      /\ \A i \in 1..n : p[i] \in N
  BY PathLength
<1>3. k <= n /\ \A i \in 1..k : p[i] = q[i]
  BY DEF Extends
<1>4. CASE k = n
  <2>1. \A s, t \in Seq(N) : Len(s) = Len(t) /\ (\A i \in 1..Len(s) : s[i] = t[i]) => s = t
    <3>  HIDE DEF N
    <3>  QED  OBVIOUS
  <2>  HIDE DEF N
  <2>  QED  BY <1>1, <1>3, <1>4, <2>1
<1>5. CASE k # n
  <2>  DEFINE m == p[k + 1]
              w == Append(q, m)
  <2>1. \A a, b \in Nat \ {0} : a <= b /\ a # b =>
          a \in 1..(b - 1) /\ a + 1 \in 1..b /\ a \in 1..a /\ a + 1 <= b
          /\ (\A i \in 1..a : i \in 1..b /\ i # a + 1)
          /\ (\A i \in 1..(a + 1) : i \in 1..a \/ i = a + 1)
    OBVIOUS
  <2>2. /\ k \in 1..(n - 1) /\ k + 1 \in 1..n /\ k \in 1..k /\ k + 1 <= n
        /\ \A i \in 1..k : i \in 1..n /\ i # k + 1
        /\ \A i \in 1..(k + 1) : i \in 1..k \/ i = k + 1
    BY <1>2, <1>3, <1>5, <2>1
  <2>3. Last(q) = p[k]
    BY <1>3, <2>2 DEF Last
  <2>4. Last(q) \notin stop /\ m \in Range(g.succ[Last(q)])
    BY <1>1, <2>2, <2>3
  <2>5. m \notin Range(q)
    BY <1>1, <1>2, <1>3, <2>2 DEF Range
  <2>6. m \in Onward(g, q)
    BY <2>4, <2>5 DEF Onward
  <2>7. m \in N
    BY <1>2, <2>2
  <2>8. Extends(p, w)
    <3>  HIDE DEF N
    <3>1. Len(w) = k + 1 /\ w[k + 1] = m /\ \A i \in 1..k : w[i] = q[i]
      BY <1>1, <2>7
    <3>  HIDE DEF w
    <3>2. \A i \in 1..(k + 1) : p[i] = w[i]
      BY <1>3, <2>2, <3>1
    <3>3. Len(w) <= Len(p)
      BY <2>2, <3>1
    <3>  QED  BY <3>1, <3>2, <3>3 DEF Extends
  <2>  QED  BY <2>4, <2>6, <2>8
<1>  QED  BY <1>4, <1>5

LEMMA StartPath ==
  ASSUME NEW g, WellFormed(g), NEW start \in NodesOf(g), NEW stop
  PROVE  /\ IsPath(g, start, stop, <<start>>)
         /\ \A p : IsPath(g, start, stop, p) => Extends(p, <<start>>)
<1>1. <<start>> \in Seq(NodesOf(g)) /\ Len(<<start>>) = 1 /\ <<start>>[1] = start
      /\ <<start>> # <<>>
  OBVIOUS
<1>2. IsPath(g, start, stop, <<start>>)
  BY <1>1 DEF IsPath
<1>3. ASSUME NEW p, IsPath(g, start, stop, p) PROVE Extends(p, <<start>>)
  <2>1. Len(p) \in Nat \ {0} /\ p[1] = start
    BY <1>3, PathLength DEF IsPath
  <2>  QED  BY <1>1, <2>1 DEF Extends
<1>  QED  BY <1>2, <1>3

LEMMA FreshFacts ==
  ASSUME NEW g, WellFormed(g), NEW start, NEW stop, NEW p, IsPath(g, start, stop, p)
  PROVE  /\ Fresh(g, p) \in Seq(NodesOf(g))
         /\ Range(Fresh(g, p)) = Onward(g, p)
         /\ Fresh(g, p) = <<>> <=> Onward(g, p) = {}
         /\ Last(p) \in NodesOf(g)
<1>  DEFINE N == NodesOf(g)
            next == g.succ[Last(p)]
            S == Range(next) \ Range(p)
            f == Fresh(g, p)
<1>1. Last(p) \in N
  <2>1. Len(p) \in 1..Len(p)
    BY PathLength
  <2>  QED  BY <2>1, PathLength DEF Last
<1>2. next \in Seq(N)
  BY <1>1 DEF WellFormed
<1>3. f = Filter(next, S)
  BY DEF Fresh
<1>4. f \in Seq(N) /\ ToSet(f) = ToSet(next) \cap S
  <2>1. \A s \in Seq(N) : \A T : Filter(s, T) \in Seq(N) /\ ToSet(Filter(s, T)) = ToSet(s) \cap T
    BY FilterAppend, FilterElements
  <2>  HIDE DEF N, next, S, f
  <2>  QED  BY <1>2, <1>3, <2>1
<1>5. ToSet(next) = Range(next) /\ ToSet(f) = Range(f)
  BY DEF ToSet, Range
<1>6. Range(f) = Onward(g, p)
  BY <1>4, <1>5 DEF Onward
<1>7. f = <<>> <=> Range(f) = {}
  <2>  HIDE DEF N, f
  <2>1. f # <<>> => f[1] \in Range(f)
    BY <1>4 DEF Range
  <2>2. f = <<>> => Range(f) = {}
    BY DEF Range
  <2>  QED  BY <2>1, <2>2
<1>  QED  BY <1>1, <1>4, <1>6, <1>7

LEMMA ExtensionsFacts ==
  ASSUME NEW g, WellFormed(g), NEW start, NEW stop, NEW p, IsPath(g, start, stop, p)
  PROVE  /\ Extensions(g, p) \in Seq(Seq(NodesOf(g)))
         /\ Range(Extensions(g, p)) = {Append(p, m) : m \in Onward(g, p)}
         /\ Onward(g, p) # {} => Extensions(g, p) # <<>>
<1>  DEFINE N == NodesOf(g)
            f == Fresh(g, p)
            x == Extensions(g, p)
<1>1. f \in Seq(N) /\ Range(f) = Onward(g, p) /\ (f = <<>> <=> Onward(g, p) = {})
  BY FreshFacts
<1>2. p \in Seq(N)
  BY DEF IsPath
<1>3. x = [i \in DOMAIN f |-> Append(p, f[i])]
  BY DEF Extensions
<1>  HIDE DEF N, f, x
<1>4. DOMAIN f = 1..Len(f) /\ Len(f) \in Nat /\ \A i \in 1..Len(f) : f[i] \in N
  BY <1>1
<1>5. \A i \in 1..Len(f) : Append(p, f[i]) \in Seq(N)
  BY <1>2, <1>4
<1>6. x \in Seq(Seq(N))
  <2>  DEFINE Y == Seq(N)
              op(i) == Append(p, f[i])
  <2>1. x = [i \in 1..Len(f) |-> op(i)] /\ \A i \in 1..Len(f) : op(i) \in Y
    BY <1>3, <1>4, <1>5
  <2>  HIDE DEF Y, op
  <2>2. x \in Seq(Y)
    BY <1>4, <2>1
  <2>  QED  BY <2>2 DEF Y
<1>7. DOMAIN x = DOMAIN f /\ \A i \in DOMAIN f : x[i] = Append(p, f[i])
  BY <1>3
<1>8. Range(x) = {Append(p, m) : m \in Range(f)}
  BY <1>7 DEF Range
<1>9. f # <<>> => x # <<>>
  <2>1. f # <<>> => 1 \in DOMAIN f
    BY <1>1
  <2>2. 1 \in DOMAIN x => x # <<>>
    OBVIOUS
  <2>  QED  BY <1>7, <2>1, <2>2
<1>  QED  BY <1>1, <1>6, <1>8, <1>9 DEF x, N

(* The top of a stack and what is below it. *)
LEMMA PopFacts ==
  ASSUME NEW X, NEW s \in Seq(X), s # <<>>
  PROVE  /\ Head(s) \in X /\ Tail(s) \in Seq(X)
         /\ Range(s) = {Head(s)} \union Range(Tail(s))
         /\ Len(Tail(s)) = Len(s) - 1
<1>  DEFINE t == Tail(s)
<1>1. /\ Len(s) \in Nat \ {0} /\ DOMAIN s = 1..Len(s) /\ Head(s) = s[1] /\ s[1] \in X
      /\ t \in Seq(X) /\ Len(t) = Len(s) - 1 /\ DOMAIN t = 1..(Len(s) - 1)
      /\ \A i \in 1..(Len(s) - 1) : t[i] = s[i + 1]
  OBVIOUS
<1>  HIDE DEF t
<1>2. /\ 1 \in 1..Len(s)
      /\ \A i \in 1..Len(s) : i = 1 \/ (i - 1 \in 1..(Len(s) - 1) /\ (i - 1) + 1 = i)
      /\ \A i \in 1..(Len(s) - 1) : i + 1 \in 1..Len(s)
  <2>1. \A n \in Nat \ {0} : 1 \in 1..n
    OBVIOUS
  <2>2. \A n \in Nat : \A i \in 1..n : i = 1 \/ i - 1 \in 1..(n - 1)
    OBVIOUS
  <2>3. \A n \in Nat \ {0} : \A i \in 1..n : (i - 1) + 1 = i
    OBVIOUS
  <2>4. \A n \in Nat \ {0} : \A i \in 1..(n - 1) : i + 1 \in 1..n
    OBVIOUS
  <2>  QED  BY <1>1, <2>1, <2>2, <2>3, <2>4
<1>3. ASSUME NEW x \in Range(s) PROVE x \in {s[1]} \union Range(t)
  <2>1. PICK i \in 1..Len(s) : x = s[i]
    BY <1>1 DEF Range
  <2>2. CASE i = 1
    BY <2>1, <2>2
  <2>3. CASE i - 1 \in 1..(Len(s) - 1) /\ (i - 1) + 1 = i
    <3>1. t[i - 1] = x
      BY <1>1, <2>1, <2>3
    <3>  QED  BY <1>1, <2>3, <3>1 DEF Range
  <2>  QED  BY <1>1, <1>2, <2>2, <2>3
<1>4. ASSUME NEW x \in {s[1]} \union Range(t) PROVE x \in Range(s)
  <2>1. CASE x = s[1]
    BY <1>1, <1>2, <2>1 DEF Range
  <2>2. CASE x \in Range(t)
    <3>1. PICK i \in 1..(Len(s) - 1) : x = t[i]
      BY <1>1, <2>2 DEF Range
    <3>2. i + 1 \in 1..Len(s) /\ x = s[i + 1]
      BY <1>1, <1>2, <3>1
    <3>  QED  BY <1>1, <3>2 DEF Range
  <2>  QED  BY <1>4, <2>1, <2>2
<1>  QED  BY <1>1, <1>3, <1>4 DEF t

LEMMA ConcatRange ==
  ASSUME NEW X, NEW s \in Seq(X), NEW t \in Seq(X)
  PROVE  /\ s \o t \in Seq(X) /\ Range(s \o t) = Range(s) \union Range(t)
         /\ s # <<>> => s \o t # <<>>
<1>1. ToSet(s \o t) = ToSet(s) \union ToSet(t)
  BY ToSetOfConcat
<1>2. Range(s \o t) = Range(s) \union Range(t)
  BY <1>1 DEF ToSet, Range
<1>3. s \o t \in Seq(X) /\ (s # <<>> => s \o t # <<>>)
  OBVIOUS
<1>  QED  BY <1>2, <1>3

LEMMA AppendElements ==
  ASSUME NEW X, NEW s \in Seq(X), NEW e \in X
  PROVE  /\ Append(s, e) \in Seq(X) /\ Range(Append(s, e)) = Range(s) \union {e}
         /\ Len(Append(s, e)) = Len(s) + 1 /\ Append(s, e) # <<>>
<1>1. ToSet(Append(s, e)) = ToSet(s) \union {e}
  BY ToSetOfAppend
<1>2. Range(Append(s, e)) = Range(s) \union {e}
  BY <1>1 DEF ToSet, Range
<1>3. Append(s, e) \in Seq(X) /\ Len(Append(s, e)) = Len(s) + 1
  OBVIOUS
<1>4. Append(s, e) # <<>>
  <2>1. Len(s) \in Nat
    OBVIOUS
  <2>2. Len(Append(s, e)) # 0
    BY <1>3, <2>1
  <2>  DEFINE t == Append(s, e)
  <2>3. Len(t) # 0
    BY <2>2
  <2>  HIDE DEF t
  <2>4. t # <<>>
    BY <2>3
  <2>  QED  BY <2>4 DEF t
<1>  QED  BY <1>2, <1>3, <1>4

-------------------------------------------------------------------------------
(* The two searches, for a candidate c of a graph g.                          *)

Paths(g, start, stop) == {p \in Seq(NodesOf(g)) : IsPath(g, start, stop, p)}

Searchable(g, c) ==
  /\ WellFormed(g)
  /\ ENTRY \in NodesOf(g) /\ c \in NodesOf(g)
  /\ c # ENTRY /\ c # EXIT /\ ~IsStructural(g, c)
  /\ \A n \in NodesOf(g) : g.type[n] = "EXIT" <=> n = EXIT

\* Every path of T is found, or lies beyond a path still to visit.
Covers(T, found, open) ==
  \A p \in T : p \in Range(found) \/ \E q \in Range(open) : Extends(p, q)

PrefixSearch(g, c, todo, open, found, met) ==
  /\ todo \in Seq({ENTRY})
  /\ open \in Seq(Paths(g, ENTRY, {c}))
  /\ found \in Seq(TaskPrefixes(g, c))
  /\ Len(found) >= MaxChains => met # {}
  /\ met = {} /\ todo = <<>> => Covers(TaskPrefixes(g, c), found, open)

SuffixSearch(g, c, open, found, met) ==
  /\ open \in Seq(Paths(g, c, {EXIT}))
  /\ found \in Seq(TaskSuffixes(g, c))
  /\ met = {} => Covers(TaskSuffixes(g, c), found, open)
  /\ open = <<>> /\ found = <<>> => met # {}

LEMMA TaskPathsAre ==
  ASSUME NEW g, NEW c, Searchable(g, c)
  PROVE  /\ TaskPrefixes(g, c) = {p \in Paths(g, ENTRY, {c}) : Last(p) = c}
         /\ TaskSuffixes(g, c) =
              {p \in Paths(g, c, {EXIT}) : Last(p) = EXIT \/ Onward(g, p) = {}}
<1>1. WellFormed(g) /\ ENTRY \in NodesOf(g) /\ c \in NodesOf(g)
  BY DEF Searchable
<1>2. \A p : p \in SimplePaths(g, ENTRY, {c}) <=> IsPath(g, ENTRY, {c}, p)
  BY <1>1, SimplePathsAre
<1>3. \A p : p \in SimplePaths(g, c, {EXIT}) <=> IsPath(g, c, {EXIT}, p)
  BY <1>1, SimplePathsAre
<1>4. \A start, stop, p : IsPath(g, start, stop, p) => p \in Seq(NodesOf(g))
  BY DEF IsPath
<1>5. SimplePaths(g, ENTRY, {c}) = Paths(g, ENTRY, {c})
  BY <1>2, <1>4 DEF Paths
<1>6. SimplePaths(g, c, {EXIT}) = Paths(g, c, {EXIT})
  BY <1>3, <1>4 DEF Paths
<1>  QED  BY <1>5, <1>6 DEF TaskPrefixes, TaskSuffixes

(* A path found leaves the stack; a path extended is replaced by its extensions. *)
LEMMA FoundCovers ==
  ASSUME NEW X, NEW open \in Seq(X), open # <<>>, NEW found \in Seq(X),
         NEW T, Covers(T, found, open),
         \A p \in T : Extends(p, Head(open)) => p = Head(open)
  PROVE  Covers(T, Append(found, Head(open)), Tail(open))
<1>  DEFINE q == Head(open)
            rest == Tail(open)
            more == Append(found, q)
<1>1. q \in X /\ Range(open) = {q} \union Range(rest)
  BY PopFacts
<1>  HIDE DEF q, rest
<1>2. Range(more) = Range(found) \union {q}
  BY <1>1, AppendElements
<1>  HIDE DEF more
<1>3. \A p \in T : Extends(p, q) => p = q
  BY DEF q
<1>4. Covers(T, more, rest)
  BY <1>1, <1>2, <1>3 DEF Covers
<1>  QED  BY <1>4 DEF more, q, rest

LEMMA ExtendedCovers ==
  ASSUME NEW g, WellFormed(g), NEW start, NEW stop,
         NEW open \in Seq(Paths(g, start, stop)), open # <<>>, NEW found,
         Last(Head(open)) \notin stop, NEW T, T \subseteq Paths(g, start, stop),
         \A p \in T : p # Head(open)
  PROVE  /\ Extensions(g, Head(open)) \o Tail(open) \in Seq(Paths(g, start, stop))
         /\ Onward(g, Head(open)) # {} => Extensions(g, Head(open)) \o Tail(open) # <<>>
         /\ Covers(T, found, open) =>
              Covers(T, found, Extensions(g, Head(open)) \o Tail(open))
<1>  DEFINE P == Paths(g, start, stop)
            q == Head(open)
            rest == Tail(open)
            x == Extensions(g, q)
            more == x \o rest
<1>1. q \in P /\ rest \in Seq(P) /\ Range(open) = {q} \union Range(rest)
  BY PopFacts
<1>2. IsPath(g, start, stop, q)
  BY <1>1 DEF Paths
<1>3. Last(q) \notin stop /\ \A p \in T : p # q
  OBVIOUS
<1>4. /\ x \in Seq(Seq(NodesOf(g))) /\ Range(x) = {Append(q, m) : m \in Onward(g, q)}
      /\ Onward(g, q) # {} => x # <<>>
  BY <1>2, ExtensionsFacts
<1>  HIDE DEF q, rest
<1>5. \A m \in Onward(g, q) : Append(q, m) \in P
  <2>1. \A m \in Onward(g, q) : IsPath(g, start, stop, Append(q, m))
    BY <1>2, <1>3, LongerPath
  <2>  QED  BY <2>1 DEF Paths, IsPath
<1>  DEFINE Y == Seq(NodesOf(g))
<1>  HIDE DEF P, x, Y
<1>6. x \in Seq(P)
  <2>1. x \in Seq(Y)
    BY <1>4 DEF Y
  <2>2. \A e \in Range(x) : e \in P
    BY <1>4, <1>5
  <2>  DEFINE R == Range(x)
  <2>3. \A i \in DOMAIN x : x[i] \in P
    <3>1. \A i \in DOMAIN x : x[i] \in Range(x)
      BY DEF Range
    <3>  QED  BY <2>2, <3>1
  <2>  QED  BY <2>1, <2>3
<1>7. /\ more \in Seq(P) /\ Range(more) = Range(x) \union Range(rest)
      /\ (x # <<>> => more # <<>>)
  BY <1>1, <1>6, ConcatRange
<1>  HIDE DEF more
<1>8. ASSUME Covers(T, found, open) PROVE Covers(T, found, more)
  <2>1. ASSUME NEW p \in T, Extends(p, q)
        PROVE  \E e \in Range(x) : Extends(p, e)
    <3>1. IsPath(g, start, stop, p) /\ p # q
      BY <1>3 DEF Paths
    <3>2. \E m \in Onward(g, q) : Extends(p, Append(q, m))
      BY <1>2, <2>1, <3>1, ContinuedPath
    <3>  QED  BY <1>4, <3>2
  <2>  QED  BY <1>1, <1>7, <1>8, <2>1 DEF Covers
<1>  QED  BY <1>4, <1>7, <1>8 DEF more, x, rest, q, P

-------------------------------------------------------------------------------
(* The steps of the search for prefixes.                                      *)

LEMMA PrefixTaken ==
  ASSUME NEW g, NEW c, Searchable(g, c), NEW todo, NEW open, NEW found, NEW met,
         PrefixSearch(g, c, todo, open, found, met),
         open # <<>>, Last(Head(open)) = c
  PROVE  /\ Len(Head(open)) > 1
         /\ Append(found, Head(open)) \in Seq(TaskPrefixes(g, c))
         /\ Tail(open) \in Seq(Paths(g, ENTRY, {c}))
         /\ met = {} /\ todo = <<>> =>
              Covers(TaskPrefixes(g, c), Append(found, Head(open)), Tail(open))
<1>  DEFINE P == Paths(g, ENTRY, {c})
            T == TaskPrefixes(g, c)
            q == Head(open)
<1>1. open \in Seq(P) /\ found \in Seq(T)
      /\ (met = {} /\ todo = <<>> => Covers(T, found, open))
  BY DEF PrefixSearch
<1>2. T = {p \in P : Last(p) = c}
  BY TaskPathsAre
<1>3. q \in P /\ Tail(open) \in Seq(P)
  <2>  HIDE DEF P
  <2>  QED  BY <1>1, PopFacts
<1>4. q \in T /\ IsPath(g, ENTRY, {c}, q) /\ Last(q) = c
  BY <1>2, <1>3 DEF Paths
<1>5. Len(q) > 1
  <2>1. Len(q) \in Nat \ {0} /\ q[1] = ENTRY /\ WellFormed(g) /\ c # ENTRY
    BY <1>4, PathLength DEF Searchable, IsPath
  <2>2. Len(q) # 1
    BY <1>4, <2>1 DEF Last
  <2>3. \A k \in Nat \ {0} : k # 1 => k > 1
    OBVIOUS
  <2>  HIDE DEF q
  <2>  QED  BY <2>1, <2>2, <2>3
<1>6. \A p \in T : Extends(p, q) => p = q
  <2>  TAKE p \in T
  <2>1. IsPath(g, ENTRY, {c}, p) /\ WellFormed(g) /\ Last(q) \in {c}
    BY <1>2, <1>4 DEF Paths, Searchable
  <2>  QED  BY <1>4, <2>1, ContinuedPath
<1>7. Append(found, q) \in Seq(T)
  <2>  HIDE DEF T, q
  <2>  QED  BY <1>1, <1>4
<1>8. found \in Seq(P)
  <2>1. \A s \in Seq(T) : T \subseteq P => s \in Seq(P)
    <3>  HIDE DEF T, P
    <3>  QED  OBVIOUS
  <2>  HIDE DEF T, P
  <2>  QED  BY <1>1, <1>2, <2>1
<1>9. ASSUME met = {}, todo = <<>> PROVE Covers(T, Append(found, q), Tail(open))
  <2>1. Covers(T, found, open) /\ \A p \in T : Extends(p, Head(open)) => p = Head(open)
    BY <1>1, <1>6, <1>9
  <2>  HIDE DEF T, P
  <2>  QED  BY <1>1, <1>8, <2>1, FoundCovers
<1>  QED  BY <1>3, <1>5, <1>7, <1>9

LEMMA PrefixContinued ==
  ASSUME NEW g, NEW c, Searchable(g, c), NEW todo, NEW open, NEW found, NEW met,
         PrefixSearch(g, c, todo, open, found, met),
         open # <<>>, Last(Head(open)) # c
  PROVE  PrefixSearch(g, c, todo, Extensions(g, Head(open)) \o Tail(open), found, met)
<1>  DEFINE P == Paths(g, ENTRY, {c})
            T == TaskPrefixes(g, c)
            q == Head(open)
            more == Extensions(g, q) \o Tail(open)
<1>1. WellFormed(g)
  BY DEF Searchable
<1>2. open \in Seq(P) /\ (met = {} /\ todo = <<>> => Covers(T, found, open))
  BY DEF PrefixSearch
<1>3. T = {p \in P : Last(p) = c}
  BY TaskPathsAre
<1>4. T \subseteq P /\ Last(q) \notin {c} /\ \A p \in T : p # q
  BY <1>3
<1>5. more \in Seq(P) /\ (Covers(T, found, open) => Covers(T, found, more))
  <2>  HIDE DEF T
  <2>  QED  BY <1>1, <1>2, <1>4, ExtendedCovers
<1>  HIDE DEF more
<1>6. PrefixSearch(g, c, todo, more, found, met)
  BY <1>2, <1>5 DEF PrefixSearch
<1>  QED  BY <1>6 DEF more

LEMMA PrefixEntered ==
  ASSUME NEW g, NEW c, Searchable(g, c), NEW todo, NEW found, NEW met,
         PrefixSearch(g, c, todo, <<>>, found, met), todo # <<>>
  PROVE  PrefixSearch(g, c, Tail(todo), << <<Head(todo)>> >>, found, met)
<1>  DEFINE P == Paths(g, ENTRY, {c})
            T == TaskPrefixes(g, c)
            one == <<ENTRY>>
            open == <<one>>
<1>1. todo \in Seq({ENTRY})
  BY DEF PrefixSearch
<1>2. Head(todo) = ENTRY /\ Tail(todo) \in Seq({ENTRY})
  BY <1>1
<1>3. one \in P /\ \A p \in P : Extends(p, one)
  <2>1. WellFormed(g) /\ ENTRY \in NodesOf(g)
    BY DEF Searchable
  <2>2. /\ IsPath(g, ENTRY, {c}, one)
        /\ \A p : IsPath(g, ENTRY, {c}, p) => Extends(p, one)
    BY <2>1, StartPath
  <2>  QED  BY <2>2 DEF Paths, IsPath
<1>4. T \subseteq P
  BY TaskPathsAre
<1>  HIDE DEF P, T, one
<1>5. open \in Seq(P) /\ one \in Range(open)
  BY <1>3 DEF Range
<1>  HIDE DEF open
<1>6. Covers(T, found, open)
  BY <1>3, <1>4, <1>5 DEF Covers
<1>7. PrefixSearch(g, c, Tail(todo), open, found, met)
  BY <1>2, <1>5, <1>6 DEF PrefixSearch, P, T
<1>  QED  BY <1>2, <1>7 DEF open, one

(* The search for prefixes is over. *)
LEMMA PrefixesComplete ==
  ASSUME NEW g, NEW c, NEW todo, NEW found, NEW met,
         PrefixSearch(g, c, todo, <<>>, found, met),
         todo = <<>> \/ Len(found) >= MaxChains, met = {}
  PROVE  TaskPrefixes(g, c) \subseteq Range(found)
<1>1. todo = <<>> /\ Covers(TaskPrefixes(g, c), found, <<>>)
  BY DEF PrefixSearch
<1>2. Range(<<>>) = {}
  BY DEF Range
<1>  QED  BY <1>1, <1>2 DEF Covers

-------------------------------------------------------------------------------
(* The steps of the search for suffixes.                                      *)

LEMMA TerminalIs ==
  ASSUME NEW g, NEW c, Searchable(g, c), NEW q \in Paths(g, c, {EXIT})
  PROVE  IsTerminal(g, q) <=> Last(q) = EXIT \/ Onward(g, q) = {}
<1>1. IsPath(g, c, {EXIT}, q) /\ WellFormed(g)
  BY DEF Paths, Searchable
<1>2. Last(q) \in NodesOf(g) /\ (Fresh(g, q) = <<>> <=> Onward(g, q) = {})
  BY <1>1, FreshFacts
<1>  QED  BY <1>2 DEF IsTerminal, Searchable

LEMMA SuffixBegun ==
  ASSUME NEW g, NEW c, Searchable(g, c), NEW met
  PROVE  SuffixSearch(g, c, << <<c>> >>, <<>>, met)
<1>  DEFINE P == Paths(g, c, {EXIT})
            T == TaskSuffixes(g, c)
            one == <<c>>
            open == <<one>>
<1>1. one \in P /\ \A p \in P : Extends(p, one)
  <2>1. WellFormed(g) /\ c \in NodesOf(g)
    BY DEF Searchable
  <2>2. /\ IsPath(g, c, {EXIT}, one)
        /\ \A p : IsPath(g, c, {EXIT}, p) => Extends(p, one)
    BY <2>1, StartPath
  <2>  QED  BY <2>2 DEF Paths, IsPath
<1>2. T \subseteq P
  BY TaskPathsAre
<1>  HIDE DEF P, T, one
<1>3. open \in Seq(P) /\ one \in Range(open) /\ open # <<>>
  BY <1>1 DEF Range
<1>  HIDE DEF open
<1>4. Covers(T, <<>>, open)
  BY <1>1, <1>2, <1>3 DEF Covers
<1>5. <<>> \in Seq(T)
  OBVIOUS
<1>6. SuffixSearch(g, c, open, <<>>, met)
  BY <1>3, <1>4, <1>5 DEF SuffixSearch, P, T
<1>  QED  BY <1>6 DEF open, one

LEMMA SuffixTaken ==
  ASSUME NEW g, NEW c, Searchable(g, c), NEW open, NEW found, NEW met,
         SuffixSearch(g, c, open, found, met), open # <<>>,
         IsTerminal(g, Head(open))
  PROVE  /\ SuffixSearch(g, c, Tail(open), Append(found, Head(open)), met)
         /\ Len(Head(open)) > 1 \/
              SuffixSearch(g, c, <<>>, Append(found, Head(open)), met)
         /\ SuffixSearch(g, c, <<>>, Append(found, Head(open)), {"suffix"} \union met)
<1>  DEFINE P == Paths(g, c, {EXIT})
            T == TaskSuffixes(g, c)
            q == Head(open)
            more == Append(found, q)
<1>1. /\ open \in Seq(P) /\ found \in Seq(T)
      /\ (met = {} => Covers(T, found, open))
  BY DEF SuffixSearch
<1>2. T = {p \in P : Last(p) = EXIT \/ Onward(g, p) = {}}
  BY TaskPathsAre
<1>3. q \in P /\ Tail(open) \in Seq(P)
  <2>  HIDE DEF P
  <2>  QED  BY <1>1, PopFacts
<1>4. q \in T /\ IsPath(g, c, {EXIT}, q) /\ (Last(q) = EXIT \/ Onward(g, q) = {})
  <2>1. Last(q) = EXIT \/ Onward(g, q) = {}
    BY <1>3, TerminalIs
  <2>  QED  BY <1>2, <1>3, <2>1 DEF Paths
<1>5. \A p \in P : Extends(p, q) => p = q
  <2>  TAKE p \in P
  <2>1. IsPath(g, c, {EXIT}, p) /\ WellFormed(g)
    BY DEF Paths, Searchable
  <2>  HIDE DEF q
  <2>2. Extends(p, q) =>
          p = q \/ (Last(q) \notin {EXIT} /\ \E m \in Onward(g, q) : Extends(p, Append(q, m)))
    BY <1>4, <2>1, ContinuedPath
  <2>  QED  BY <1>4, <2>2
<1>6. more \in Seq(T) /\ more # <<>> /\ Range(more) = Range(found) \union {q}
  <2>  HIDE DEF T, q
  <2>  QED  BY <1>1, <1>4, AppendElements
<1>7. T \subseteq P
  BY <1>2
<1>8. found \in Seq(P)
  <2>1. \A s \in Seq(T) : T \subseteq P => s \in Seq(P)
    <3>  HIDE DEF T, P
    <3>  QED  OBVIOUS
  <2>  HIDE DEF T, P
  <2>  QED  BY <1>1, <1>7, <2>1
<1>9. ASSUME met = {} PROVE Covers(T, more, Tail(open))
  <2>1. Covers(T, found, open) /\ \A p \in T : Extends(p, Head(open)) => p = Head(open)
    BY <1>1, <1>5, <1>7, <1>9
  <2>  HIDE DEF T, P
  <2>  QED  BY <1>1, <1>8, <2>1, FoundCovers
<1>10. SuffixSearch(g, c, Tail(open), more, met)
  <2>  HIDE DEF more
  <2>  QED  BY <1>3, <1>6, <1>9 DEF SuffixSearch
<1>11. <<>> \in Seq(P)
  OBVIOUS
<1>12. ASSUME ~(Len(q) > 1) PROVE Covers(T, more, <<>>)
  <2>1. Len(q) \in Nat \ {0} /\ q[1] = c /\ WellFormed(g)
    BY <1>4, PathLength DEF Searchable, IsPath
  <2>2. \A k \in Nat \ {0} : k > 1 \/ k = 1
    OBVIOUS
  <2>3. Len(q) = 1
    <3>  HIDE DEF q
    <3>  QED  BY <1>12, <2>1, <2>2
  <2>4. \A p \in P : Len(p) \in Nat \ {0} /\ p[1] = c
    <3>  TAKE p \in P
    <3>1. IsPath(g, c, {EXIT}, p)
      BY DEF Paths
    <3>  QED  BY <2>1, <3>1, PathLength DEF IsPath
  <2>  HIDE DEF P, T, q, more
  <2>5. \A p \in P : Extends(p, q)
    BY <2>1, <2>3, <2>4 DEF Extends
  <2>  QED  BY <1>5, <1>6, <1>7, <2>5 DEF Covers
<1>13. ASSUME ~(Len(q) > 1) PROVE SuffixSearch(g, c, <<>>, more, met)
  <2>  HIDE DEF more
  <2>  QED  BY <1>6, <1>11, <1>12, <1>13 DEF SuffixSearch
<1>14. SuffixSearch(g, c, <<>>, more, {"suffix"} \union met)
  <2>  DEFINE now == {"suffix"} \union met
  <2>1. now # {}
    OBVIOUS
  <2>  HIDE DEF more, now
  <2>2. SuffixSearch(g, c, <<>>, more, now)
    BY <1>6, <1>11, <2>1 DEF SuffixSearch
  <2>  QED  BY <2>2 DEF now
<1>  QED  BY <1>10, <1>13, <1>14

LEMMA SuffixContinued ==
  ASSUME NEW g, NEW c, Searchable(g, c), NEW open, NEW found, NEW met,
         SuffixSearch(g, c, open, found, met), open # <<>>,
         ~IsTerminal(g, Head(open))
  PROVE  SuffixSearch(g, c, Extensions(g, Head(open)) \o Tail(open), found, met)
<1>  DEFINE P == Paths(g, c, {EXIT})
            T == TaskSuffixes(g, c)
            q == Head(open)
            more == Extensions(g, q) \o Tail(open)
<1>1. WellFormed(g)
  BY DEF Searchable
<1>2. open \in Seq(P) /\ (met = {} => Covers(T, found, open))
  BY DEF SuffixSearch
<1>3. T = {p \in P : Last(p) = EXIT \/ Onward(g, p) = {}}
  BY TaskPathsAre
<1>4. q \in P
  <2>  HIDE DEF P
  <2>  QED  BY <1>2, PopFacts
<1>5. Last(q) # EXIT /\ Onward(g, q) # {}
  BY <1>4, TerminalIs
<1>6. T \subseteq P /\ Last(q) \notin {EXIT} /\ \A p \in T : p # q
  BY <1>3, <1>5
<1>7. /\ more \in Seq(P) /\ (Onward(g, q) # {} => more # <<>>)
      /\ (Covers(T, found, open) => Covers(T, found, more))
  <2>  HIDE DEF T
  <2>  QED  BY <1>1, <1>2, <1>6, ExtendedCovers
<1>  HIDE DEF more
<1>8. SuffixSearch(g, c, more, found, met)
  BY <1>2, <1>5, <1>7 DEF SuffixSearch
<1>  QED  BY <1>8 DEF more

LEMMA SuffixesComplete ==
  ASSUME NEW g, NEW c, NEW found, NEW met,
         SuffixSearch(g, c, <<>>, found, met), met = {}
  PROVE  TaskSuffixes(g, c) \subseteq Range(found)
<1>1. Covers(TaskSuffixes(g, c), found, <<>>)
  BY DEF SuffixSearch
<1>2. Range(<<>>) = {}
  BY DEF Range
<1>  QED  BY <1>1, <1>2 DEF Covers

-------------------------------------------------------------------------------
(* The joining of prefixes and suffixes, and the report.                      *)

ChainOf(g, p, s) == Materialized(g, p \o Tail(s))

ChainsOf(g, c) ==
  {ChainOf(g, p, s) : p \in TaskPrefixes(g, c), s \in TaskSuffixes(g, c)}

\* A chain that may be reported, when met are the bounds that were met.
Sound(g, c, met, x) ==
  /\ x \in Seq(NodesOf(g)) /\ c \in Range(x)
  /\ \/ x \in ChainsOf(g, c)
     \/ met # {} /\ x \in {Materialized(g, p) : p \in TaskPrefixes(g, c)}

\* The place of the suffixes of a candidate that no suffix was found for.
JoinTypes(g, c, pre, suf, met) ==
  /\ pre \in Seq(TaskPrefixes(g, c))
  /\ \/ suf \in Seq(TaskSuffixes(g, c)) /\ suf # <<>>
     \/ suf = << <<c>> >> /\ met # {}
  /\ met = {} => /\ TaskPrefixes(g, c) \subseteq Range(pre)
                 /\ TaskSuffixes(g, c) \subseteq Range(suf)

Before(i, j, at) == i < at[1] \/ (i = at[1] /\ j < at[2])

JoinState(g, c, pre, suf, at, out, met) ==
  /\ JoinTypes(g, c, pre, suf, met)
  /\ out \in Seq(Seq(NodesOf(g))) /\ IsInjective(out)
  /\ \A x \in Range(out) : Sound(g, c, met, x)
  /\ at[1] \in Nat \ {0} /\ at[2] \in DOMAIN suf
  /\ \A i \in DOMAIN pre, j \in DOMAIN suf :
       Before(i, j, at) => ChainOf(g, pre[i], suf[j]) \in Range(out)

ReportOK(g, r) ==
  /\ IsInjective(r.chains)
  /\ \A x \in Range(r.chains) :
       /\ r.candidate \in Range(x)
       /\ \/ x \in ChainsOf(g, r.candidate)
          \/ /\ r.truncated
             /\ x \in {Materialized(g, p) : p \in TaskPrefixes(g, r.candidate)}
  /\ ~r.truncated => Range(r.chains) = ChainsOf(g, r.candidate)

ReportOf(c, out, met) == [candidate |-> c, chains |-> out, truncated |-> met # {}]

LEMMA MaterializedPath ==
  ASSUME NEW g, NEW c, Searchable(g, c), NEW p \in Seq(NodesOf(g)), c \in Range(p)
  PROVE  Materialized(g, p) \in Seq(NodesOf(g)) /\ c \in Range(Materialized(g, p))
<1>  DEFINE N == NodesOf(g)
            S == {n \in Range(p) : ~IsStructural(g, n)}
            m == Filter(p, S)
<1>1. m \in Seq(N) /\ ToSet(m) = ToSet(p) \cap S
  <2>1. \A s \in Seq(N) : \A T : Filter(s, T) \in Seq(N) /\ ToSet(Filter(s, T)) = ToSet(s) \cap T
    BY FilterAppend, FilterElements
  <2>2. p \in Seq(N)
    OBVIOUS
  <2>  HIDE DEF N, S, m
  <2>  QED  BY <2>1, <2>2 DEF m
<1>2. ToSet(m) = Range(m) /\ ToSet(p) = Range(p)
  BY DEF ToSet, Range
<1>3. c \in S
  BY DEF Searchable
<1>4. c \in Range(m)
  <2>  HIDE DEF m, S
  <2>  QED  BY <1>1, <1>2, <1>3
<1>5. m = Materialized(g, p)
  BY DEF Materialized
<1>  HIDE DEF m, S
<1>  QED  BY <1>1, <1>4, <1>5

LEMMA JoinedSound ==
  ASSUME NEW g, NEW c, Searchable(g, c), NEW pre, NEW suf, NEW met,
         JoinTypes(g, c, pre, suf, met), NEW i \in DOMAIN pre, NEW j \in DOMAIN suf
  PROVE  Sound(g, c, met, ChainOf(g, pre[i], suf[j]))
<1>  DEFINE N == NodesOf(g)
            TP == TaskPrefixes(g, c)
            TS == TaskSuffixes(g, c)
            p == pre[i]
            s == suf[j]
            w == p \o Tail(s)
<1>1. pre \in Seq(TP) /\ (suf \in Seq(TS) \/ (suf = << <<c>> >> /\ met # {}))
  BY DEF JoinTypes
<1>2. p \in TP
  <2>  HIDE DEF TP
  <2>  QED  BY <1>1
<1>3. p \in Seq(N) /\ p # <<>> /\ Last(p) = c
  BY <1>2, TaskPathsAre DEF Paths, IsPath
<1>4. c \in Range(p)
  <2>1. Len(p) \in DOMAIN p
    <3>  HIDE DEF N, p
    <3>  QED  BY <1>3
  <2>  QED  BY <1>3, <2>1 DEF Last, Range
<1>5. CASE suf \in Seq(TS)
  <2>1. s \in TS
    <3>  HIDE DEF TS
    <3>  QED  BY <1>5
  <2>2. s \in Seq(N) /\ s # <<>>
    BY <2>1, TaskPathsAre DEF Paths, IsPath
  <2>3. Tail(s) \in Seq(N)
    <3>  HIDE DEF s, N
    <3>  QED  BY <2>2
  <2>4. w \in Seq(N) /\ Range(w) = Range(p) \union Range(Tail(s))
    <3>  HIDE DEF N, p, s
    <3>  QED  BY <1>3, <2>3, ConcatRange
  <2>5. Materialized(g, w) \in Seq(N) /\ c \in Range(Materialized(g, w))
    <3>1. c \in Range(w)
      BY <1>4, <2>4
    <3>  HIDE DEF w
    <3>  QED  BY <2>4, <3>1, MaterializedPath
  <2>6. ChainOf(g, p, s) \in ChainsOf(g, c)
    BY <1>2, <2>1 DEF ChainsOf
  <2>7. ChainOf(g, p, s) = Materialized(g, w)
    BY DEF ChainOf
  <2>  HIDE DEF w, p, s
  <2>8. Sound(g, c, met, ChainOf(g, p, s))
    BY <2>5, <2>6, <2>7 DEF Sound
  <2>  QED  BY <2>8 DEF p, s
<1>6. CASE suf = << <<c>> >> /\ met # {}
  <2>1. s = <<c>> /\ Tail(s) = <<>>
    <3>1. s = <<c>>
      BY <1>6
    <3>  HIDE DEF s
    <3>  QED  BY <3>1
  <2>2. w = p
    <3>1. \A u \in Seq(N) : u \o <<>> = u
      <4>  HIDE DEF N
      <4>  QED  OBVIOUS
    <3>  HIDE DEF p, s, N
    <3>  QED  BY <1>3, <2>1, <3>1
  <2>3. Materialized(g, p) \in Seq(N) /\ c \in Range(Materialized(g, p))
    <3>  HIDE DEF p
    <3>  QED  BY <1>3, <1>4, MaterializedPath
  <2>4. ChainOf(g, p, s) = Materialized(g, p)
    BY <2>2 DEF ChainOf
  <2>  HIDE DEF p, s
  <2>5. Sound(g, c, met, ChainOf(g, p, s))
    BY <1>2, <1>6, <2>3, <2>4 DEF Sound
  <2>  QED  BY <2>5 DEF p, s
<1>  QED  BY <1>1, <1>5, <1>6

NextPlace(suf, at) ==
  IF at[2] < Len(suf) THEN <<at[1], at[2] + 1>> ELSE <<at[1] + 1, 1>>

LEMMA JoinMoves ==
  ASSUME NEW g, NEW c, NEW pre, NEW suf, NEW at, NEW out, NEW met,
         JoinState(g, c, pre, suf, at, out, met),
         NEW more, more \in Seq(Seq(NodesOf(g))), IsInjective(more),
         \A x \in Range(more) : Sound(g, c, met, x),
         Range(out) \subseteq Range(more),
         \A i \in DOMAIN pre, j \in DOMAIN suf :
           i = at[1] /\ j = at[2] => ChainOf(g, pre[i], suf[j]) \in Range(more)
  PROVE  JoinState(g, c, pre, suf, NextPlace(suf, at), more, met)
<1>  DEFINE a == at[1]
            b == at[2]
            k == Len(suf)
            next == NextPlace(suf, at)
<1>1. /\ JoinTypes(g, c, pre, suf, met) /\ a \in Nat \ {0} /\ b \in DOMAIN suf
      /\ \A i \in DOMAIN pre, j \in DOMAIN suf :
           Before(i, j, at) => ChainOf(g, pre[i], suf[j]) \in Range(out)
  BY DEF JoinState
<1>2. k \in Nat /\ DOMAIN suf = 1..k
  <2>1. \A T : suf \in Seq(T) => Len(suf) \in Nat /\ DOMAIN suf = 1..Len(suf)
    OBVIOUS
  <2>2. suf = << <<c>> >> => suf \in Seq({<<c>>})
    OBVIOUS
  <2>  QED  BY <1>1, <2>1, <2>2 DEF JoinTypes
<1>3. DOMAIN pre \subseteq Nat
  <2>  DEFINE T == TaskPrefixes(g, c)
  <2>1. pre \in Seq(T)
    BY <1>1 DEF JoinTypes
  <2>  HIDE DEF T
  <2>  QED  BY <2>1
<1>4. \/ b < k /\ next[1] = a /\ next[2] = b + 1
      \/ ~(b < k) /\ next[1] = a + 1 /\ next[2] = 1
  BY DEF NextPlace
<1>  HIDE DEF next, a, b, k
<1>5. next[1] \in Nat \ {0} /\ next[2] \in DOMAIN suf
  BY <1>1, <1>2, <1>4
<1>6. ASSUME NEW i \in DOMAIN pre, NEW j \in DOMAIN suf, Before(i, j, next)
      PROVE  i < a \/ (i = a /\ j < b) \/ (i = a /\ j = b)
  <2>1. i \in Nat /\ j \in Nat /\ j <= k /\ 1 <= j /\ b <= k /\ a \in Nat /\ b \in Nat /\ k \in Nat
    BY <1>1, <1>2, <1>3
  <2>2. i < next[1] \/ (i = next[1] /\ j < next[2])
    BY <1>6 DEF Before
  <2>3. next[1] \in Nat /\ next[2] \in Nat
    BY <1>4, <2>1
  <2>4. \A v, w, d, e, z, x, y \in Nat :
          /\ w <= z /\ e <= z
          /\ (e < z /\ x = d /\ y = e + 1) \/ (~(e < z) /\ x = d + 1 /\ y = 1)
          /\ v < x \/ (v = x /\ w < y)
          /\ 1 <= w
          => v < d \/ (v = d /\ w < e) \/ (v = d /\ w = e)
    OBVIOUS
  <2>  QED  BY <1>4, <2>1, <2>2, <2>3, <2>4
<1>7. ASSUME NEW i \in DOMAIN pre, NEW j \in DOMAIN suf, Before(i, j, next)
      PROVE  ChainOf(g, pre[i], suf[j]) \in Range(more)
  <2>1. Before(i, j, at) \/ (i = at[1] /\ j = at[2])
    BY <1>6, <1>7 DEF Before, a, b
  <2>  QED  BY <1>1, <2>1
<1>8. JoinState(g, c, pre, suf, next, more, met)
  BY <1>1, <1>5, <1>7 DEF JoinState
<1>  QED  BY <1>8 DEF next

(* The report when a bound was met, and the report when every pair is joined. *)
LEMMA ReportsAreOK ==
  ASSUME NEW g, NEW c, NEW out, NEW met, IsInjective(out),
         \A x \in Range(out) : Sound(g, c, met, x),
         met = {} => ChainsOf(g, c) \subseteq Range(out)
  PROVE  ReportOK(g, ReportOf(c, out, met))
<1>  DEFINE r == ReportOf(c, out, met)
<1>1. r.candidate = c /\ r.chains = out /\ (r.truncated <=> met # {})
  BY DEF ReportOf
<1>2. met = {} => Range(out) \subseteq ChainsOf(g, c)
  BY DEF Sound
<1>  HIDE DEF r
<1>3. ReportOK(g, r)
  BY <1>1, <1>2 DEF ReportOK, Sound
<1>  QED  BY <1>3 DEF r

LEMMA AllJoined ==
  ASSUME NEW g, NEW c, NEW pre, NEW suf, NEW at, NEW out, NEW met,
         JoinState(g, c, pre, suf, at, out, met), at[1] \notin DOMAIN pre, met = {}
  PROVE  ChainsOf(g, c) \subseteq Range(out)
<1>  DEFINE TP == TaskPrefixes(g, c)
            TS == TaskSuffixes(g, c)
<1>1. /\ pre \in Seq(TP) /\ at[1] \in Nat \ {0}
      /\ TP \subseteq Range(pre) /\ TS \subseteq Range(suf)
      /\ \A i \in DOMAIN pre, j \in DOMAIN suf :
           Before(i, j, at) => ChainOf(g, pre[i], suf[j]) \in Range(out)
  BY DEF JoinState, JoinTypes
<1>2. \A i \in DOMAIN pre : i < at[1]
  <2>  DEFINE a == at[1]
  <2>  HIDE DEF TP, a
  <2>1. a \in Nat \ {0} /\ a \notin DOMAIN pre
    BY <1>1 DEF a
  <2>2. \A i \in DOMAIN pre : i < a
    BY <1>1, <2>1
  <2>  QED  BY <2>2 DEF a
<1>3. ASSUME NEW p \in TP, NEW s \in TS PROVE ChainOf(g, p, s) \in Range(out)
  <2>1. PICK i \in DOMAIN pre : pre[i] = p
    BY <1>1 DEF Range
  <2>2. PICK j \in DOMAIN suf : suf[j] = s
    BY <1>1 DEF Range
  <2>3. i < at[1]
    BY <1>2
  <2>4. Before(i, j, at)
    BY <2>3 DEF Before
  <2>  QED  BY <1>1, <2>1, <2>2, <2>4
<1>  QED  BY <1>3 DEF ChainsOf

-------------------------------------------------------------------------------
(* The inductive invariant of the enumeration: each phase keeps the state of  *)
(* its search, and every report made so far is right.                         *)

Reports(g) ==
  {r \in [candidate : NodesOf(g), chains : Seq(Seq(NodesOf(g))), truncated : BOOLEAN] :
     ReportOK(g, r)}

Searching == {"prefixes", "suffixes", "joining"}

PrefixInv ==
  /\ PrefixSearch(ueg, Candidate, entries, stack, prefixes, flags)
  /\ suffixes = <<>> /\ chains = <<>>

SuffixInv ==
  /\ SuffixSearch(ueg, Candidate, stack, suffixes, flags)
  /\ prefixes \in Seq(TaskPrefixes(ueg, Candidate))
  /\ flags = {} => TaskPrefixes(ueg, Candidate) \subseteq Range(prefixes)
  /\ chains = <<>>

JoinInv == JoinState(ueg, Candidate, prefixes, suffixes, pair, chains, flags)

ChainInv ==
  /\ phase \in Searching \union {"waiting", "reported"}
  /\ phase # "waiting" => outcome = "extracted"
  /\ phase \in Searching => turn \in DOMAIN candidates
  /\ phase \notin {"prefixes", "suffixes"} => stack = <<>>
  /\ phase # "joining" => pair = <<1, 1>>
  /\ phase = "prefixes" => PrefixInv
  /\ phase = "suffixes" => SuffixInv
  /\ phase = "joining" => JoinInv
  /\ reports \in Seq(Reports(ueg))

LEMMA UegFacts ==
  ASSUME skill \in Skills, ueg = Compose(skill)
  PROVE  /\ WellFormed(ueg) /\ ENTRY \in NodesOf(ueg)
         /\ \A n \in NodesOf(ueg) : /\ ueg.type[n] = "ENTRY" <=> n = ENTRY
                                    /\ ueg.type[n] = "EXIT" <=> n = EXIT
         /\ EntriesOf(ueg) \in Seq({ENTRY}) /\ EntriesOf(ueg) # <<>>
<1>  DEFINE N == NodesOf(ueg)
            S == {n \in N : ueg.type[n] = "ENTRY"}
            f == Filter(ueg.nodes, S)
<1>1. WellFormed(ueg)
  BY UegWellFormed
<1>2. /\ ENTRY \in N /\ ueg.nodes \in Seq(N)
      /\ \A n \in N : /\ ueg.type[n] = "ENTRY" <=> n = ENTRY
                      /\ ueg.type[n] = "EXIT" <=> n = EXIT
  BY SkillsAssumption
<1>3. S = {ENTRY}
  BY <1>2
<1>4. f \in Seq(N) /\ ToSet(f) = ToSet(ueg.nodes) \cap S
  <2>1. \A s \in Seq(N) : \A T : Filter(s, T) \in Seq(N) /\ ToSet(Filter(s, T)) = ToSet(s) \cap T
    BY FilterAppend, FilterElements
  <2>  HIDE DEF N, S, f
  <2>  QED  BY <1>2, <2>1 DEF f
<1>5. ToSet(f) = Range(f) /\ ToSet(ueg.nodes) = N
  BY DEF ToSet, Range, NodesOf
<1>  HIDE DEF N, S, f
<1>6. Range(f) = {ENTRY}
  BY <1>2, <1>3, <1>4, <1>5
<1>7. f \in Seq({ENTRY})
  <2>1. \A i \in DOMAIN f : f[i] \in {ENTRY}
    BY <1>6 DEF Range
  <2>  QED  BY <1>4, <2>1
<1>8. f # <<>>
  <2>1. f = <<>> => Range(f) = {}
    BY DEF Range
  <2>  QED  BY <1>6, <2>1
<1>9. EntriesOf(ueg) = f
  BY <1>8 DEF EntriesOf, f, S, N
<1>  QED  BY <1>1, <1>2, <1>7, <1>8, <1>9 DEF N

LEMMA CandidateIsSearchable ==
  ASSUME OrderInv, outcome = "extracted", turn \in DOMAIN candidates
  PROVE  Searchable(ueg, Candidate)
<1>1. skill \in Skills /\ ueg = Compose(skill) /\ candidates = SelectCandidates
  BY DEF OrderInv
<1>2. /\ candidates \in Seq(NodesOf(ueg))
      /\ \E at \in [DOMAIN candidates -> Indices] :
           \A k \in DOMAIN candidates : candidates[k] = Items[at[k]]
  BY <1>1, SelectionFacts
<1>3. PICK i \in Indices : Candidate = Items[i]
  BY <1>2 DEF Candidate
<1>4. Candidate \in NodesOf(ueg) /\ IsAction(ueg, Candidate)
  BY <1>1, <1>3, ItemsFacts
<1>5. /\ WellFormed(ueg) /\ ENTRY \in NodesOf(ueg)
      /\ \A n \in NodesOf(ueg) : /\ ueg.type[n] = "ENTRY" <=> n = ENTRY
                                 /\ ueg.type[n] = "EXIT" <=> n = EXIT
  BY <1>1, UegFacts
<1>6. ueg.type[Candidate] \notin {"ENTRY", "EXIT"}
  BY <1>4 DEF IsAction, IsStructural, StructuralTypes
<1>7. Candidate # ENTRY /\ Candidate # EXIT
  BY <1>4, <1>5, <1>6
<1>  QED  BY <1>4, <1>5, <1>7 DEF Searchable, IsAction

LEMMA InitChain == PoolInit /\ ChainInit => ChainInv
<1>1. <<>> \in Seq(Reports(ueg))
  OBVIOUS
<1>  QED  BY <1>1 DEF ChainInit, ChainInv, Searching

(* The report of a candidate keeps the invariant. *)
LEMMA ReportStep ==
  ASSUME ChainInv, phase \in Searching, Searchable(ueg, Candidate), stack = <<>>,
         NEW out \in Seq(Seq(NodesOf(ueg))), NEW met, IsInjective(out),
         \A x \in Range(out) : Sound(ueg, Candidate, met, x),
         met = {} => ChainsOf(ueg, Candidate) \subseteq Range(out),
         Report(out, met), UNCHANGED <<ueg, outcome, candidates, stack>>
  PROVE  ChainInv'
<1>  DEFINE r == ReportOf(Candidate, out, met)
            R == Reports(ueg)
<1>1. ReportOK(ueg, r)
  BY ReportsAreOK
<1>2. r \in R
  BY <1>1 DEF Reports, ReportOf, Searchable
<1>3. reports' = Append(reports, r) /\ phase' \in {"waiting", "reported"} /\ pair' = <<1, 1>>
  BY DEF Report, ReportOf
<1>4. reports \in Seq(R) /\ outcome = "extracted"
  BY DEF ChainInv, Searching
<1>5. reports' \in Seq(R)
  <2>  HIDE DEF R, r
  <2>  QED  BY <1>2, <1>3, <1>4
<1>  QED  BY <1>3, <1>4, <1>5 DEF ChainInv, Searching

-------------------------------------------------------------------------------
(* The steps.                                                                 *)

LEMMA PoolStepKeeps ==
  [PoolNext]_poolVars =>
    /\ skill' = skill /\ ueg' = ueg
    /\ outcome = "extracted" => outcome' = outcome /\ candidates' = candidates
BY DEF PoolNext, poolVars, StartItem, BeginLogLine, EndLogLine, FailLogLine, Classify,
       ReadResult, ReadFailure, LeavePool, Extract

LEMMA StepOfPool ==
  ASSUME ChainInv, [PoolNext]_poolVars, UNCHANGED chainVars
  PROVE  ChainInv'
<1>1. ueg' = ueg /\ (phase # "waiting" => outcome' = outcome /\ candidates' = candidates)
  BY PoolStepKeeps DEF ChainInv
<1>2. UNCHANGED <<phase, turn, entries, stack, prefixes, suffixes, pair, chains, flags,
                  reports>>
  BY DEF chainVars
<1>3. phase \in Searching => Candidate' = Candidate /\ outcome' = outcome
                             /\ candidates' = candidates
  BY <1>1, <1>2 DEF Candidate, Searching
<1>4. Reports(ueg)' = Reports(ueg)
  BY <1>1
<1>5. /\ phase = "prefixes" => PrefixInv'
      /\ phase = "suffixes" => SuffixInv'
      /\ phase = "joining" => JoinInv'
  BY <1>1, <1>2, <1>3 DEF ChainInv, PrefixInv, SuffixInv, JoinInv, Searching
<1>  QED  BY <1>1, <1>2, <1>3, <1>4, <1>5 DEF ChainInv, Searching

(* The steps that search for prefixes. *)
LEMMA StepOfPrefixes ==
  ASSUME OrderInv, ChainInv, UNCHANGED poolVars,
         \/ BeginCandidate \/ NextEntry \/ PrefixFound \/ PrefixExtended
         \/ PathTooDeep /\ phase = "prefixes"
  PROVE  ChainInv'
<1>1. UNCHANGED <<ueg, outcome, candidates>> /\ (turn' = turn => Candidate' = Candidate)
  BY DEF poolVars, Candidate
<1>2. ASSUME phase' = "prefixes", turn \in DOMAIN candidates, outcome = "extracted",
             UNCHANGED <<turn, pair, reports>>, PrefixInv', pair = <<1, 1>>
      PROVE  ChainInv'
  BY <1>1, <1>2 DEF ChainInv, Searching
<1>3. CASE BeginCandidate
  <2>1. /\ phase' = "prefixes" /\ turn \in DOMAIN candidates /\ outcome = "extracted"
        /\ UNCHANGED <<turn, stack, pair, reports>> /\ pair = <<1, 1>> /\ stack = <<>>
        /\ entries' = EntriesOf(ueg)
        /\ prefixes' = <<>> /\ suffixes' = <<>> /\ chains' = <<>> /\ flags' = {}
    BY <1>3 DEF BeginCandidate, ChainInv
  <2>2. EntriesOf(ueg) \in Seq({ENTRY}) /\ EntriesOf(ueg) # <<>>
    BY UegFacts DEF OrderInv
  <2>3. PrefixSearch(ueg, Candidate, EntriesOf(ueg), <<>>, <<>>, {})
    <3>  DEFINE P == Paths(ueg, ENTRY, {Candidate})
                T == TaskPrefixes(ueg, Candidate)
    <3>1. <<>> \in Seq(P)
      OBVIOUS
    <3>2. <<>> \in Seq(T)
      OBVIOUS
    <3>3. ~(Len(<<>>) >= MaxChains)
      BY BoundsAssumption
    <3>  QED  BY <2>2, <3>1, <3>2, <3>3 DEF PrefixSearch
  <2>4. PrefixInv'
    BY <1>1, <2>1, <2>3 DEF PrefixInv
  <2>  QED  BY <1>2, <2>1, <2>4
<1>4. ASSUME phase = "prefixes"
      PROVE  /\ PrefixInv /\ turn \in DOMAIN candidates /\ outcome = "extracted"
             /\ pair = <<1, 1>> /\ Searchable(ueg, Candidate)
             /\ PrefixSearch(ueg, Candidate, entries, stack, prefixes, flags)
             /\ suffixes = <<>> /\ chains = <<>>
  <2>1. PrefixInv /\ turn \in DOMAIN candidates /\ outcome = "extracted" /\ pair = <<1, 1>>
    BY <1>4 DEF ChainInv, Searching
  <2>  QED  BY <2>1, CandidateIsSearchable DEF PrefixInv
<1>5. CASE NextEntry
  <2>1. /\ phase = "prefixes" /\ stack = <<>> /\ entries # <<>>
        /\ stack' = << <<Head(entries)>> >> /\ entries' = Tail(entries)
        /\ UNCHANGED <<phase, turn, prefixes, suffixes, pair, chains, flags, reports>>
    BY <1>5 DEF NextEntry
  <2>2. PrefixSearch(ueg, Candidate, Tail(entries), << <<Head(entries)>> >>, prefixes, flags)
    BY <1>4, <2>1, PrefixEntered
  <2>3. PrefixInv'
    BY <1>1, <1>4, <2>1, <2>2 DEF PrefixInv
  <2>  QED  BY <1>2, <1>4, <2>1, <2>3
<1>6. CASE PathTooDeep /\ phase = "prefixes"
  <2>1. /\ stack # <<>> /\ flags' = flags \union {"depth"} /\ stack' = Tail(stack)
        /\ UNCHANGED <<phase, turn, entries, prefixes, suffixes, pair, chains, reports>>
    BY <1>6 DEF PathTooDeep
  <2>  DEFINE P == Paths(ueg, ENTRY, {Candidate})
  <2>2. stack \in Seq(P)
    BY <1>4, <1>6 DEF PrefixSearch
  <2>3. Tail(stack) \in Seq(P)
    <3>  HIDE DEF P
    <3>  QED  BY <2>1, <2>2
  <2>4. flags' # {}
    BY <2>1
  <2>5. PrefixSearch(ueg, Candidate, entries, Tail(stack), prefixes, flags')
    BY <1>4, <1>6, <2>3, <2>4 DEF PrefixSearch
  <2>6. PrefixInv'
    BY <1>1, <1>4, <1>6, <2>1, <2>5 DEF PrefixInv
  <2>  QED  BY <1>2, <1>4, <1>6, <2>1, <2>6
<1>7. CASE PrefixFound
  <2>  DEFINE T == TaskPrefixes(ueg, Candidate)
              P == Paths(ueg, ENTRY, {Candidate})
  <2>1. /\ phase = "prefixes" /\ stack # <<>> /\ Last(Head(stack)) = Candidate
        /\ prefixes' = Append(prefixes, Head(stack))
        /\ \/ /\ Len(prefixes') >= MaxChains /\ stack' = <<>>
              /\ flags' = flags \union (IF Len(Head(stack)) > 1 THEN {"prefix"} ELSE {})
           \/ /\ ~(Len(prefixes') >= MaxChains) /\ stack' = Tail(stack) /\ flags' = flags
        /\ UNCHANGED <<phase, turn, entries, suffixes, pair, chains, reports>>
    BY <1>7 DEF PrefixFound
  <2>2. /\ Len(Head(stack)) > 1
        /\ prefixes' \in Seq(T) /\ Tail(stack) \in Seq(P)
        /\ (flags = {} /\ entries = <<>> => Covers(T, prefixes', Tail(stack)))
    BY <1>4, <2>1, PrefixTaken
  <2>3. <<>> \in Seq(P)
    OBVIOUS
  <2>4. PrefixSearch(ueg, Candidate, entries, stack', prefixes', flags')
    <3>1. entries \in Seq({ENTRY})
      BY <1>4, <2>1 DEF PrefixSearch
    <3>2. CASE Len(prefixes') >= MaxChains
      <4>1. stack' = <<>> /\ flags' # {}
        BY <2>1, <2>2, <3>2
      <4>  QED  BY <2>2, <2>3, <3>1, <4>1 DEF PrefixSearch
    <3>3. CASE ~(Len(prefixes') >= MaxChains)
      <4>1. stack' = Tail(stack) /\ flags' = flags
        BY <2>1, <3>3
      <4>  QED  BY <2>2, <3>1, <3>3, <4>1 DEF PrefixSearch
    <3>  QED  BY <3>2, <3>3
  <2>5. PrefixInv'
    BY <1>1, <1>4, <2>1, <2>4 DEF PrefixInv
  <2>  QED  BY <1>2, <1>4, <2>1, <2>5
<1>8. CASE PrefixExtended
  <2>1. /\ phase = "prefixes" /\ stack # <<>> /\ Last(Head(stack)) # Candidate
        /\ stack' = Extensions(ueg, Head(stack)) \o Tail(stack)
        /\ UNCHANGED <<phase, turn, entries, prefixes, suffixes, pair, chains, flags, reports>>
    BY <1>8 DEF PrefixExtended
  <2>2. PrefixSearch(ueg, Candidate, entries, stack', prefixes, flags)
    BY <1>4, <2>1, PrefixContinued
  <2>3. PrefixInv'
    BY <1>1, <1>4, <2>1, <2>2 DEF PrefixInv
  <2>  QED  BY <1>2, <1>4, <2>1, <2>3
<1>  QED  BY <1>3, <1>5, <1>6, <1>7, <1>8

LEMMA StepToSuffixes ==
  ASSUME OrderInv, ChainInv, UNCHANGED poolVars, PrefixesDone
  PROVE  ChainInv'
<1>  DEFINE T == TaskPrefixes(ueg, Candidate)
<1>1. UNCHANGED <<ueg, outcome, candidates>> /\ (turn' = turn => Candidate' = Candidate)
  BY DEF poolVars, Candidate
<1>2. /\ phase = "prefixes" /\ stack = <<>>
      /\ entries = <<>> \/ Len(prefixes) >= MaxChains
      /\ UNCHANGED <<entries, prefixes, suffixes, chains, flags>>
  BY DEF PrefixesDone
<1>3. /\ PrefixInv /\ turn \in DOMAIN candidates /\ outcome = "extracted" /\ pair = <<1, 1>>
  BY <1>2 DEF ChainInv, Searching
<1>4. /\ Searchable(ueg, Candidate) /\ suffixes = <<>> /\ chains = <<>>
      /\ PrefixSearch(ueg, Candidate, entries, <<>>, prefixes, flags)
  BY <1>2, <1>3, CandidateIsSearchable DEF PrefixInv
<1>5. prefixes \in Seq(T) /\ (flags = {} => T \subseteq Range(prefixes))
  <2>1. prefixes \in Seq(T)
    BY <1>4 DEF PrefixSearch
  <2>2. flags = {} => T \subseteq Range(prefixes)
    BY <1>2, <1>4, PrefixesComplete
  <2>  QED  BY <2>1, <2>2
<1>6. CASE prefixes = <<>>
  <2>1. Report(<<>>, flags) /\ stack' = stack
    BY <1>6 DEF PrefixesDone
  <2>2. Range(<<>>) = {}
    BY DEF Range
  <2>3. IsInjective(<<>>) /\ \A x \in Range(<<>>) : Sound(ueg, Candidate, flags, x)
    BY <2>2 DEF IsInjective
  <2>4. flags = {} => ChainsOf(ueg, Candidate) \subseteq Range(<<>>)
    BY <1>5, <1>6, <2>2 DEF ChainsOf
  <2>  DEFINE Y == Seq(NodesOf(ueg))
  <2>5. <<>> \in Seq(Y)
    OBVIOUS
  <2>6. phase \in Searching
    BY <1>2 DEF Searching
  <2>  QED  BY <1>1, <1>2, <1>4, <2>1, <2>3, <2>4, <2>5, <2>6, ReportStep
<1>7. CASE prefixes # <<>>
  <2>1. phase' = "suffixes" /\ stack' = << <<Candidate>> >> /\ UNCHANGED <<turn, pair, reports>>
    BY <1>7 DEF PrefixesDone
  <2>2. SuffixSearch(ueg, Candidate, stack', suffixes, flags)
    BY <1>4, <2>1, SuffixBegun
  <2>3. SuffixInv'
    BY <1>1, <1>2, <1>4, <1>5, <2>1, <2>2 DEF SuffixInv
  <2>  QED  BY <1>1, <1>3, <2>1, <2>3 DEF ChainInv, Searching
<1>  QED  BY <1>6, <1>7

(* The steps that search for suffixes. *)
LEMMA StepOfSuffixes ==
  ASSUME OrderInv, ChainInv, UNCHANGED poolVars, phase = "suffixes",
         \/ PathTooDeep \/ SuffixFound \/ SuffixExtended \/ SuffixesDone
  PROVE  ChainInv'
<1>1. UNCHANGED <<ueg, outcome, candidates>> /\ (turn' = turn => Candidate' = Candidate)
  BY DEF poolVars, Candidate
<1>2. /\ SuffixInv /\ turn \in DOMAIN candidates /\ outcome = "extracted" /\ pair = <<1, 1>>
  BY DEF ChainInv, Searching
<1>3. /\ Searchable(ueg, Candidate) /\ chains = <<>>
      /\ SuffixSearch(ueg, Candidate, stack, suffixes, flags)
      /\ prefixes \in Seq(TaskPrefixes(ueg, Candidate))
      /\ flags = {} => TaskPrefixes(ueg, Candidate) \subseteq Range(prefixes)
  BY <1>2, CandidateIsSearchable DEF SuffixInv
<1>4. ASSUME UNCHANGED <<phase, turn, prefixes, pair, chains, reports>>,
             flags' = {} => flags = {},
             SuffixSearch(ueg, Candidate, stack', suffixes', flags')
      PROVE  ChainInv'
  <2>1. SuffixInv'
    BY <1>1, <1>3, <1>4 DEF SuffixInv
  <2>  QED  BY <1>1, <1>2, <1>4, <2>1 DEF ChainInv, Searching
<1>5. CASE PathTooDeep
  <2>1. /\ stack # <<>> /\ flags' = flags \union {"depth"} /\ stack' = Tail(stack)
        /\ UNCHANGED <<phase, turn, prefixes, suffixes, pair, chains, reports>>
    BY <1>5 DEF PathTooDeep
  <2>  DEFINE P == Paths(ueg, Candidate, {EXIT})
  <2>2. stack \in Seq(P)
    BY <1>3 DEF SuffixSearch
  <2>3. Tail(stack) \in Seq(P)
    <3>  HIDE DEF P
    <3>  QED  BY <2>1, <2>2
  <2>4. flags' # {}
    BY <2>1
  <2>5. SuffixSearch(ueg, Candidate, Tail(stack), suffixes, flags')
    BY <1>3, <2>3, <2>4 DEF SuffixSearch
  <2>  QED  BY <1>4, <2>1, <2>4, <2>5
<1>6. CASE SuffixFound
  <2>1. /\ stack # <<>> /\ IsTerminal(ueg, Head(stack))
        /\ suffixes' = Append(suffixes, Head(stack))
        /\ \/ /\ stack' = <<>>
              /\ flags' = flags \union (IF Len(Head(stack)) > 1 THEN {"suffix"} ELSE {})
           \/ /\ stack' = Tail(stack) /\ flags' = flags
        /\ UNCHANGED <<phase, turn, prefixes, pair, chains, reports>>
    BY <1>6 DEF SuffixFound
  <2>  DEFINE q == Head(stack)
  <2>2. /\ SuffixSearch(ueg, Candidate, Tail(stack), suffixes', flags)
        /\ Len(q) > 1 \/ SuffixSearch(ueg, Candidate, <<>>, suffixes', flags)
        /\ SuffixSearch(ueg, Candidate, <<>>, suffixes', {"suffix"} \union flags)
    BY <1>3, <2>1, SuffixTaken
  <2>3. CASE stack' = Tail(stack) /\ flags' = flags
    BY <1>4, <2>1, <2>2, <2>3
  <2>4. CASE stack' = <<>> /\ flags' = flags \union (IF Len(q) > 1 THEN {"suffix"} ELSE {})
    <3>1. CASE Len(q) > 1
      <4>1. flags' = {"suffix"} \union flags
        BY <2>4, <3>1
      <4>2. SuffixSearch(ueg, Candidate, stack', suffixes', flags')
        BY <2>2, <2>4, <4>1
      <4>  QED  BY <1>4, <2>1, <4>1, <4>2
    <3>2. CASE ~(Len(q) > 1)
      <4>1. flags' = flags
        BY <2>4, <3>2
      <4>  QED  BY <1>4, <2>1, <2>2, <2>4, <3>2, <4>1
    <3>  QED  BY <3>1, <3>2
  <2>  QED  BY <2>1, <2>3, <2>4
<1>7. CASE SuffixExtended
  <2>1. /\ stack # <<>> /\ ~IsTerminal(ueg, Head(stack))
        /\ stack' = Extensions(ueg, Head(stack)) \o Tail(stack)
        /\ UNCHANGED <<phase, turn, prefixes, suffixes, pair, chains, flags, reports>>
    BY <1>7 DEF SuffixExtended
  <2>2. SuffixSearch(ueg, Candidate, stack', suffixes', flags')
    BY <1>3, <2>1, SuffixContinued
  <2>  QED  BY <1>4, <2>1, <2>2
<1>8. CASE SuffixesDone
  <2>  DEFINE T == TaskSuffixes(ueg, Candidate)
  <2>1. /\ stack = <<>> /\ phase' = "joining"
        /\ suffixes' = IF suffixes = <<>> THEN << <<Candidate>> >> ELSE suffixes
        /\ UNCHANGED <<turn, stack, prefixes, pair, chains, flags, reports>>
    BY <1>8 DEF SuffixesDone
  <2>2. /\ suffixes \in Seq(T) /\ (suffixes = <<>> => flags # {})
        /\ (flags = {} => T \subseteq Range(suffixes))
    <3>1. flags = {} => T \subseteq Range(suffixes)
      BY <1>3, <2>1, SuffixesComplete
    <3>  QED  BY <1>3, <2>1, <3>1 DEF SuffixSearch
  <2>3. JoinTypes(ueg, Candidate, prefixes, suffixes', flags)
    BY <1>3, <2>1, <2>2 DEF JoinTypes
  <2>4. pair'[1] \in Nat \ {0} /\ pair'[2] = 1 /\ pair'[1] = 1
    BY <1>2, <2>1
  <2>5. 1 \in DOMAIN suffixes'
    <3>1. CASE suffixes = <<>>
      <4>1. suffixes' = << <<Candidate>> >>
        BY <2>1, <3>1
      <4>  QED  BY <4>1
    <3>2. CASE suffixes # <<>>
      <4>  HIDE DEF T
      <4>  QED  BY <2>1, <2>2, <3>2
    <3>  QED  BY <3>1, <3>2
  <2>6. \A i \in DOMAIN prefixes, j \in DOMAIN suffixes' : ~Before(i, j, pair')
    <3>  DEFINE TP == TaskPrefixes(ueg, Candidate)
                s == suffixes'
                X == {<<Candidate>>}
    <3>1. prefixes \in Seq(TP)
      BY <1>3
    <3>2. s \in Seq(T) \/ s = << <<Candidate>> >>
      BY <2>1, <2>2
    <3>3. \A i \in DOMAIN prefixes : ~(i < 1)
      <4>  HIDE DEF TP
      <4>  QED  BY <3>1
    <3>4. \A j \in DOMAIN s : ~(j < 1)
      <4>1. CASE s \in Seq(T)
        <5>  HIDE DEF T, s
        <5>  QED  BY <4>1
      <4>2. CASE s = << <<Candidate>> >>
        <5>  HIDE DEF s
        <5>  QED  BY <4>2
      <4>  QED  BY <3>2, <4>1, <4>2
    <3>  QED  BY <2>4, <3>3, <3>4 DEF Before
  <2>7. /\ chains' = <<>> /\ Range(<<>>) = {} /\ IsInjective(<<>>)
    BY <1>3, <2>1 DEF Range, IsInjective
  <2>  DEFINE Y == Seq(NodesOf(ueg))
  <2>8. <<>> \in Seq(Y)
    OBVIOUS
  <2>9. JoinState(ueg, Candidate, prefixes, suffixes', pair', <<>>, flags)
    BY <2>3, <2>4, <2>5, <2>6, <2>7, <2>8 DEF JoinState
  <2>10. JoinInv'
    BY <1>1, <2>1, <2>7, <2>9 DEF JoinInv
  <2>  QED  BY <1>1, <1>2, <2>1, <2>10 DEF ChainInv, Searching
<1>  QED  BY <1>5, <1>6, <1>7, <1>8

(* One more chain. *)
LEMMA OneMoreChain ==
  ASSUME NEW X, NEW s \in Seq(X), IsInjective(s), NEW e \in X, e \notin Range(s)
  PROVE  IsInjective(Append(s, e))
<1>  DEFINE w == Append(s, e)
            n == Len(s)
<1>1. /\ DOMAIN s = 1..n /\ n \in Nat /\ Len(w) = n + 1 /\ DOMAIN w = 1..(n + 1)
      /\ w[n + 1] = e /\ \A i \in 1..n : w[i] = s[i]
  OBVIOUS
<1>  HIDE DEF w, n
<1>2. \A i \in 1..(n + 1) : i \in 1..n \/ i = n + 1
  BY <1>1
<1>3. \A i \in 1..n : w[i] # e
  BY <1>1 DEF Range
<1>4. \A i, j \in 1..n : s[i] = s[j] => i = j
  BY <1>1 DEF IsInjective
<1>5. \A i, j \in 1..(n + 1) : w[i] = w[j] => i = j
  BY <1>1, <1>2, <1>3, <1>4
<1>6. IsInjective(w)
  BY <1>1, <1>5 DEF IsInjective
<1>  QED  BY <1>6 DEF w

LEMMA SoundFlags ==
  ASSUME NEW g, NEW c, NEW met, NEW x, Sound(g, c, met, x)
  PROVE  Sound(g, c, met \union {"chain"}, x)
BY DEF Sound

(* The steps that join. *)
LEMMA StepOfJoining ==
  ASSUME OrderInv, ChainInv, UNCHANGED poolVars, JoinPair \/ AllPairsJoined
  PROVE  ChainInv'
<1>  DEFINE C == Seq(NodesOf(ueg))
<1>1. UNCHANGED <<ueg, outcome, candidates>> /\ (turn' = turn => Candidate' = Candidate)
  BY DEF poolVars, Candidate
<1>2. phase = "joining" /\ UNCHANGED stack
  BY DEF JoinPair, AllPairsJoined
<1>3. /\ JoinInv /\ turn \in DOMAIN candidates /\ outcome = "extracted" /\ stack = <<>>
      /\ phase \in Searching
  BY <1>2 DEF ChainInv, Searching
<1>4. /\ Searchable(ueg, Candidate)
      /\ JoinState(ueg, Candidate, prefixes, suffixes, pair, chains, flags)
  BY <1>3, CandidateIsSearchable DEF JoinInv
<1>5. /\ JoinTypes(ueg, Candidate, prefixes, suffixes, flags)
      /\ chains \in Seq(C) /\ IsInjective(chains)
      /\ \A x \in Range(chains) : Sound(ueg, Candidate, flags, x)
      /\ pair[2] \in DOMAIN suffixes
  BY <1>4 DEF JoinState
<1>6. CASE AllPairsJoined
  <2>1. pair[1] \notin DOMAIN prefixes /\ Report(chains, flags)
    BY <1>6 DEF AllPairsJoined
  <2>2. flags = {} => ChainsOf(ueg, Candidate) \subseteq Range(chains)
    BY <1>4, <2>1, AllJoined
  <2>  QED  BY <1>1, <1>2, <1>3, <1>4, <1>5, <2>1, <2>2, ReportStep
<1>7. CASE JoinPair
  <2>1. pair[1] \in DOMAIN prefixes /\ UNCHANGED <<prefixes, suffixes>>
    BY <1>7 DEF JoinPair
  <2>2. Joined = ChainOf(ueg, prefixes[pair[1]], suffixes[pair[2]])
    BY DEF Joined, ChainOf
  <2>3. Sound(ueg, Candidate, flags, Joined)
    BY <1>4, <1>5, <2>1, <2>2, JoinedSound
  <2>4. Joined \in C
    BY <2>3 DEF Sound
  <2>5. NextPair = NextPlace(suffixes, pair)
    BY DEF NextPair, NextPlace
  <2>6. ASSUME NEW more \in Seq(C), IsInjective(more),
               \A x \in Range(more) : Sound(ueg, Candidate, flags, x),
               Range(chains) \subseteq Range(more), Joined \in Range(more),
               chains' = more, pair' = NextPair, UNCHANGED <<phase, turn, flags, reports>>
        PROVE  ChainInv'
    <3>1. \A i \in DOMAIN prefixes, j \in DOMAIN suffixes :
            i = pair[1] /\ j = pair[2] => ChainOf(ueg, prefixes[i], suffixes[j]) \in Range(more)
      BY <2>2, <2>6
    <3>2. JoinState(ueg, Candidate, prefixes, suffixes, NextPlace(suffixes, pair), more, flags)
      BY <1>4, <2>6, <3>1, JoinMoves
    <3>3. JoinInv'
      BY <1>1, <2>1, <2>5, <2>6, <3>2 DEF JoinInv
    <3>  QED  BY <1>1, <1>2, <1>3, <2>6, <3>3 DEF ChainInv, Searching
  <2>7. CASE Joined \in Range(chains)
    <3>1. chains' = chains /\ pair' = NextPair /\ UNCHANGED <<phase, turn, flags, reports>>
      BY <1>7, <2>7 DEF JoinPair
    <3>  QED  BY <1>5, <2>6, <2>7, <3>1
  <2>8. CASE Joined \notin Range(chains)
    <3>  DEFINE more == Append(chains, Joined)
    <3>1. more \in Seq(C) /\ Range(more) = Range(chains) \union {Joined}
      <4>  HIDE DEF C
      <4>  QED  BY <1>5, <2>4, AppendElements
    <3>2. IsInjective(more)
      <4>  HIDE DEF C
      <4>  QED  BY <1>5, <2>4, <2>8, OneMoreChain
    <3>  HIDE DEF more
    <3>3. \A x \in Range(more) : Sound(ueg, Candidate, flags, x)
      BY <1>5, <2>3, <3>1
    <3>4. chains' = more
      BY <1>7, <2>8 DEF JoinPair, more
    <3>5. CASE Len(chains') >= MaxChains
      <4>  DEFINE met == flags \union {"chain"}
      <4>1. Report(more, met)
        BY <1>7, <2>8, <3>4, <3>5 DEF JoinPair, Report
      <4>2. \A x \in Range(more) : Sound(ueg, Candidate, met, x)
        BY <3>3, SoundFlags
      <4>3. met # {}
        OBVIOUS
      <4>  HIDE DEF met
      <4>  QED  BY <1>1, <1>2, <1>3, <1>4, <3>1, <3>2, <4>1, <4>2, <4>3, ReportStep
    <3>6. CASE ~(Len(chains') >= MaxChains)
      <4>1. pair' = NextPair /\ UNCHANGED <<phase, turn, flags, reports>>
        BY <1>7, <2>8, <3>6 DEF JoinPair
      <4>  QED  BY <2>6, <3>1, <3>2, <3>3, <3>4, <4>1
    <3>  QED  BY <3>5, <3>6
  <2>  QED  BY <2>7, <2>8
<1>  QED  BY <1>6, <1>7

LEMMA StepChain ==
  OrderInv /\ ChainInv /\ [Next]_vars => ChainInv'
<1>  SUFFICES ASSUME OrderInv, ChainInv, [Next]_vars PROVE ChainInv'
  OBVIOUS
<1>1. CASE UNCHANGED chainVars /\ [PoolNext]_poolVars
  BY <1>1, StepOfPool
<1>2. CASE UNCHANGED poolVars /\ ChainNext
  <2>1. CASE NoCandidates
    <3>1. /\ phase = "waiting" /\ outcome = "extracted" /\ phase' = "reported"
          /\ UNCHANGED <<turn, stack, pair, reports>>
          /\ UNCHANGED <<ueg, outcome, candidates>>
      BY <1>2, <2>1 DEF NoCandidates, poolVars
    <3>  QED  BY <3>1 DEF ChainInv, Searching
  <2>2. CASE PathTooDeep
    <3>1. phase \in {"prefixes", "suffixes"}
      BY <2>2 DEF PathTooDeep
    <3>  QED  BY <1>2, <2>2, <3>1, StepOfPrefixes, StepOfSuffixes
  <2>3. CASE BeginCandidate \/ NextEntry \/ PrefixFound \/ PrefixExtended
    BY <1>2, <2>3, StepOfPrefixes
  <2>4. CASE PrefixesDone
    BY <1>2, <2>4, StepToSuffixes
  <2>5. CASE SuffixFound \/ SuffixExtended \/ SuffixesDone
    <3>1. phase = "suffixes"
      BY <2>5 DEF SuffixFound, SuffixExtended, SuffixesDone
    <3>  QED  BY <1>2, <2>5, <3>1, StepOfSuffixes
  <2>6. CASE JoinPair \/ AllPairsJoined
    BY <1>2, <2>6, StepOfJoining
  <2>  QED  BY <1>2, <2>1, <2>2, <2>3, <2>4, <2>5, <2>6 DEF ChainNext
<1>  QED  BY <1>1, <1>2 DEF Next, vars

-------------------------------------------------------------------------------
(* The extraction is the pool's: the enumeration leaves its state alone.      *)
THEOREM EnumerationKeepsPool == Spec => PoolSpec
<1>1. Init => PoolInit
  BY DEF Init
<1>2. [Next]_vars => [PoolNext]_poolVars
  BY DEF Next, vars
<1>  QED  BY <1>1, <1>2, PTL DEF Spec, PoolSpec

(* What the searches have found, may still find and have cut, at every step   *)
(* of the enumeration (legitimate_chain_extractor.py 11-244).                 *)
THEOREM SpecChainInv == Spec => []ChainInv
<1>1. PoolSpec => []OrderInv
  BY InitIInv, StepIInv, InitOrder, StepOrder, PTL DEF PoolSpec
<1>2. Init => ChainInv
  BY InitChain DEF Init
<1>  QED  BY <1>1, <1>2, EnumerationKeepsPool, StepChain, PTL DEF Spec

LEMMA TaskChainsAre ==
  ASSUME NEW c
  PROVE  /\ TaskChains(ueg, c) = ChainsOf(ueg, c)
         /\ {Actions(p) : p \in TaskPrefixes(ueg, c)}
              = {Materialized(ueg, p) : p \in TaskPrefixes(ueg, c)}
<1>1. \A p : Actions(p) = Materialized(ueg, p)
  BY DEF Actions, Materialized, IsStructural
<1>  QED  BY <1>1 DEF TaskChains, ChainsOf, ChainOf

LEMMA ReportsOK ==
  ASSUME ChainInv, NEW r \in Range(reports)
  PROVE  ReportOK(ueg, r)
<1>  DEFINE R == Reports(ueg)
<1>1. reports \in Seq(R)
  BY DEF ChainInv
<1>2. r \in R
  <2>  HIDE DEF R
  <2>  QED  BY <1>1 DEF Range
<1>  QED  BY <1>2 DEF Reports

(* Whatever the bounds cut, each reported chain is a path of the graph        *)
(* through its candidate (legitimate_chain_extractor.py 64-76).               *)
THEOREM ChainsArePaths == Spec => []ChainsAreTaskPaths
<1>1. ChainInv => ChainsAreTaskPaths
  <2>  SUFFICES ASSUME ChainInv, NEW r \in Range(reports)
                PROVE  /\ IsInjective(r.chains)
                       /\ \A chain \in Range(r.chains) :
                            /\ r.candidate \in Range(chain)
                            /\ \/ chain \in TaskChains(ueg, r.candidate)
                               \/ /\ r.truncated
                                  /\ chain \in {Actions(p) :
                                                  p \in TaskPrefixes(ueg, r.candidate)}
    BY DEF ChainsAreTaskPaths
  <2>1. ReportOK(ueg, r)
    BY ReportsOK
  <2>  QED  BY <2>1, TaskChainsAre DEF ReportOK
<1>  QED  BY <1>1, SpecChainInv, PTL

(* A report that does not say "truncated" misses no task path (service.py     *)
(* 93-109, validate_pipeline.py 46-57).                                       *)
THEOREM CoverageIsTold == Spec => []UntruncatedIsComplete
<1>1. ChainInv => UntruncatedIsComplete
  <2>  SUFFICES ASSUME ChainInv, NEW r \in Range(reports), ~r.truncated
                PROVE  Range(r.chains) = TaskChains(ueg, r.candidate)
    BY DEF UntruncatedIsComplete
  <2>1. ReportOK(ueg, r)
    BY ReportsOK
  <2>  QED  BY <2>1, TaskChainsAre DEF ReportOK
<1>  QED  BY <1>1, SpecChainInv, PTL
===============================================================================
