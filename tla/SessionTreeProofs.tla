------------------------- MODULE SessionTreeProofs -------------------------
(***************************************************************************)
(* Proofs about SessionTree: for every session, whatever its branches and  *)
(* however often it was compacted, a summary stands for exactly the path   *)
(* that leads to its cursor, and what the model is sent is the active path. *)
(***************************************************************************)
EXTENDS SessionTree, SequenceTheorems, WellFoundedInduction, TLAPS

(* Paths lead through the tree: each ends in its node, and the path of a   *)
(* node on it is its beginning.                                            *)
PathsInv ==
  \A n \in 1 .. Len(nodes) :
    LET p == nodes[n].path IN
      /\ p \in Seq(1 .. Len(nodes)) /\ Len(p) > 0
      /\ \A i \in 1 .. Len(p) : nodes[p[i]].path = SubSeq(p, 1, i)

ShapeInv ==
  /\ nodes \in Seq(Node)
  /\ cursor \in 0 .. Len(nodes)
  /\ summaries \in Seq(Summary)
  /\ \A s \in 1 .. Len(summaries) : summaries[s].cursor \in 1 .. Len(nodes)

(* While results are being written some call of the reply still lacks one. *)
OwedInv == phase = "results" => cursor # 0 /\ nodes[cursor].owed > 0

TreeInv == ShapeInv /\ PathsInv /\ OwedInv /\ SummariesCoverTheirPath

(* A bounded set of naturals that is not empty has a greatest member.      *)
LEMMA MaxExists ==
  ASSUME NEW n \in Nat, NEW T \in SUBSET (0 .. n), T # {}
  PROVE  \E k \in T : \A j \in T : j <= k
<1> DEFINE U == {n - x : x \in T}
<1>0. \A x \in T : x \in Nat /\ n - x \in Nat
  OBVIOUS
<1>1. U \subseteq Nat /\ U # {}
  BY <1>0
<1>2. PICK u \in U : \A v \in U : ~(<<v, u>> \in OpToRel(<, Nat))
  BY <1>1, NatLessThanWellFounded, WFMin
<1>3. \A v \in U : ~(v < u)
  BY <1>1, <1>2 DEF OpToRel
<1>4. PICK k \in T : u = n - k
  OBVIOUS
<1>5. \A j \in T : n - j \in U
  OBVIOUS
<1> HIDE DEF U
<1>6. ASSUME NEW j \in T PROVE j <= k
  <2>1. ~(n - j < n - k)
    BY <1>3, <1>4, <1>5
  <2>2. j \in Nat /\ k \in Nat
    BY <1>0
  <2> QED
    BY <2>1, <2>2
<1> QED
  BY <1>6

-----------------------------------------------------------------------------
(* What the choices of the context find.                                   *)
LEMMA PathTyped ==
  ASSUME ShapeInv, PathsInv
  PROVE  /\ Path \in Seq(1 .. Len(nodes))
         /\ Len(Path) \in Nat /\ DOMAIN Path = 1 .. Len(Path)
         /\ DOMAIN summaries = 1 .. Len(summaries) /\ Len(summaries) \in Nat
         /\ \A i \in 1 .. Len(Path) :
              /\ Path[i] \in 1 .. Len(nodes)
              /\ nodes[Path[i]].path = SubSeq(Path, 1, i)
<1>0. Len(nodes) \in Nat /\ DOMAIN summaries = 1 .. Len(summaries) /\ Len(summaries) \in Nat
  BY LenProperties DEF ShapeInv
<1>1. CASE cursor = 0
  <2>1. Path = <<>>
    BY <1>1 DEF Path, PathTo
  <2>2. <<>> \in Seq(1 .. Len(nodes)) /\ Len(<<>>) = 0 /\ DOMAIN <<>> = 1 .. 0
    OBVIOUS
  <2> QED
    BY <1>0, <2>1, <2>2
<1>2. CASE cursor # 0
  <2>1. Path = nodes[cursor].path /\ cursor \in 1 .. Len(nodes)
    BY <1>0, <1>2 DEF Path, PathTo, ShapeInv
  <2>2. Path \in Seq(1 .. Len(nodes))
        /\ \A i \in 1 .. Len(Path) : nodes[Path[i]].path = SubSeq(Path, 1, i)
    BY <2>1 DEF PathsInv
  <2> QED
    BY <1>0, <2>2, LenProperties, ElementOfSeq
<1> QED
  BY <1>1, <1>2

LEMMA LatestFound ==
  ASSUME ShapeInv, PathsInv, Latest # 0
  PROVE  Latest \in 1 .. Len(summaries) /\ OnPath(Latest)
<1> DEFINE T == {s \in 1 .. Len(summaries) : OnPath(s)}
<1>0. DOMAIN summaries = 1 .. Len(summaries) /\ Len(summaries) \in Nat
  BY PathTyped
<1>1. T # {}
  BY <1>0 DEF Latest
<1>2. T \in SUBSET (0 .. Len(summaries))
  BY <1>0
<1>3. PICK s \in T : \A t \in T : t <= s
  BY <1>0, <1>1, <1>2, MaxExists
<1>4. \E x \in DOMAIN summaries :
        OnPath(x) /\ \A t \in DOMAIN summaries : OnPath(t) => t <= x
  BY <1>0, <1>3
<1> QED
  BY <1>0, <1>4 DEF Latest

LEMMA StartFound ==
  ASSUME ShapeInv, PathsInv
  PROVE  /\ Start \in 0 .. Len(Path)
         /\ Latest # 0 => Start > 0 /\ Path[Start] = summaries[Latest].cursor
         /\ Latest = 0 => Start = 0
<1>1. CASE Latest = 0
  BY <1>1, PathTyped DEF Start
<1>2. CASE Latest # 0
  <2>1. \E i \in DOMAIN Path : Path[i] = summaries[Latest].cursor
    BY <1>2, LatestFound DEF OnPath
  <2>2. Start \in DOMAIN Path /\ Path[Start] = summaries[Latest].cursor
    BY <1>2, <2>1 DEF Start
  <2> QED
    BY <1>2, <2>2, PathTyped
<1> QED
  BY <1>1, <1>2

LEMMA KeepFound ==
  ASSUME ShapeInv, PathsInv, Cuts # {}
  PROVE  Keep \in Start + 1 .. Len(Path) - Preserve /\ Boundary(Keep + 1)
<1>0. Len(Path) \in Nat /\ Start \in Nat
  BY PathTyped, StartFound
<1>1. Cuts \in SUBSET (0 .. Len(Path))
  BY <1>0, PreserveAssumption DEF Cuts
<1>2. \E k \in Cuts : \A j \in Cuts : j <= k
  BY <1>0, <1>1, MaxExists
<1>3. Keep \in Cuts
  BY <1>2 DEF Keep
<1> QED
  BY <1>3 DEF Cuts

(* The summary in use stands for the first Start messages of the path.     *)
LEMMA CoveredIsThePrefix ==
  ASSUME TreeInv
  PROVE  Covered = SubSeq(Path, 1, Start)
<1>0. ShapeInv /\ PathsInv /\ SummariesCoverTheirPath
  BY DEF TreeInv
<1>1. CASE Latest = 0
  <2>1. Start = 0 /\ Covered = <<>>
    BY <1>0, <1>1, StartFound DEF Covered
  <2>2. SubSeq(Path, 1, 0) = <<>>
    BY SubSeqEmpty
  <2> QED
    BY <2>1, <2>2
<1>2. CASE Latest # 0
  <2>1. /\ Start \in 1 .. Len(Path) /\ Path[Start] = summaries[Latest].cursor
        /\ Latest \in DOMAIN summaries
        /\ Path[Start] \in 1 .. Len(nodes)
        /\ nodes[Path[Start]].path = SubSeq(Path, 1, Start)
    BY <1>0, <1>2, StartFound, LatestFound, PathTyped
  <2>2. Covered = PathTo(Path[Start])
    BY <1>0, <1>2, <2>1 DEF Covered, SummariesCoverTheirPath
  <2>3. Path[Start] # 0
    BY <2>1
  <2> QED
    BY <2>1, <2>2, <2>3 DEF PathTo
<1> QED
  BY <1>1, <1>2

LEMMA ContextWhole ==
  ASSUME TreeInv
  PROVE  ContextIsThePath
<1>0. ShapeInv /\ PathsInv
  BY DEF TreeInv
<1>1. /\ Path \in Seq(1 .. Len(nodes)) /\ Len(Path) \in Nat
      /\ Start \in 0 .. Len(Path)
  BY <1>0, PathTyped, StartFound
<1>2. SubSeq(Path, 1, Start) \o SubSeq(Path, Start + 1, Len(Path)) = SubSeq(Path, 1, Len(Path))
  <2>1. 1 \in 1 .. Len(Path) + 1 /\ Start \in 1 - 1 .. Len(Path) /\ Len(Path) \in Start .. Len(Path)
    BY <1>1
  <2> QED
    BY <1>1, <2>1, ConcatAdjacentSubSeq
<1>3. SubSeq(Path, 1, Len(Path)) = Path
  BY <1>1, SubSeqFull
<1> QED
  BY <1>2, <1>3, CoveredIsThePrefix DEF ContextIsThePath, Kept
-----------------------------------------------------------------------------
(* The steps.                                                              *)

(* The beginning of a sequence is the same in any longer one.              *)
LEMMA PrefixOfAppend ==
  ASSUME NEW S, NEW p \in Seq(S), NEW e \in S, NEW i \in 0 .. Len(p)
  PROVE  SubSeq(Append(p, e), 1, i) = SubSeq(p, 1, i)
<1> DEFINE q == Append(p, e)
<1>1. q \in Seq(S) /\ Len(q) = Len(p) + 1 /\ \A j \in 1 .. Len(p) : q[j] = p[j]
  BY AppendProperties
<1>2. i \in Nat /\ Len(p) \in Nat /\ \A j \in 1 .. i : q[j] \in S /\ p[j] \in S
  BY <1>1, LenProperties, ElementOfSeq
<1> HIDE DEF q
<1>3. /\ SubSeq(q, 1, i) \in Seq(S) /\ SubSeq(p, 1, i) \in Seq(S)
      /\ Len(SubSeq(q, 1, i)) = i /\ Len(SubSeq(p, 1, i)) = i
      /\ \A j \in 1 .. i : SubSeq(q, 1, i)[j] = q[j] /\ SubSeq(p, 1, i)[j] = p[j]
  <2>1. i - 1 + 1 = i /\ \A j \in 1 .. i : 1 + j - 1 = j
    BY <1>2
  <2>2. /\ SubSeq(q, 1, i) \in Seq(S)
        /\ Len(SubSeq(q, 1, i)) = IF 1 <= i THEN i - 1 + 1 ELSE 0
        /\ \A j \in 1 .. i - 1 + 1 : SubSeq(q, 1, i)[j] = q[1 + j - 1]
    BY <1>2, SubSeqProperties
  <2>3. /\ SubSeq(p, 1, i) \in Seq(S)
        /\ Len(SubSeq(p, 1, i)) = IF 1 <= i THEN i - 1 + 1 ELSE 0
        /\ \A j \in 1 .. i - 1 + 1 : SubSeq(p, 1, i)[j] = p[1 + j - 1]
    BY <1>2, SubSeqProperties
  <2> QED
    BY <1>2, <2>1, <2>2, <2>3
<1>4. SubSeq(q, 1, i) = SubSeq(p, 1, i)
  BY <1>1, <1>2, <1>3, SeqEqual
<1> QED
  BY <1>4 DEF q

LEMMA AppendKeepsPaths ==
  ASSUME ShapeInv, PathsInv, NEW role \in Roles, NEW owed \in 0 .. MaxCalls,
         AppendMessage(role, owed)
  PROVE  /\ nodes' \in Seq(Node) /\ Len(nodes') = Len(nodes) + 1
         /\ cursor' = Len(nodes')
         /\ \A n \in 1 .. Len(nodes) : nodes'[n] = nodes[n]
         /\ nodes'[cursor'].owed = owed
         /\ PathsInv'
<1> DEFINE N == Len(nodes) + 1
           p == Append(Path, N)
           node == [role |-> role, owed |-> owed, path |-> p]
<1>1. /\ Path \in Seq(1 .. Len(nodes)) /\ Len(Path) \in Nat
      /\ \A i \in 1 .. Len(Path) :
           /\ Path[i] \in 1 .. Len(nodes)
           /\ nodes[Path[i]].path = SubSeq(Path, 1, i)
  BY PathTyped
<1>2. Len(nodes) \in Nat /\ nodes \in Seq(Node)
  BY LenProperties DEF ShapeInv
<1>3. Path \in Seq(1 .. N) /\ Path \in Seq(Nat) /\ N \in 1 .. N /\ N \in Nat
  <2>1. 1 .. Len(nodes) \subseteq 1 .. N /\ 1 .. Len(nodes) \subseteq Nat
    BY <1>2
  <2> QED
    BY <1>1, <1>2, <2>1
<1>4. /\ p \in Seq(1 .. N) /\ p \in Seq(Nat) /\ Len(p) = Len(Path) + 1
      /\ \A i \in 1 .. Len(Path) : p[i] = Path[i]
      /\ p[Len(Path) + 1] = N
  BY <1>3, AppendProperties
<1>5. node \in Node
  BY <1>4 DEF Node
<1>6. /\ nodes' \in Seq(Node) /\ Len(nodes') = N
      /\ \A n \in 1 .. Len(nodes) : nodes'[n] = nodes[n]
      /\ nodes'[N] = node
      /\ cursor' = N
  BY <1>2, <1>5, AppendProperties DEF AppendMessage
<1>a. nodes'[N].path = p /\ nodes'[N].owed = owed
  BY <1>6
<1>b. SubSeq(p, 1, Len(p)) = p /\ Len(p) > 0
  BY <1>1, <1>4, SubSeqFull
<1> HIDE DEF p, node
<1>7. ASSUME NEW i \in 1 .. Len(p) PROVE nodes'[p[i]].path = SubSeq(p, 1, i)
  <2>1. CASE i \in 1 .. Len(Path)
    <3>1. nodes'[p[i]] = nodes[Path[i]] /\ nodes[Path[i]].path = SubSeq(Path, 1, i)
      BY <1>1, <1>4, <1>6, <2>1
    <3>2. i \in 0 .. Len(Path)
      BY <2>1
    <3>3. SubSeq(p, 1, i) = SubSeq(Path, 1, i)
      BY <1>3, <3>2, PrefixOfAppend DEF p
    <3> QED
      BY <3>1, <3>3
  <2>2. CASE i = Len(p)
    <3>1. p[i] = N
      BY <1>4, <2>2
    <3> QED
      BY <1>a, <1>b, <2>2, <3>1
  <2> QED
    BY <1>1, <1>4, <2>1, <2>2
<1>8. PathsInv'
  <2> SUFFICES ASSUME NEW n \in 1 .. Len(nodes')
               PROVE  /\ nodes'[n].path \in Seq(1 .. Len(nodes')) /\ Len(nodes'[n].path) > 0
                      /\ \A i \in 1 .. Len(nodes'[n].path) :
                           nodes'[nodes'[n].path[i]].path = SubSeq(nodes'[n].path, 1, i)
    BY DEF PathsInv
  <2>1. CASE n = N
    <3>1. nodes'[n].path = p
      BY <1>a, <2>1
    <3> QED
      BY <1>4, <1>6, <1>7, <1>b, <3>1
  <2>2. CASE n \in 1 .. Len(nodes)
    <3>1. nodes'[n] = nodes[n]
      BY <1>6, <2>2
    <3>2. /\ nodes[n].path \in Seq(1 .. Len(nodes)) /\ Len(nodes[n].path) > 0
          /\ \A i \in 1 .. Len(nodes[n].path) :
               nodes[nodes[n].path[i]].path = SubSeq(nodes[n].path, 1, i)
      BY <2>2 DEF PathsInv
    <3>3. \A i \in 1 .. Len(nodes[n].path) : nodes[n].path[i] \in 1 .. Len(nodes)
      BY <3>2, ElementOfSeq
    <3>4. nodes[n].path \in Seq(1 .. N)
      <4>1. 1 .. Len(nodes) \subseteq 1 .. N
        BY <1>2
      <4> QED
        BY <3>2, <4>1
    <3> QED
      BY <1>6, <3>1, <3>2, <3>3, <3>4
  <2> QED
    BY <1>2, <1>6, <2>1, <2>2
<1> QED
  BY <1>6, <1>8, <1>a
(* Summaries keep standing for their paths while the tree grows.           *)
LEMMA SummariesKept ==
  ASSUME TreeInv, summaries' = summaries,
         Len(nodes') >= Len(nodes), Len(nodes') \in Nat,
         \A n \in 1 .. Len(nodes) : nodes'[n] = nodes[n]
  PROVE  SummariesCoverTheirPath'
<1> SUFFICES ASSUME NEW s \in DOMAIN summaries
             PROVE  summaries[s].covers = PathTo(summaries[s].cursor)'
  BY DEF SummariesCoverTheirPath
<1>1. summaries[s].cursor \in 1 .. Len(nodes) /\ summaries[s].cursor # 0
  BY LenProperties DEF TreeInv, ShapeInv
<1>2. summaries[s].covers = nodes[summaries[s].cursor].path
  BY <1>1 DEF TreeInv, SummariesCoverTheirPath, PathTo
<1> QED
  BY <1>1, <1>2 DEF PathTo
LEMMA TreeInit == Init => TreeInv
<1> SUFFICES ASSUME Init PROVE TreeInv
  OBVIOUS
<1>1. /\ nodes = <<>> /\ Len(nodes) = 0 /\ nodes \in Seq(Node) /\ cursor = 0
      /\ summaries = <<>> /\ Len(summaries) = 0 /\ summaries \in Seq(Summary)
      /\ DOMAIN summaries = {} /\ phase = "idle"
  BY DEF Init
<1> QED
  BY <1>1 DEF TreeInv, ShapeInv, PathsInv, OwedInv, SummariesCoverTheirPath

(* A message joined the active path and nothing else happened.             *)
LEMMA AppendStep ==
  ASSUME TreeInv, NEW role \in Roles, NEW owed \in 0 .. MaxCalls,
         AppendMessage(role, owed), UNCHANGED summaries,
         phase' = "results" => owed > 0
  PROVE  TreeInv'
<1>0. ShapeInv /\ PathsInv /\ Len(nodes) \in Nat
  BY LenProperties DEF TreeInv, ShapeInv
<1>1. /\ nodes' \in Seq(Node) /\ Len(nodes') = Len(nodes) + 1
      /\ cursor' = Len(nodes')
      /\ \A n \in 1 .. Len(nodes) : nodes'[n] = nodes[n]
      /\ nodes'[cursor'].owed = owed
      /\ PathsInv'
  BY <1>0, AppendKeepsPaths
<1>2. SummariesCoverTheirPath'
  BY <1>0, <1>1, SummariesKept
<1>3. ShapeInv'
  BY <1>0, <1>1 DEF ShapeInv
<1>4. OwedInv'
  BY <1>0, <1>1 DEF OwedInv
<1> QED
  BY <1>1, <1>2, <1>3, <1>4 DEF TreeInv

(* The cursor moved and nothing else happened.                             *)
LEMMA MoveStep ==
  ASSUME TreeInv, UNCHANGED <<nodes, summaries>>, cursor' \in 0 .. Len(nodes),
         phase' = "results" => UNCHANGED <<cursor, phase>>
  PROVE  TreeInv'
BY DEF TreeInv, ShapeInv, PathsInv, OwedInv, SummariesCoverTheirPath, PathTo

LEMMA CompactStep ==
  ASSUME TreeInv, Compact
  PROVE  TreeInv'
<1> DEFINE new == [cursor |-> Path[Keep], covers |-> Archived]
<1>0. ShapeInv /\ PathsInv /\ SummariesCoverTheirPath /\ Len(nodes) \in Nat
  BY LenProperties DEF TreeInv, ShapeInv
<1>1. /\ Path \in Seq(1 .. Len(nodes)) /\ Len(Path) \in Nat /\ Start \in 0 .. Len(Path)
      /\ Keep \in Start + 1 .. Len(Path) - Preserve
  BY <1>0, PathTyped, StartFound, KeepFound DEF Compact
<1>2. Keep \in 1 .. Len(Path) /\ Keep \in Nat
  BY <1>1, PreserveAssumption
<1>3. /\ Path[Keep] \in 1 .. Len(nodes)
      /\ nodes[Path[Keep]].path = SubSeq(Path, 1, Keep)
  BY <1>0, <1>2, PathTyped
<1>4. Archived = SubSeq(Path, 1, Keep)
  <2>1. 1 \in 1 .. Len(Path) + 1 /\ Start \in 1 - 1 .. Len(Path) /\ Keep \in Start .. Len(Path)
    BY <1>1, <1>2
  <2>2. SubSeq(Path, 1, Start) \o SubSeq(Path, Start + 1, Keep) = SubSeq(Path, 1, Keep)
    BY <1>1, <2>1, ConcatAdjacentSubSeq
  <2> QED
    BY <2>2, CoveredIsThePrefix DEF Archived
<1>5. new \in Summary
  <2>1. Path[Keep] \in Nat /\ nodes[Path[Keep]] \in Node
    BY <1>0, <1>3, ElementOfSeq DEF ShapeInv
  <2>2. nodes[Path[Keep]].path \in Seq(Nat)
    BY <2>1 DEF Node
  <2> QED
    BY <1>3, <1>4, <2>1, <2>2 DEF Summary
<1>6. /\ summaries' \in Seq(Summary) /\ Len(summaries') = Len(summaries) + 1
      /\ Len(summaries) \in Nat
      /\ \A s \in 1 .. Len(summaries) : summaries'[s] = summaries[s]
      /\ summaries'[Len(summaries) + 1] = new
      /\ DOMAIN summaries' = 1 .. Len(summaries) + 1
      /\ DOMAIN summaries = 1 .. Len(summaries)
  BY <1>0, <1>5, AppendProperties, LenProperties DEF Compact, ShapeInv
<1>7. /\ nodes' \in Seq(Node) /\ Len(nodes') \in Nat /\ Len(nodes') >= Len(nodes)
      /\ cursor' \in 0 .. Len(nodes')
      /\ \A n \in 1 .. Len(nodes) : nodes'[n] = nodes[n]
      /\ PathsInv'
  <2>1. CASE UNCHANGED <<nodes, cursor>>
    BY <1>0, <2>1, SMTT(30) DEF ShapeInv, PathsInv
  <2>2. CASE AppendMessage("system", 0)
    <3>1. "system" \in Roles /\ 0 \in 0 .. MaxCalls
      BY BoundsAssumption DEF Roles
    <3> QED
      BY <1>0, <2>2, <3>1, AppendKeepsPaths
  <2> QED
    BY <2>1, <2>2 DEF Compact
<1>8. \A s \in 1 .. Len(summaries') :
        /\ summaries'[s].cursor \in 1 .. Len(nodes)
        /\ summaries'[s].covers = nodes[summaries'[s].cursor].path
  <2>1. new.cursor = Path[Keep] /\ new.covers = Archived
    OBVIOUS
  <2>2. \A s \in 1 .. Len(summaries) :
          /\ summaries[s].cursor \in 1 .. Len(nodes) /\ summaries[s].cursor # 0
          /\ summaries[s].covers = nodes[summaries[s].cursor].path
    BY <1>0, <1>6 DEF ShapeInv, SummariesCoverTheirPath, PathTo
  <2> HIDE DEF new
  <2>3. ASSUME NEW s \in 1 .. Len(summaries')
        PROVE  /\ summaries'[s].cursor \in 1 .. Len(nodes)
               /\ summaries'[s].covers = nodes[summaries'[s].cursor].path
    <3>1. CASE s \in 1 .. Len(summaries)
      BY <1>6, <2>2, <3>1
    <3>2. CASE s = Len(summaries) + 1
      BY <1>3, <1>4, <1>6, <2>1, <3>2
    <3> QED
      BY <1>6, <3>1, <3>2
  <2> QED
    BY <2>3
<1>9. SummariesCoverTheirPath'
  <2> SUFFICES ASSUME NEW s \in DOMAIN summaries'
               PROVE  summaries'[s].covers = PathTo(summaries[s].cursor)'
    BY DEF SummariesCoverTheirPath
  <2> QED
    BY <1>6, <1>7, <1>8 DEF PathTo
<1>10. ShapeInv'
  BY <1>6, <1>7, <1>8 DEF ShapeInv
<1>11. OwedInv'
  BY DEF Compact, OwedInv
<1> QED
  BY <1>7, <1>9, <1>10, <1>11 DEF TreeInv

LEMMA TreeStep ==
  ASSUME TreeInv, [Next]_vars
  PROVE  TreeInv'
<1>0. ShapeInv /\ PathsInv /\ OwedInv /\ Len(nodes) \in Nat /\ cursor \in 0 .. Len(nodes)
  BY LenProperties DEF TreeInv, ShapeInv
<1>1. \A r \in {"user", "assistant", "system", "tool"} : r \in Roles
  BY DEF Roles
<1>2. CASE Prompt \/ Steer
  <2>1. AppendMessage("user", 0) /\ UNCHANGED summaries /\ phase' # "results"
    BY <1>2 DEF Prompt, Steer
  <2>2. 0 \in 0 .. MaxCalls
    BY BoundsAssumption
  <2> QED
    BY <1>1, <2>1, <2>2, AppendStep
<1>3. CASE Compact
  BY <1>3, CompactStep
<1>4. ASSUME NEW n \in 0 .. MaxCalls, Reply(n) PROVE TreeInv'
  <2>1. /\ AppendMessage("assistant", n) /\ UNCHANGED summaries
        /\ phase' = "results" => n > 0
    BY <1>4, BoundsAssumption DEF Reply
  <2> QED
    BY <1>1, <2>1, AppendStep
<1>5. CASE Result
  <2>1. cursor \in 1 .. Len(nodes) /\ nodes[cursor].owed > 0 /\ Owed = nodes[cursor].owed
    BY <1>0, <1>5 DEF Result, OwedInv, Owed
  <2>2. nodes[cursor] \in Node
    BY <1>0, <2>1, ElementOfSeq DEF ShapeInv
  <2>3. Owed - 1 \in 0 .. MaxCalls /\ Owed \in Nat /\ Owed > 0
    BY <2>1, <2>2, BoundsAssumption DEF Node
  <2>4. phase' = "results" => Owed - 1 > 0
    BY <1>5, <2>3 DEF Result
  <2> QED
    BY <1>1, <1>5, <2>3, <2>4, AppendStep DEF Result
<1>6. CASE AskAgain \/ RunEnds
  BY <1>0, <1>6, MoveStep DEF AskAgain, RunEnds
<1>7. ASSUME NEW n \in DOMAIN nodes, Checkout(n) PROVE TreeInv'
  <2>1. n \in 0 .. Len(nodes)
    BY <1>0, LenProperties DEF ShapeInv
  <2> QED
    BY <1>7, <2>1, MoveStep DEF Checkout
<1>8. CASE Rewind
  <2>1. cursor' \in 0 .. Len(nodes)
    <3>1. PICK i \in 1 .. Len(Path) : cursor' = IF i = 1 THEN 0 ELSE Path[i - 1]
      BY <1>0, <1>8, PathTyped DEF Rewind
    <3>2. i # 1 => i - 1 \in 1 .. Len(Path)
      BY <1>0, PathTyped
    <3> QED
      BY <1>0, <3>1, <3>2, PathTyped
  <2> QED
    BY <1>8, <2>1, MoveStep DEF Rewind
<1>9. CASE UNCHANGED vars
  BY <1>0, <1>9, MoveStep DEF vars
<1> QED
  BY <1>2, <1>3, <1>4, <1>5, <1>6, <1>7, <1>8, <1>9 DEF Next, Step

LEMMA TreeInvariant == Spec => []TreeInv
<1>1. TreeInv /\ [Next]_vars => TreeInv'
  BY TreeStep
<1> QED
  BY <1>1, TreeInit, PTL DEF Spec

(* A summary speaks of the path to its cursor, of all of it and of nothing *)
(* else, through any history of rewinds, branches and compactions.         *)
THEOREM SummariesAreFaithful == Spec => []SummariesCoverTheirPath
<1>1. TreeInv => SummariesCoverTheirPath
  BY DEF TreeInv
<1> QED
  BY <1>1, TreeInvariant, PTL

(* What a request carries is the active path, whole and in order.          *)
THEOREM RequestsCarryThePath == Spec => []ContextIsThePath
<1>1. TreeInv => ContextIsThePath
  BY ContextWhole
<1> QED
  BY <1>1, TreeInvariant, PTL

(* The places a run is at.                                                 *)
Phases == {"idle", "ask", "reply", "results", "drain"}

LEMMA PhaseTyped == Spec => [](phase \in Phases)
<1>1. Init => phase \in Phases
  BY DEF Init, Phases
<1>2. phase \in Phases /\ [Next]_vars => (phase \in Phases)'
  BY DEF Phases, Next, Step, vars, Prompt, Compact, Reply, Result, Steer, AskAgain, RunEnds,
         Checkout, Rewind
<1> QED
  BY <1>1, <1>2, PTL DEF Spec

(* The cursor names a node, paths and summaries are sequences of nodes, and *)
(* a run is at one of its places, for every history of a session.           *)
THEOREM TreeTypes == Spec => []TypeOK
<1>1. TreeInv /\ phase \in Phases => TypeOK
  BY DEF TreeInv, ShapeInv, TypeOK, Phases
<1> QED
  BY <1>1, TreeInvariant, PhaseTyped, PTL
-----------------------------------------------------------------------------
(* Every path opens with a prompt, ends in its node, and goes on to a      *)
(* result only from a message that still owes one.                         *)
EdgeInv ==
  \A n \in 1 .. Len(nodes) :
    LET p == nodes[n].path IN
      /\ p[Len(p)] = n
      /\ Len(p) = 1 => Role(n) = "user"
      /\ Role(n) = "tool" => Len(p) > 1 /\ nodes[p[Len(p) - 1]].owed > 0

(* A message that owes a result is followed by one.                        *)
WholePaths ==
  \A n \in 1 .. Len(nodes) :
    LET p == nodes[n].path IN
      Len(p) > 1 /\ nodes[p[Len(p) - 1]].owed > 0 => Role(n) = "tool"

(* During a run the summary never stands for all that was said.            *)
SpeaksInv ==
  phase # "idle" => \E i \in Start + 1 .. Len(Path) : Role(Path[i]) # "system"

(* As long as the person keeps out of rounds of results.                   *)
WholeInv ==
  /\ phase # "results" => Owed = 0
  /\ WholePaths
  /\ \A s \in 1 .. Len(summaries) : nodes[summaries[s].cursor].owed = 0

LEMMA MinExists ==
  ASSUME NEW T \in SUBSET Nat, T # {}
  PROVE  \E k \in T : \A j \in T : k <= j
<1>1. PICK k \in T : \A j \in T : ~(<<j, k>> \in OpToRel(<, Nat))
  BY NatLessThanWellFounded, WFMin
<1>2. \A j \in T : ~(j < k)
  BY <1>1 DEF OpToRel
<1> QED
  BY <1>2

(* The nodes of the active path, and the paths that lead to them.          *)
LEMMA PathPrefixes ==
  ASSUME ShapeInv, PathsInv, NEW i \in 1 .. Len(Path)
  PROVE  /\ Path[i] \in 1 .. Len(nodes) /\ Len(nodes[Path[i]].path) = i
         /\ \A j \in 1 .. i : nodes[Path[i]].path[j] = Path[j]
<1>1. /\ Path \in Seq(1 .. Len(nodes)) /\ Len(Path) \in Nat
      /\ Path[i] \in 1 .. Len(nodes) /\ nodes[Path[i]].path = SubSeq(Path, 1, i)
  BY PathTyped
<1>2. \A j \in 1 .. i : Path[j] \in 1 .. Len(nodes)
  BY <1>1, ElementOfSeq
<1>3. 1 <= i /\ i - 1 + 1 = i /\ \A j \in 1 .. i : 1 + j - 1 = j
  BY <1>1
<1>4. /\ Len(SubSeq(Path, 1, i)) = IF 1 <= i THEN i - 1 + 1 ELSE 0
      /\ \A j \in 1 .. i - 1 + 1 : SubSeq(Path, 1, i)[j] = Path[1 + j - 1]
  BY <1>1, <1>2, SubSeqProperties
<1> QED
  BY <1>1, <1>3, <1>4

LEMMA PathEdges == ShapeInv /\ PathsInv /\ EdgeInv =>
  /\ cursor # 0 => Len(Path) > 0 /\ Path[Len(Path)] = cursor
  /\ cursor = 0 => Len(Path) = 0
  /\ \A i, j \in 1 .. Len(Path) : Path[i] = Path[j] => i = j
  /\ Len(Path) > 0 => Role(Path[1]) = "user"
  /\ \A i \in 1 .. Len(Path) - 1 : Role(Path[i + 1]) = "tool" => nodes[Path[i]].owed > 0
  /\ WholePaths => \A i \in 1 .. Len(Path) - 1 :
       nodes[Path[i]].owed > 0 => Role(Path[i + 1]) = "tool"
<1> SUFFICES ASSUME ShapeInv, PathsInv, EdgeInv
             PROVE  /\ cursor # 0 => Len(Path) > 0 /\ Path[Len(Path)] = cursor
                    /\ cursor = 0 => Len(Path) = 0
                    /\ \A i, j \in 1 .. Len(Path) : Path[i] = Path[j] => i = j
                    /\ Len(Path) > 0 => Role(Path[1]) = "user"
                    /\ \A i \in 1 .. Len(Path) - 1 :
                         Role(Path[i + 1]) = "tool" => nodes[Path[i]].owed > 0
                    /\ WholePaths => \A i \in 1 .. Len(Path) - 1 :
                         nodes[Path[i]].owed > 0 => Role(Path[i + 1]) = "tool"
  OBVIOUS
<1>0. Len(Path) \in Nat /\ Len(nodes) \in Nat /\ cursor \in 0 .. Len(nodes)
  BY PathTyped, LenProperties DEF ShapeInv
<1>1. cursor # 0 => Len(Path) > 0 /\ Path[Len(Path)] = cursor
  BY <1>0 DEF Path, PathTo, PathsInv, EdgeInv
<1>2. cursor = 0 => Len(Path) = 0
  BY DEF Path, PathTo
<1>3. \A i, j \in 1 .. Len(Path) : Path[i] = Path[j] => i = j
  BY PathPrefixes
<1>4. Len(Path) > 0 => Role(Path[1]) = "user"
  <2>1. Len(Path) > 0 => 1 \in 1 .. Len(Path)
    BY <1>0
  <2> QED
    BY <2>1, PathPrefixes DEF EdgeInv
<1>5. ASSUME NEW i \in 1 .. Len(Path) - 1
      PROVE  /\ Path[i + 1] \in 1 .. Len(nodes)
             /\ Len(nodes[Path[i + 1]].path) = i + 1
             /\ nodes[Path[i + 1]].path[Len(nodes[Path[i + 1]].path) - 1] = Path[i]
  <2>1. i + 1 \in 1 .. Len(Path) /\ i \in 1 .. i + 1 /\ (i + 1) - 1 = i
    BY <1>0
  <2> QED
    BY <2>1, PathPrefixes
<1>6. \A i \in 1 .. Len(Path) - 1 : Role(Path[i + 1]) = "tool" => nodes[Path[i]].owed > 0
  BY <1>5 DEF EdgeInv
<1>7. WholePaths => \A i \in 1 .. Len(Path) - 1 :
        nodes[Path[i]].owed > 0 => Role(Path[i + 1]) = "tool"
  <2>1. \A i \in 1 .. Len(Path) - 1 : i + 1 > 1
    BY <1>0
  <2> QED
    BY <1>5, <2>1 DEF WholePaths
<1> QED
  BY <1>1, <1>2, <1>3, <1>4, <1>6, <1>7

(* The summary in use is the last one recorded on the path.                *)
LEMMA LatestIsLast == ShapeInv /\ PathsInv =>
  \A s \in 1 .. Len(summaries) : \A i \in 1 .. Len(Path) :
    Path[i] = summaries[s].cursor =>
      Latest # 0 /\ Latest \in 1 .. Len(summaries) /\ s <= Latest
<1> SUFFICES ASSUME ShapeInv, PathsInv, NEW s \in 1 .. Len(summaries),
                    NEW i \in 1 .. Len(Path), Path[i] = summaries[s].cursor
             PROVE  Latest # 0 /\ Latest \in 1 .. Len(summaries) /\ s <= Latest
  OBVIOUS
<1> DEFINE T == {t \in 1 .. Len(summaries) : OnPath(t)}
<1>0. DOMAIN summaries = 1 .. Len(summaries) /\ Len(summaries) \in Nat
  BY PathTyped
<1>a. OnPath(s)
  BY PathTyped DEF OnPath
<1>1. T # {} /\ T \in SUBSET (0 .. Len(summaries))
  BY <1>0, <1>a
<1>2. PICK m \in T : \A t \in T : t <= m
  BY <1>0, <1>1, MaxExists
<1>3. \E x \in DOMAIN summaries :
        OnPath(x) /\ \A t \in DOMAIN summaries : OnPath(t) => t <= x
  BY <1>0, <1>2
<1> QED
  BY <1>0, <1>a, <1>3 DEF Latest

LEMMA StartTyped == ShapeInv /\ PathsInv =>
  /\ Start \in 0 .. Len(Path) /\ Len(Path) \in Nat
  /\ Latest # 0 => /\ Start > 0 /\ Path[Start] = summaries[Latest].cursor
                   /\ Latest \in 1 .. Len(summaries)
  /\ Latest = 0 => Start = 0
BY StartFound, PathTyped, LatestFound

-----------------------------------------------------------------------------
LEMMA AppendAdds ==
  ASSUME ShapeInv, PathsInv, NEW role \in Roles, NEW owed \in 0 .. MaxCalls,
         AppendMessage(role, owed)
  PROVE  /\ Len(nodes) \in Nat /\ Len(nodes') = Len(nodes) + 1
         /\ cursor' = Len(nodes) + 1
         /\ nodes'[Len(nodes) + 1].role = role /\ nodes'[Len(nodes) + 1].owed = owed
         /\ nodes'[Len(nodes) + 1].path = Path'
         /\ Len(Path) \in Nat /\ Len(Path') = Len(Path) + 1
         /\ \A i \in 1 .. Len(Path) : Path'[i] = Path[i]
         /\ Path'[Len(Path) + 1] = Len(nodes) + 1
         /\ \A n \in 1 .. Len(nodes) : nodes'[n] = nodes[n]
<1> DEFINE N == Len(nodes) + 1
           p == Append(Path, N)
           node == [role |-> role, owed |-> owed, path |-> p]
<1>1. Path \in Seq(1 .. Len(nodes)) /\ Len(Path) \in Nat
  BY PathTyped
<1>2. Len(nodes) \in Nat /\ nodes \in Seq(Node)
  BY LenProperties DEF ShapeInv
<1>3. Path \in Seq(Nat) /\ N \in Nat
  <2>1. 1 .. Len(nodes) \subseteq Nat
    BY <1>2
  <2> QED
    BY <1>1, <1>2, <2>1
<1>4. /\ p \in Seq(Nat) /\ Len(p) = Len(Path) + 1
      /\ \A i \in 1 .. Len(Path) : p[i] = Path[i]
      /\ p[Len(Path) + 1] = N
  BY <1>3, AppendProperties
<1>5. node \in Node /\ node.role = role /\ node.owed = owed /\ node.path = p
  BY <1>4 DEF Node
<1> HIDE DEF node
<1>6. /\ nodes' \in Seq(Node) /\ Len(nodes') = N
      /\ \A n \in 1 .. Len(nodes) : nodes'[n] = nodes[n]
      /\ nodes'[N] = node
      /\ cursor' = N
  BY <1>2, <1>5, AppendProperties DEF AppendMessage, node
<1>7. Path' = p
  <2>1. N # 0
    BY <1>2
  <2> QED
    BY <1>5, <1>6, <2>1 DEF Path, PathTo
<1> QED
  BY <1>1, <1>2, <1>4, <1>5, <1>6, <1>7

(* What joins the path keeps it well formed.                               *)
LEMMA AppendKeepsEdges ==
  ASSUME ShapeInv, PathsInv, EdgeInv, NEW role \in Roles, NEW owed \in 0 .. MaxCalls,
         AppendMessage(role, owed),
         Len(Path) = 0 => role = "user", role = "tool" => Owed > 0
  PROVE  /\ EdgeInv'
         /\ WholePaths /\ (Owed > 0 => role = "tool") => WholePaths'
<1> DEFINE N == Len(nodes) + 1
<1>1. /\ Len(nodes) \in Nat /\ Len(nodes') = N
      /\ nodes'[N].role = role /\ nodes'[N].path = Path'
      /\ Len(Path) \in Nat /\ Len(Path') = Len(Path) + 1
      /\ \A i \in 1 .. Len(Path) : Path'[i] = Path[i]
      /\ Path'[Len(Path) + 1] = N
      /\ \A n \in 1 .. Len(nodes) : nodes'[n] = nodes[n]
  BY AppendAdds
<1>2. /\ cursor \in 0 .. Len(nodes)
      /\ Len(Path) > 0 => Path[Len(Path)] = cursor /\ cursor # 0
      /\ Len(Path) = 0 => Owed = 0
  BY <1>1, PathEdges DEF ShapeInv, Owed
<1>3. Len(Path) > 0 => nodes'[Path'[Len(Path)]].owed = Owed
  BY <1>1, <1>2 DEF Owed
<1>4. ASSUME NEW n \in 1 .. Len(nodes)
      PROVE  /\ nodes'[n] = nodes[n]
             /\ Len(nodes[n].path) \in Nat /\ Len(nodes[n].path) > 0
             /\ Len(nodes[n].path) > 1 =>
                  nodes'[nodes[n].path[Len(nodes[n].path) - 1]] =
                  nodes[nodes[n].path[Len(nodes[n].path) - 1]]
  <2>1. nodes[n].path \in Seq(1 .. Len(nodes)) /\ Len(nodes[n].path) > 0
    BY DEF PathsInv
  <2>2. Len(nodes[n].path) \in Nat
    BY <2>1, LenProperties
  <2>3. Len(nodes[n].path) > 1 =>
          nodes[n].path[Len(nodes[n].path) - 1] \in 1 .. Len(nodes)
    BY <2>1, <2>2, ElementOfSeq
  <2> QED
    BY <1>1, <2>1, <2>2, <2>3
<1>5. ASSUME NEW n \in 1 .. Len(nodes'),
             n \in 1 .. Len(nodes) \/ n = N
      PROVE  LET q == nodes'[n].path IN
               /\ q[Len(q)] = n
               /\ Len(q) = 1 => nodes'[n].role = "user"
               /\ nodes'[n].role = "tool" => Len(q) > 1 /\ nodes'[q[Len(q) - 1]].owed > 0
  <2>1. CASE n \in 1 .. Len(nodes)
    BY <1>4, <2>1, SMTT(30) DEF EdgeInv, Role
  <2>2. CASE n = N
    <3>1. Len(Path') - 1 = Len(Path)
      BY <1>1
    <3>2. role = "tool" => Len(Path) > 0
      BY <1>1, <1>2
    <3> QED
      BY <1>1, <1>3, <2>2, <3>1, <3>2
  <2> QED
    BY <1>5, <2>1, <2>2
<1>6. \A n \in 1 .. Len(nodes') : n \in 1 .. Len(nodes) \/ n = N
  BY <1>1
<1>7. EdgeInv'
  BY <1>5, <1>6 DEF EdgeInv, Role
<1>8. ASSUME WholePaths, Owed > 0 => role = "tool"
      PROVE  WholePaths'
  <2>1. ASSUME NEW n \in 1 .. Len(nodes'), Len(nodes'[n].path) > 1,
               nodes'[nodes'[n].path[Len(nodes'[n].path) - 1]].owed > 0
        PROVE  nodes'[n].role = "tool"
    <3>1. CASE n \in 1 .. Len(nodes)
      BY <1>4, <1>8, <2>1, <3>1 DEF WholePaths, Role
    <3>2. CASE n = N
      <4>1. Len(Path') - 1 = Len(Path)
        BY <1>1
      <4> QED
        BY <1>1, <1>3, <1>8, <2>1, <3>2, <4>1
    <3> QED
      BY <1>6, <3>1, <3>2
  <2> QED
    BY <2>1 DEF WholePaths, Role
<1> QED
  BY <1>7, <1>8
-----------------------------------------------------------------------------
(* The tail of the path that is sent as it is.                             *)
LEMMA KeptIsTheTail == ShapeInv /\ PathsInv =>
  /\ Len(Kept) = Len(Path) - Start /\ DOMAIN Kept = 1 .. Len(Kept) /\ Len(Kept) \in Nat
  /\ \A i \in 1 .. Len(Kept) :
       /\ Start + i \in Start + 1 .. Len(Path)
       /\ Kept[i] = Path[Start + i] /\ Path[Start + i] \in 1 .. Len(nodes)
<1> SUFFICES ASSUME ShapeInv, PathsInv
             PROVE  /\ Len(Kept) = Len(Path) - Start /\ DOMAIN Kept = 1 .. Len(Kept)
                    /\ Len(Kept) \in Nat
                    /\ \A i \in 1 .. Len(Kept) :
                         /\ Start + i \in Start + 1 .. Len(Path)
                         /\ Kept[i] = Path[Start + i] /\ Path[Start + i] \in 1 .. Len(nodes)
  OBVIOUS
<1>1. /\ Path \in Seq(1 .. Len(nodes)) /\ Len(Path) \in Nat
      /\ Start \in 0 .. Len(Path)
      /\ \A i \in 1 .. Len(Path) : Path[i] \in 1 .. Len(nodes)
  BY PathTyped, StartFound
<1>2. /\ Start + 1 \in Nat
      /\ \A i \in Start + 1 .. Len(Path) : Path[i] \in 1 .. Len(nodes)
  BY <1>1
<1>3. /\ Kept \in Seq(1 .. Len(nodes))
      /\ Len(Kept) = IF Start + 1 <= Len(Path) THEN Len(Path) - (Start + 1) + 1 ELSE 0
      /\ \A i \in 1 .. Len(Path) - (Start + 1) + 1 : Kept[i] = Path[Start + 1 + i - 1]
  BY <1>1, <1>2, SubSeqProperties DEF Kept
<1>4. Len(Kept) = Len(Path) - Start /\ DOMAIN Kept = 1 .. Len(Kept)
  BY <1>1, <1>3, LenProperties
<1> QED
  BY <1>1, <1>3, <1>4, SMTT(30)

(* A message that joins the path is never covered by a summary.            *)
LEMMA FreshTail ==
  ASSUME ShapeInv, PathsInv, NEW role \in Roles, NEW owed \in 0 .. MaxCalls,
         AppendMessage(role, owed), UNCHANGED summaries, ShapeInv', PathsInv'
  PROVE  Start' <= Len(Path) /\ Start' \in Nat
<1>1. /\ Len(nodes) \in Nat /\ Len(Path) \in Nat /\ Len(Path') = Len(Path) + 1
      /\ Path'[Len(Path) + 1] = Len(nodes) + 1
  BY AppendAdds
<1>2. (ShapeInv /\ PathsInv =>
        /\ Start \in 0 .. Len(Path) /\ Len(Path) \in Nat
        /\ Latest # 0 => /\ Start > 0 /\ Path[Start] = summaries[Latest].cursor
                         /\ Latest \in 1 .. Len(summaries)
        /\ Latest = 0 => Start = 0)'
  BY StartTyped, PTL
<1>3. Latest' # 0 => Path'[Start'] \in 1 .. Len(nodes)
  BY <1>2 DEF ShapeInv
<1> QED
  BY <1>1, <1>2, <1>3

LEMMA PathDistinct == ShapeInv /\ PathsInv =>
  \A i, j \in 1 .. Len(Path) : Path[i] = Path[j] => i = j
BY PathPrefixes

(* A compaction puts the summary where it cut.                             *)
LEMMA CompactStart ==
  ASSUME TreeInv, EdgeInv, Compact, TreeInv', EdgeInv'
  PROVE  /\ Start' = Keep /\ Keep \in Nat /\ Keep > 0 /\ Boundary(Keep + 1)
         /\ Len(Path) \in Nat /\ Len(Path') \in Nat
         /\ Len(Path') >= Len(Path) /\ Keep <= Len(Path) - Preserve
         /\ Len(nodes) \in Nat /\ Len(nodes') >= Len(nodes)
         /\ \A n \in 1 .. Len(nodes) : nodes'[n] = nodes[n]
         /\ \A i \in 1 .. Len(Path) : Path'[i] = Path[i] /\ Path[i] \in 1 .. Len(nodes)
         /\ Len(summaries) \in Nat /\ Len(summaries') = Len(summaries) + 1
         /\ \A s \in 1 .. Len(summaries) : summaries'[s] = summaries[s]
         /\ summaries'[Len(summaries) + 1].cursor = Path[Keep]
<1> DEFINE new == [cursor |-> Path[Keep], covers |-> Archived]
           L == Len(summaries) + 1
<1>0. ShapeInv /\ PathsInv /\ ShapeInv' /\ PathsInv' /\ Len(nodes) \in Nat
  BY LenProperties DEF TreeInv, ShapeInv
<1>1. /\ Len(Path) \in Nat /\ Start \in 0 .. Len(Path)
      /\ Keep \in Start + 1 .. Len(Path) - Preserve /\ Boundary(Keep + 1)
      /\ \A i \in 1 .. Len(Path) : Path[i] \in 1 .. Len(nodes)
  BY <1>0, PathTyped, StartFound, KeepFound DEF Compact
<1>2. Keep \in 1 .. Len(Path) /\ Keep \in Nat
  BY <1>1, PreserveAssumption
<1>3. /\ Len(summaries) \in Nat /\ Len(summaries') = L
      /\ \A s \in 1 .. Len(summaries) : summaries'[s] = summaries[s]
      /\ summaries'[L].cursor = Path[Keep]
  <2>1. summaries \in Seq(Summary) /\ summaries' \in Seq(Summary) /\ Len(summaries) \in Nat
    BY <1>0, LenProperties DEF ShapeInv
  <2>2. summaries' = Append(summaries, new)
    BY DEF Compact
  <2>3. /\ Len(summaries') = L
        /\ \A s \in 1 .. Len(summaries) : summaries'[s] = summaries[s]
        /\ summaries'[L] = new
    BY <2>1, <2>2
  <2> QED
    BY <2>1, <2>3
<1>4. /\ Len(Path') \in Nat /\ Len(Path') >= Len(Path) /\ Len(nodes') >= Len(nodes)
      /\ \A i \in 1 .. Len(Path) : Path'[i] = Path[i]
      /\ \A n \in 1 .. Len(nodes) : nodes'[n] = nodes[n]
  <2>1. CASE UNCHANGED <<nodes, cursor>>
    <3>1. Path' = Path /\ nodes' = nodes
      BY <2>1 DEF Path, PathTo
    <3> QED
      BY <1>0, <1>1, <3>1
  <2>2. CASE AppendMessage("system", 0)
    <3>1. "system" \in Roles /\ 0 \in 0 .. MaxCalls
      BY BoundsAssumption DEF Roles
    <3> QED
      BY <1>0, <2>2, <3>1, AppendAdds
  <2> QED
    BY <2>1, <2>2 DEF Compact
<1>5. Latest' = L
  <2>1. (ShapeInv /\ PathsInv =>
          \A s \in 1 .. Len(summaries) : \A i \in 1 .. Len(Path) :
            Path[i] = summaries[s].cursor =>
              Latest # 0 /\ Latest \in 1 .. Len(summaries) /\ s <= Latest)'
    BY LatestIsLast, PTL
  <2>2. Keep \in 1 .. Len(Path') /\ L \in 1 .. Len(summaries')
    BY <1>1, <1>2, <1>3, <1>4
  <2>3. Path'[Keep] = summaries'[L].cursor
    BY <1>2, <1>3, <1>4
  <2>4. Latest' \in 1 .. Len(summaries') /\ L <= Latest'
    BY <1>0, <2>1, <2>2, <2>3
  <2> QED
    BY <1>3, <2>4
<1>6. Start' \in 1 .. Len(Path') /\ Path'[Start'] = Path'[Keep]
  <2>1. (ShapeInv /\ PathsInv =>
          /\ Start \in 0 .. Len(Path) /\ Len(Path) \in Nat
          /\ Latest # 0 => /\ Start > 0 /\ Path[Start] = summaries[Latest].cursor
                           /\ Latest \in 1 .. Len(summaries)
          /\ Latest = 0 => Start = 0)'
    BY StartTyped, PTL
  <2>2. Latest' # 0
    BY <1>3, <1>5
  <2>3. Path'[Start'] = summaries'[L].cursor /\ Start' \in 1 .. Len(Path')
    BY <1>0, <1>4, <1>5, <2>1, <2>2
  <2> QED
    BY <1>2, <1>3, <1>4, <2>3
<1>7. Start' = Keep
  <2>1. (ShapeInv /\ PathsInv =>
          \A i, j \in 1 .. Len(Path) : Path[i] = Path[j] => i = j)'
    BY PathDistinct, PTL
  <2> QED
    BY <1>0, <1>2, <1>4, <1>6, <2>1
<1> QED
  BY <1>0, <1>1, <1>2, <1>3, <1>4, <1>7
-----------------------------------------------------------------------------
ContextInv == TreeInv /\ EdgeInv /\ SpeaksInv /\ (careful => WholeInv)

LEMMA OwedTyped ==
  ASSUME ShapeInv
  PROVE  /\ Owed \in 0 .. MaxCalls
         /\ \A n \in 1 .. Len(nodes) : nodes[n].owed \in 0 .. MaxCalls /\ Role(n) \in Roles
<1>1. \A n \in 1 .. Len(nodes) : nodes[n] \in Node
  BY ElementOfSeq DEF ShapeInv
<1>2. \A n \in 1 .. Len(nodes) : nodes[n].owed \in 0 .. MaxCalls /\ Role(n) \in Roles
  BY <1>1 DEF Node, Role
<1>3. cursor # 0 => cursor \in 1 .. Len(nodes)
  BY LenProperties DEF ShapeInv
<1> QED
  BY <1>2, <1>3, BoundsAssumption DEF Owed

(* A message joined the active path.                                       *)
LEMMA AppendContext ==
  ASSUME ContextInv, TreeInv', NEW role \in Roles \ {"system"}, NEW owed \in 0 .. MaxCalls,
         AppendMessage(role, owed), UNCHANGED <<summaries, careful>>,
         Len(Path) = 0 => role = "user", role = "tool" => Owed > 0,
         careful /\ Owed > 0 => role = "tool",
         phase' # "results" => owed = 0
  PROVE  ContextInv'
<1>0. /\ ShapeInv /\ PathsInv /\ EdgeInv /\ ShapeInv' /\ PathsInv'
      /\ role \in Roles /\ role # "system"
  BY DEF ContextInv, TreeInv
<1>1. /\ Len(nodes) \in Nat /\ Len(nodes') = Len(nodes) + 1
      /\ cursor' = Len(nodes) + 1
      /\ nodes'[Len(nodes) + 1].role = role /\ nodes'[Len(nodes) + 1].owed = owed
      /\ Len(Path) \in Nat /\ Len(Path') = Len(Path) + 1
      /\ Path'[Len(Path) + 1] = Len(nodes) + 1
      /\ \A n \in 1 .. Len(nodes) : nodes'[n] = nodes[n]
  BY <1>0, AppendAdds
<1>2. /\ EdgeInv'
      /\ WholePaths /\ (Owed > 0 => role = "tool") => WholePaths'
  BY <1>0, AppendKeepsEdges
<1>3. SpeaksInv'
  <2>1. Start' <= Len(Path) /\ Start' \in Nat
    BY <1>0, FreshTail
  <2>2. Len(Path) + 1 \in Start' + 1 .. Len(Path')
    BY <1>1, <2>1
  <2>3. nodes'[Path'[Len(Path) + 1]].role # "system"
    BY <1>0, <1>1
  <2> QED
    BY <2>2, <2>3 DEF SpeaksInv, Role
<1>4. ASSUME careful PROVE WholeInv'
  <2>1. WholePaths'
    BY <1>2, <1>4 DEF ContextInv, WholeInv
  <2>2. Owed' = owed
    BY <1>1 DEF Owed
  <2>3. \A s \in 1 .. Len(summaries') : nodes'[summaries'[s].cursor].owed = 0
    BY <1>0, <1>1, <1>4 DEF ContextInv, WholeInv, ShapeInv
  <2> QED
    BY <2>1, <2>2, <2>3 DEF WholeInv
<1> QED
  BY <1>2, <1>3, <1>4 DEF ContextInv

(* The cursor moved, or the run went on or ended, and nothing was said.    *)
LEMMA StillContext ==
  ASSUME ContextInv, TreeInv', UNCHANGED <<nodes, summaries, careful>>,
         phase' = "idle" \/ (phase # "idle" /\ UNCHANGED cursor),
         careful /\ phase' # "results" => Owed' = 0
  PROVE  ContextInv'
<1>1. EdgeInv' /\ (WholePaths => WholePaths')
  BY DEF ContextInv, EdgeInv, WholePaths, Role
<1>2. SpeaksInv'
  <2>1. CASE phase' = "idle"
    BY <2>1 DEF SpeaksInv
  <2>2. CASE phase # "idle" /\ UNCHANGED cursor
    <3>1. Path' = Path
      BY <2>2 DEF Path, PathTo
    <3>2. Latest' = Latest
      BY <3>1 DEF Latest, OnPath
    <3>3. Start' = Start
      BY <3>1, <3>2 DEF Start
    <3> QED
      BY <2>2, <3>1, <3>3 DEF ContextInv, SpeaksInv, Role
  <2> QED
    BY <2>1, <2>2
<1>3. careful => WholeInv'
  BY <1>1 DEF ContextInv, WholeInv
<1> QED
  BY <1>1, <1>2, <1>3 DEF ContextInv

LEMMA CompactContext ==
  ASSUME ContextInv, TreeInv', Compact, UNCHANGED careful
  PROVE  ContextInv'
<1>0. /\ ShapeInv /\ PathsInv /\ EdgeInv /\ TreeInv
      /\ Owed \in 0 .. MaxCalls /\ Len(Path) \in Nat /\ cursor \in 0 .. Len(nodes)
  BY OwedTyped, PathTyped DEF ContextInv, TreeInv, ShapeInv
<1>1. /\ EdgeInv'
      /\ WholePaths /\ Owed = 0 => WholePaths' /\ Owed' = 0
  <2>1. CASE UNCHANGED <<nodes, cursor>>
    BY <1>0, <2>1 DEF EdgeInv, WholePaths, Role, Owed
  <2>2. CASE AppendMessage("system", 0)
    <3>1. "system" \in Roles /\ 0 \in 0 .. MaxCalls /\ "system" # "tool"
      BY BoundsAssumption DEF Roles
    <3>2. Len(Path) # 0
      <4>1. Keep \in Start + 1 .. Len(Path) - Preserve /\ Start \in Nat
        BY <1>0, KeepFound, StartFound DEF Compact
      <4> QED
        BY <1>0, <4>1, PreserveAssumption
    <3>3. /\ EdgeInv'
          /\ WholePaths /\ (Owed > 0 => "system" = "tool") => WholePaths'
      BY <1>0, <2>2, <3>1, <3>2, AppendKeepsEdges
    <3>4. Owed' = 0
      <4>1. cursor' = Len(nodes) + 1 /\ nodes'[Len(nodes) + 1].owed = 0 /\ Len(nodes) \in Nat
        BY <1>0, <2>2, <3>1, AppendAdds
      <4> QED
        BY <4>1 DEF Owed
    <3> QED
      BY <1>0, <3>3, <3>4
  <2> QED
    BY <2>1, <2>2 DEF Compact
<1>2. /\ Start' = Keep /\ Keep \in Nat /\ Keep > 0 /\ Boundary(Keep + 1)
      /\ Len(Path') \in Nat
      /\ Len(Path') >= Len(Path) /\ Keep <= Len(Path) - Preserve
      /\ Len(nodes) \in Nat
      /\ \A n \in 1 .. Len(nodes) : nodes'[n] = nodes[n]
      /\ \A i \in 1 .. Len(Path) : Path'[i] = Path[i] /\ Path[i] \in 1 .. Len(nodes)
      /\ Len(summaries) \in Nat /\ Len(summaries') = Len(summaries) + 1
      /\ \A s \in 1 .. Len(summaries) : summaries'[s] = summaries[s]
      /\ summaries'[Len(summaries) + 1].cursor = Path[Keep]
  BY <1>0, <1>1, CompactStart
<1>3. /\ Keep + 1 \in 1 .. Len(Path) /\ Keep \in 1 .. Len(Path) - 1 /\ Keep \in 1 .. Len(Path)
      /\ Keep + 1 \in Start' + 1 .. Len(Path')
  BY <1>0, <1>2, PreserveAssumption
<1>4. Role(Path[Keep + 1]) \in {"user", "assistant"}
  BY <1>2 DEF Boundary
<1>5. SpeaksInv'
  <2>1. nodes'[Path'[Keep + 1]].role # "system"
    BY <1>2, <1>3, <1>4 DEF Role
  <2> QED
    BY <1>3, <2>1 DEF SpeaksInv, Role
<1>6. ASSUME careful PROVE WholeInv'
  <2>1. WholePaths /\ Owed = 0
    BY <1>6 DEF ContextInv, WholeInv, Compact
  <2>2. nodes[Path[Keep]].owed = 0
    <3>1. nodes[Path[Keep]].owed \in 0 .. MaxCalls
      BY <1>0, <1>2, <1>3, OwedTyped
    <3>2. ~(nodes[Path[Keep]].owed > 0)
      BY <1>0, <1>3, <1>4, <2>1, PathEdges
    <3> QED
      BY <3>1, <3>2, BoundsAssumption
  <2>3. ASSUME NEW s \in 1 .. Len(summaries')
        PROVE  nodes'[summaries'[s].cursor].owed = 0
    <3>1. CASE s \in 1 .. Len(summaries)
      BY <1>0, <1>2, <1>6, <3>1 DEF ContextInv, WholeInv, ShapeInv
    <3>2. CASE s = Len(summaries) + 1
      BY <1>2, <1>3, <2>2, <3>2
    <3> QED
      BY <1>2, <3>1, <3>2
  <2> QED
    BY <1>1, <2>1, <2>3 DEF WholeInv
<1> QED
  BY <1>1, <1>5, <1>6 DEF ContextInv

LEMMA ContextInit == Init => ContextInv
<1> SUFFICES ASSUME Init PROVE ContextInv
  OBVIOUS
<1>1. /\ nodes = <<>> /\ Len(nodes) = 0 /\ cursor = 0 /\ summaries = <<>>
      /\ Len(summaries) = 0 /\ phase = "idle"
  BY DEF Init
<1> QED
  BY <1>1, TreeInit DEF ContextInv, EdgeInv, SpeaksInv, WholeInv, WholePaths, Owed

LEMMA ContextStep ==
  ASSUME ContextInv, [Next]_vars
  PROVE  ContextInv'
<1>0. /\ TreeInv /\ TreeInv' /\ ShapeInv /\ PathsInv /\ EdgeInv /\ OwedInv
      /\ Owed \in 0 .. MaxCalls /\ Len(Path) \in Nat /\ cursor \in 0 .. Len(nodes)
      /\ Len(nodes) \in Nat /\ DOMAIN nodes = 1 .. Len(nodes)
  BY TreeStep, OwedTyped, PathTyped, LenProperties DEF ContextInv, TreeInv, ShapeInv
<1>1. /\ {"user", "assistant", "tool"} \subseteq Roles \ {"system"} /\ 0 \in 0 .. MaxCalls
  BY BoundsAssumption DEF Roles
<1>2. phase # "idle" => Len(Path) # 0
  <2>1. phase # "idle" => \E i \in Start + 1 .. Len(Path) : TRUE
    BY DEF ContextInv, SpeaksInv
  <2> QED
    BY <1>0, <2>1, StartFound
<1>3. careful /\ phase # "results" => Owed = 0
  BY DEF ContextInv, WholeInv
<1>4. CASE Next
  <2>1. UNCHANGED careful
    BY <1>4 DEF Next
  <2>2. CASE Prompt \/ Steer
    BY <1>0, <1>1, <1>3, <2>1, <2>2, AppendContext DEF Prompt, Steer
  <2>3. CASE Compact
    BY <1>0, <2>1, <2>3, CompactContext
  <2>4. ASSUME NEW n \in 0 .. MaxCalls, Reply(n) PROVE ContextInv'
    <3>1. /\ AppendMessage("assistant", n) /\ UNCHANGED summaries
          /\ phase # "idle" /\ phase # "results" /\ (phase' # "results" => n = 0)
      BY <2>4 DEF Reply
    <3> QED
      BY <1>0, <1>1, <1>2, <1>3, <2>1, <3>1, AppendContext
  <2>5. CASE Result
    <3>1. Owed > 0
      BY <1>0, <2>5 DEF Result, OwedInv, Owed
    <3>2. /\ AppendMessage("tool", Owed - 1) /\ UNCHANGED summaries
          /\ phase # "idle" /\ (phase' # "results" => Owed - 1 = 0)
          /\ Owed - 1 \in 0 .. MaxCalls
      BY <1>0, <2>5, <3>1, BoundsAssumption DEF Result
    <3> QED
      BY <1>0, <1>1, <1>2, <2>1, <3>1, <3>2, AppendContext
  <2>6. CASE AskAgain \/ RunEnds
    <3>1. /\ UNCHANGED <<nodes, cursor, summaries>> /\ phase # "results"
          /\ phase' = "idle" \/ phase # "idle"
      BY <2>6 DEF AskAgain, RunEnds
    <3>2. Owed' = Owed
      BY <3>1 DEF Owed
    <3> QED
      BY <1>0, <1>3, <2>1, <3>1, <3>2, StillContext
  <2>7. ASSUME NEW n \in DOMAIN nodes, Checkout(n) PROVE ContextInv'
    <3>1. careful => Owed' = 0
      BY <1>0, <2>7 DEF Checkout, Owed
    <3> QED
      BY <1>0, <2>1, <2>7, <3>1, StillContext DEF Checkout
  <2>8. CASE Rewind
    <3>1. ASSUME careful PROVE Owed' = 0
      <4>1. PICK i \in 1 .. Len(Path) :
              Role(Path[i]) = "user" /\ cursor' = IF i = 1 THEN 0 ELSE Path[i - 1]
        BY <1>0, <2>8, PathTyped DEF Rewind
      <4>2. CASE i = 1
        BY <4>1, <4>2 DEF Owed
      <4>3. CASE i # 1
        <5>1. i - 1 \in 1 .. Len(Path) - 1 /\ i - 1 \in 1 .. Len(Path) /\ (i - 1) + 1 = i
          BY <1>0, <4>3
        <5>2. Path[i - 1] \in 1 .. Len(nodes) /\ nodes' = nodes
          BY <1>0, <2>8, <5>1, PathTyped DEF Rewind
        <5>3. WholePaths
          BY <3>1 DEF ContextInv, WholeInv
        <5>4. ~(nodes[Path[i - 1]].owed > 0)
          BY <1>0, <4>1, <5>1, <5>3, PathEdges
        <5>5. nodes[Path[i - 1]].owed \in 0 .. MaxCalls
          BY <1>0, <5>2, OwedTyped
        <5>6. Owed' = nodes[Path[i - 1]].owed
          BY <1>0, <4>1, <4>3, <5>2 DEF Owed
        <5> QED
          BY <5>4, <5>5, <5>6, BoundsAssumption
      <4> QED
        BY <4>2, <4>3
    <3> QED
      BY <1>0, <2>1, <2>8, <3>1, StillContext DEF Rewind
  <2> QED
    BY <1>4, <2>2, <2>3, <2>4, <2>5, <2>6, <2>7, <2>8 DEF Next, Step
<1>5. CASE UNCHANGED vars
  <2>1. Path' = Path /\ Latest' = Latest
    BY <1>5 DEF vars, Path, PathTo, Latest, OnPath
  <2>2. Start' = Start
    BY <1>5, <2>1 DEF Start, vars
  <2>3. SpeaksInv'
    BY <1>5, <2>1, <2>2 DEF ContextInv, SpeaksInv, Role, vars
  <2> QED
    BY <1>0, <1>5, <2>3 DEF ContextInv, EdgeInv, WholeInv, WholePaths, Role, Owed, vars
<1> QED
  BY <1>4, <1>5

LEMMA ContextInvariant == Spec => []ContextInv
<1>1. ContextInv /\ [Next]_vars => ContextInv'
  BY ContextStep
<1> QED
  BY <1>1, ContextInit, PTL DEF Spec

-----------------------------------------------------------------------------
LEMMA SpeaksFirst ==
  ASSUME ContextInv, phase # "idle"
  PROVE  /\ Opening \in {"user", "assistant", "tool"}
         /\ Latest = 0 => Opening = "user"
<1>0. ShapeInv /\ PathsInv /\ EdgeInv
  BY DEF ContextInv, TreeInv
<1>1. /\ Len(Kept) = Len(Path) - Start /\ DOMAIN Kept = 1 .. Len(Kept) /\ Len(Kept) \in Nat
      /\ \A i \in 1 .. Len(Kept) :
           /\ Start + i \in Start + 1 .. Len(Path)
           /\ Kept[i] = Path[Start + i] /\ Path[Start + i] \in 1 .. Len(nodes)
      /\ Start \in 0 .. Len(Path) /\ Len(Path) \in Nat
      /\ Latest = 0 => Start = 0
  BY <1>0, KeptIsTheTail, StartTyped
<1>2. PICK i \in Start + 1 .. Len(Path) : Role(Path[i]) # "system"
  BY DEF ContextInv, SpeaksInv
<1>3. i - Start \in Spoken
  <2>1. i - Start \in 1 .. Len(Kept) /\ Start + (i - Start) = i
    BY <1>1
  <2> QED
    BY <1>1, <1>2, <2>1 DEF Spoken
<1>4. Spoken \in SUBSET Nat
  BY <1>1 DEF Spoken
<1> DEFINE first == CHOOSE k \in Spoken : \A j \in Spoken : k <= j
<1>5. first \in Spoken /\ \A j \in Spoken : first <= j
  BY <1>3, <1>4, MinExists
<1>6. Opening = Role(Kept[first])
  BY <1>3 DEF Opening
<1> HIDE DEF first
<1>7. first \in 1 .. Len(Kept) /\ Role(Kept[first]) # "system"
  BY <1>1, <1>5 DEF Spoken
<1>8. Role(Kept[first]) \in Roles
  BY <1>0, <1>1, <1>7, OwedTyped
<1>9. Latest = 0 => Opening = "user"
  <2> SUFFICES ASSUME Latest = 0 PROVE Opening = "user"
    OBVIOUS
  <2>1. 1 \in 1 .. Len(Kept) /\ Len(Path) > 0 /\ Start + 1 = 1
    BY <1>1, <1>7
  <2>2. Kept[1] = Path[1] /\ Role(Path[1]) = "user"
    BY <1>0, <1>1, <2>1, PathEdges
  <2>3. 1 \in Spoken
    BY <1>1, <2>1, <2>2 DEF Spoken
  <2>4. first = 1
    BY <1>1, <1>5, <1>7, <2>3
  <2> QED
    BY <1>6, <2>2, <2>4
<1> QED
  BY <1>6, <1>7, <1>8, <1>9 DEF Roles

(* Every request opens with a turn of the user's: of the tail, or the      *)
(* summary made into one.                                                  *)
THEOREM RequestsOpenWithUser == Spec => []OpensWithUser
<1>1. ContextInv => OpensWithUser
  BY SpeaksFirst DEF OpensWithUser, SummaryRole
<1> QED
  BY <1>1, ContextInvariant, PTL

(* Compaction cuts between rounds of results, so that the request after it *)
(* has every call with its result, on whatever branch, unless the cursor   *)
(* was moved into the middle of a round.                                   *)
THEOREM RoundsStayWhole == Spec => []KeptIsWhole
<1>1. ContextInv => KeptIsWhole
  <2> SUFFICES ASSUME ContextInv, careful, Latest # 0
               PROVE  /\ Kept # <<>> => Role(Kept[1]) # "tool"
                      /\ \A i \in 1 .. Len(Kept) - 1 :
                           nodes[Kept[i]].owed > 0 => Role(Kept[i + 1]) = "tool"
    BY DEF KeptIsWhole, CallsKeepTheirResults
  <2>0. ShapeInv /\ PathsInv /\ EdgeInv /\ WholePaths
    BY DEF ContextInv, TreeInv, WholeInv
  <2>1. /\ Len(Kept) = Len(Path) - Start /\ Len(Kept) \in Nat
        /\ \A i \in 1 .. Len(Kept) :
             Start + i \in Start + 1 .. Len(Path) /\ Kept[i] = Path[Start + i]
        /\ Start \in 0 .. Len(Path) /\ Len(Path) \in Nat /\ Start > 0
        /\ Path[Start] = summaries[Latest].cursor
        /\ Latest \in 1 .. Len(summaries)
    BY <2>0, KeptIsTheTail, StartTyped
  <2>2. nodes[Path[Start]].owed = 0
    BY <2>1 DEF ContextInv, WholeInv
  <2>3. Kept # <<>> => 1 \in 1 .. Len(Kept)
    <3>1. Kept \in Seq(Int)
      <4>1. Path \in Seq(1 .. Len(nodes)) /\ Start + 1 \in Nat
        BY <2>0, <2>1, PathTyped
      <4>2. \A i \in Start + 1 .. Len(Path) : Path[i] \in Int
        BY <2>0, <2>1, PathTyped
      <4> QED
        BY <2>1, <4>1, <4>2, SubSeqProperties DEF Kept
    <3> QED
      BY <2>1, <3>1, EmptySeq
  <2>4. Kept # <<>> => Role(Kept[1]) # "tool"
    <3> SUFFICES ASSUME Kept # <<>> PROVE Role(Kept[1]) # "tool"
      OBVIOUS
    <3>1. Kept[1] = Path[Start + 1] /\ Start \in 1 .. Len(Path) - 1
      BY <2>1, <2>3
    <3> QED
      BY <2>0, <2>2, <3>1, PathEdges
  <2>5. ASSUME NEW i \in 1 .. Len(Kept) - 1, nodes[Kept[i]].owed > 0
        PROVE  Role(Kept[i + 1]) = "tool"
    <3>1. /\ i \in 1 .. Len(Kept) /\ i + 1 \in 1 .. Len(Kept)
          /\ Start + i \in 1 .. Len(Path) - 1 /\ Start + (i + 1) = (Start + i) + 1
      BY <2>1
    <3>2. Kept[i] = Path[Start + i] /\ Kept[i + 1] = Path[(Start + i) + 1]
      BY <2>1, <3>1
    <3> QED
      BY <2>0, <2>5, <3>1, <3>2, PathEdges
  <2> QED
    BY <2>4, <2>5
<1> QED
  BY <1>1, ContextInvariant, PTL

(* However much a compaction archives, the last messages stay in the       *)
(* request as they were said.                                              *)
THEOREM RecentTailSurvives == Spec => RecentMessagesStay
<1>1. ContextInv /\ ContextInv' /\ [Next]_vars
        => (summaries' # summaries => Len(Kept') >= Preserve)
  <2> SUFFICES ASSUME ContextInv, ContextInv', [Next]_vars, summaries' # summaries
               PROVE  Len(Kept') >= Preserve
    OBVIOUS
  <2>1. Compact
    BY DEF vars, Next, Step, Prompt, Reply, Result, Steer, AskAgain, RunEnds, Checkout, Rewind
  <2>2. TreeInv /\ EdgeInv /\ TreeInv' /\ EdgeInv' /\ ShapeInv' /\ PathsInv'
    BY DEF ContextInv, TreeInv
  <2>3. /\ Start' = Keep /\ Keep \in Nat /\ Len(Path) \in Nat /\ Len(Path') \in Nat
        /\ Len(Path') >= Len(Path) /\ Keep <= Len(Path) - Preserve
    BY <2>1, <2>2, CompactStart
  <2>4. (ShapeInv /\ PathsInv => Len(Kept) = Len(Path) - Start)'
    BY KeptIsTheTail, PTL
  <2> QED
    BY <2>2, <2>3, <2>4, PreserveAssumption
<1>2. ContextInv /\ ContextInv' /\ [Next]_vars
        => [summaries' # summaries => Len(Kept') >= Preserve]_vars
  BY <1>1
<1> QED
  BY <1>2, ContextInvariant, PTL DEF Spec, RecentMessagesStay
=============================================================================
