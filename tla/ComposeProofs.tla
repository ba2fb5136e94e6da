--------------------------- MODULE ComposeProofs ----------------------------
(***************************************************************************)
(* Proofs about Compose, for every set of guardfiles and every depth.      *)
(*                                                                         *)
(* The invariant WalkInv says what is known half way: the open files lead  *)
(* from Root down, each through the `inherit` before its next one; what a  *)
(* closed file inherits is closed, and before it in the chain; no file is  *)
(* open or closed twice; and the visited files are those that can be       *)
(* reached.  When the walk ends every visited file is closed, so the chain *)
(* is the reached files, and what any of them states has been seen.        *)
(***************************************************************************)
EXTENDS Compose, FiniteSetTheorems, SequenceTheorems, WellFoundedInduction, TLAPS

Frame == [file : Files, next : Nat \ {0}]
Closures == {fs \in SUBSET Files : Root \in fs /\ Closed(fs)}

WalkTypes ==
    /\ parents \in [Files -> Seq(Files \cup {Missing})]
    /\ nodes \in [Files -> Seq(Node)]
    /\ parents \in Shapes /\ nodes \in Statements /\ limits \in Limits /\ minted \subseteq Tools
    /\ phase \in {"walk", "parse", "check", "served", "refused"}
    /\ stack \in Seq(Frame)
    /\ Len(stack) <= MaxDepth + 1
    /\ chain \in Seq(Files)
    /\ visited \subseteq Files

\* The path that activation i has read last.
LastRead(i) == parents[stack[i].file][stack[i].next - 1]

OpenPath ==
    /\ stack # <<>> => stack[1].file = Root
    /\ \A i \in 1 .. Len(stack) : stack[i].next <= Len(parents[stack[i].file]) + 1
    /\ \A i \in 1 .. Len(stack) - 1 : stack[i].next > 1 /\ LastRead(i) = stack[i + 1].file

NoneTwice ==
    /\ \A i, j \in 1 .. Len(stack) : stack[i].file = stack[j].file => i = j
    /\ \A i, j \in 1 .. Len(chain) : chain[i] = chain[j] => i = j
    /\ \A i \in 1 .. Len(stack), j \in 1 .. Len(chain) : stack[i].file # chain[j]

VisitedOnce ==
    visited = {stack[i].file : i \in 1 .. Len(stack)} \cup {chain[i] : i \in 1 .. Len(chain)}

BasesClosed ==
    /\ \A i \in 1 .. Len(chain) : \A e \in DOMAIN parents[chain[i]] :
           \E k \in 1 .. i - 1 : chain[k] = parents[chain[i]][e]
    /\ \A i \in 1 .. Len(stack) : \A e \in DOMAIN parents[stack[i].file] :
           e < stack[i].next /\ (i < Len(stack) => e < stack[i].next - 1)
           => \E k \in 1 .. Len(chain) : chain[k] = parents[stack[i].file][e]

VisitedReached == \A fs \in Closures : visited \subseteq fs

Ends ==
    /\ phase = "walk" => stack # <<>>
    /\ phase \in {"parse", "check", "served"} =>
           stack = <<>> /\ chain # <<>> /\ chain[Len(chain)] = Root

WalkInv == WalkTypes /\ OpenPath /\ NoneTwice /\ VisitedOnce /\ BasesClosed /\ VisitedReached /\ Ends

-----------------------------------------------------------------------------
LEMMA InitWalk == Init => WalkInv
<1> SUFFICES ASSUME Init PROVE WalkInv
  OBVIOUS
<1> DEFINE bottom == [file |-> Root, next |-> 1]
<1> USE DEF Init
<1>1. bottom \in Frame
  BY RootAssumption DEF Frame
<1>2. stack \in Seq(Frame) /\ Len(stack) = 1 /\ stack[1] = bottom
  BY <1>1
<1>3. chain \in Seq(Files) /\ Len(chain) = 0
  OBVIOUS
<1>4. parents \in [Files -> Seq(Files \cup {Missing})] /\ nodes \in [Files -> Seq(Node)]
  BY ShapesAssumption, StatementsAssumption
<1>5. WalkTypes
  BY <1>2, <1>3, <1>4, RootAssumption, DepthAssumption DEF WalkTypes
<1>6. Len(parents[Root]) \in Nat
  BY <1>4, RootAssumption
<1>7. OpenPath
  BY <1>2, <1>6 DEF OpenPath
<1>8. NoneTwice /\ VisitedOnce
  BY <1>2, <1>3 DEF NoneTwice, VisitedOnce
<1>9. BasesClosed
  <2>1. \A e \in DOMAIN parents[Root] : ~(e < 1)
    BY <1>4, RootAssumption
  <2> QED BY <1>2, <1>3, <2>1 DEF BasesClosed
<1>10. VisitedReached /\ Ends
  BY <1>2 DEF VisitedReached, Closures, Ends
<1> QED BY <1>5, <1>7, <1>8, <1>9, <1>10 DEF WalkInv

\* Steps that leave the walk where it is.
LEMMA QuietWalk ==
    ASSUME WalkInv, UNCHANGED <<files, stack, visited, chain>>,
           \/ phase' = phase
           \/ phase' = "refused"
           \/ phase \in {"parse", "check"} /\ phase' \in {"check", "served"}
    PROVE  WalkInv'
<1>1. UNCHANGED <<parents, nodes, limits, minted, stack, visited, chain>>
  BY DEF files
<1>2. WalkTypes' /\ Ends'
  BY <1>1 DEF WalkInv, WalkTypes, Ends
<1>3. OpenPath' /\ NoneTwice' /\ VisitedOnce' /\ BasesClosed'
  BY <1>1 DEF WalkInv, OpenPath, LastRead, NoneTwice, VisitedOnce, BasesClosed
<1>4. VisitedReached'
  BY <1>1 DEF WalkInv, VisitedReached, Closures, Closed, Edges, Target
<1> QED BY <1>2, <1>3, <1>4 DEF WalkInv

\* The stack after Enter: the file read has one path fewer to go, and the path is on top.
LEMMA EnterShape ==
    ASSUME WalkInv, Enter
    PROVE  LET n == Len(stack)
               path == Inherits[Top.next]
           IN  /\ phase = "walk" /\ stack # <<>> /\ Top.next <= Len(Inherits)
               /\ path \notin visited /\ path # Missing /\ path \in Files
               /\ visited' = visited \cup {path}
               /\ UNCHANGED <<parents, nodes, limits, minted, phase, chain>>
               /\ n \in Nat \ {0} /\ n \in DOMAIN stack /\ n <= MaxDepth
               /\ Top = stack[n] /\ Top.next \in Nat \ {0} /\ Top.next \in DOMAIN Inherits
               /\ Inherits \in Seq(Files \cup {Missing}) /\ Inherits = parents[stack[n].file]
               /\ stack' \in Seq(Frame) /\ Len(stack') = n + 1
               /\ \A i \in 1 .. n : stack'[i].file = stack[i].file
               /\ \A i \in 1 .. n - 1 : stack'[i] = stack[i]
               /\ stack'[n].next = stack[n].next + 1
               /\ stack'[n + 1].file = path /\ stack'[n + 1].next = 1
               /\ \A i \in 1 .. n : stack[i].file \in Files /\ stack[i].next \in Nat \ {0}
               /\ \A f \in Files : parents[f] \in Seq(Files \cup {Missing})
               /\ Len(chain) \in Nat
<1> DEFINE n == Len(stack)
           path == Inherits[Top.next]
           frame == [file |-> path, next |-> 1]
           read == [stack EXCEPT ![n] = [file |-> Top.file, next |-> Top.next + 1]]
<1>1. /\ phase = "walk" /\ stack # <<>>
      /\ Top.next <= Len(Inherits)
      /\ path \notin visited /\ path # Missing /\ ~TooDeep
      /\ stack' = Append(read, frame)
      /\ visited' = visited \cup {path}
      /\ UNCHANGED <<parents, nodes, limits, minted, phase, chain>>
  BY DEF Enter, Walking, files
<1>2. n \in Nat \ {0} /\ Top = stack[n] /\ Top \in Frame /\ n \in DOMAIN stack /\ n <= MaxDepth
  BY <1>1, DepthAssumption DEF WalkInv, WalkTypes, Top, TooDeep
<1>3. Inherits \in Seq(Files \cup {Missing}) /\ Inherits = parents[stack[n].file]
  BY <1>2 DEF WalkInv, WalkTypes, Inherits, Frame
<1>4. path \in Files /\ Top.next \in Nat \ {0} /\ Top.next \in DOMAIN Inherits
  <2>1. Top.next \in 1 .. Len(Inherits)
    BY <1>1, <1>2, <1>3 DEF Frame
  <2> QED BY <2>1, <1>1, <1>3
<1>5. frame \in Frame
  BY <1>4 DEF Frame
<1>6. /\ read \in Seq(Frame) /\ Len(read) = n
      /\ \A i \in 1 .. n : read[i].file = stack[i].file
      /\ \A i \in 1 .. n - 1 : read[i] = stack[i]
      /\ read[n].next = stack[n].next + 1
  <2>1. stack \in Seq(Frame)
    BY DEF WalkInv, WalkTypes
  <2>2. read[n] \in Frame /\ read[n].file = stack[n].file /\ read[n].next = stack[n].next + 1
    BY <1>2, <2>1 DEF Frame
  <2> QED BY <1>2, <2>1, <2>2
<1>7. /\ stack' \in Seq(Frame) /\ Len(stack') = n + 1
      /\ \A i \in 1 .. n : stack'[i].file = stack[i].file
      /\ \A i \in 1 .. n - 1 : stack'[i] = stack[i]
      /\ stack'[n].next = stack[n].next + 1
      /\ stack'[n + 1].file = path /\ stack'[n + 1].next = 1
  <2> HIDE DEF read, path
  <2>1. /\ stack' \in Seq(Frame) /\ Len(stack') = n + 1
        /\ \A i \in 1 .. n : stack'[i] = read[i]
        /\ stack'[n + 1] = frame
    BY <1>1, <1>5, <1>6, AppendProperties
  <2> QED BY <1>2, <1>6, <2>1
<1>8. /\ \A i \in 1 .. n : stack[i].file \in Files /\ stack[i].next \in Nat \ {0}
      /\ \A f \in Files : parents[f] \in Seq(Files \cup {Missing})
      /\ Len(chain) \in Nat
  <2>1. stack \in Seq(Frame) /\ chain \in Seq(Files)
    BY DEF WalkInv, WalkTypes
  <2>2. \A i \in 1 .. n : stack[i] \in Frame
    BY <2>1
  <2> QED BY <2>1, <2>2 DEF WalkInv, WalkTypes, Frame
<1> QED BY <1>1, <1>2, <1>3, <1>4, <1>7, <1>8

\* A file entered is a new one, and the parent's last path leads to it.
LEMMA EnterWalk == ASSUME WalkInv, Enter PROVE WalkInv'
<1> DEFINE n == Len(stack)
           path == Inherits[Top.next]
<1>1. /\ phase = "walk" /\ stack # <<>> /\ Top.next <= Len(Inherits)
      /\ path \notin visited /\ path # Missing
      /\ visited' = visited \cup {path}
      /\ UNCHANGED <<parents, nodes, limits, minted, phase, chain>>
  BY EnterShape
<1>2. n \in Nat \ {0} /\ Top = stack[n] /\ n \in DOMAIN stack /\ n <= MaxDepth
  BY EnterShape
<1>3. Inherits \in Seq(Files \cup {Missing}) /\ Inherits = parents[stack[n].file]
  BY EnterShape
<1>4. path \in Files /\ Top.next \in Nat \ {0} /\ Top.next \in DOMAIN Inherits
  BY EnterShape
<1>7. /\ stack' \in Seq(Frame) /\ Len(stack') = n + 1
      /\ \A i \in 1 .. n : stack'[i].file = stack[i].file
      /\ \A i \in 1 .. n - 1 : stack'[i] = stack[i]
      /\ stack'[n].next = stack[n].next + 1
      /\ stack'[n + 1].file = path /\ stack'[n + 1].next = 1
  BY EnterShape
<1>20. /\ \A i \in 1 .. n : stack[i].file \in Files /\ stack[i].next \in Nat \ {0}
       /\ \A f \in Files : parents[f] \in Seq(Files \cup {Missing})
       /\ Len(chain) \in Nat
  BY EnterShape
<1> HIDE DEF path
<1>8. WalkTypes'
  <2>1. Len(stack') <= MaxDepth + 1
    BY <1>2, <1>7, DepthAssumption
  <2> QED BY <1>1, <1>4, <1>7, <2>1 DEF WalkInv, WalkTypes
<1>9. OpenPath'
  <2>1. stack'[1].file = Root
    BY <1>1, <1>2, <1>7 DEF WalkInv, OpenPath
  <2>2. \A i \in 1 .. n + 1 : stack'[i].next <= Len(parents[stack'[i].file]) + 1
    <3>1. Len(parents[path]) \in Nat
      BY <1>4 DEF WalkInv, WalkTypes
    <3>2. ASSUME NEW i \in 1 .. n - 1 PROVE stack'[i].next <= Len(parents[stack'[i].file]) + 1
      <4>1. i \in 1 .. n /\ stack'[i] = stack[i]
        BY <1>2, <1>7
      <4>2. stack[i].next <= Len(parents[stack[i].file]) + 1
        BY <4>1 DEF WalkInv, OpenPath
      <4> QED BY <4>1, <4>2
    <3>3. stack'[n].next <= Len(parents[stack'[n].file]) + 1
      BY <1>1, <1>2, <1>3, <1>4, <1>7
    <3>4. stack'[n + 1].next <= Len(parents[stack'[n + 1].file]) + 1
      BY <1>7, <3>1
    <3>5. 1 .. n + 1 = (1 .. n - 1) \cup {n, n + 1}
      BY <1>2
    <3> HIDE DEF n
    <3> QED BY <3>2, <3>3, <3>4, <3>5
  <2>3. \A i \in 1 .. n : stack'[i].next > 1
                          /\ parents[stack'[i].file][stack'[i].next - 1] = stack'[i + 1].file
    <3>1. ASSUME NEW i \in 1 .. n - 1
          PROVE  stack'[i].next > 1 /\ parents[stack'[i].file][stack'[i].next - 1] = stack'[i + 1].file
      <4>1. i + 1 \in 1 .. n
        BY <1>2
      <4> QED BY <1>2, <1>7, <4>1 DEF WalkInv, OpenPath, LastRead
    <3>2. stack'[n].next > 1 /\ parents[stack'[n].file][stack'[n].next - 1] = stack'[n + 1].file
      <4>1. stack'[n].next - 1 = Top.next
        BY <1>2, <1>4, <1>7
      <4>2. parents[stack[n].file][Top.next] = path
        BY <1>3 DEF path
      <4>3. stack'[n].next > 1
        BY <1>2, <1>4, <1>7
      <4> QED BY <1>2, <1>7, <4>1, <4>2, <4>3
    <3> QED BY <3>1, <3>2, <1>2
  <2>4. parents' = parents /\ Len(stack') = n + 1 /\ Len(stack') - 1 = n
    BY <1>1, <1>2, <1>7
  <2> QED BY <2>1, <2>2, <2>3, <2>4 DEF OpenPath, LastRead
<1>10. /\ \A i \in 1 .. n : stack[i].file # path
       /\ \A i \in 1 .. Len(chain) : chain[i] # path
  BY <1>1 DEF WalkInv, VisitedOnce
<1>11. NoneTwice'
  <2>1. \A i, j \in 1 .. n + 1 : stack'[i].file = stack'[j].file => i = j
    BY <1>2, <1>7, <1>10 DEF WalkInv, NoneTwice
  <2>2. \A i \in 1 .. n + 1, j \in 1 .. Len(chain) : stack'[i].file # chain[j]
    BY <1>2, <1>7, <1>10 DEF WalkInv, NoneTwice
  <2> QED BY <1>1, <1>7, <2>1, <2>2 DEF WalkInv, NoneTwice
<1>12. VisitedOnce'
  <2>1. {stack'[i].file : i \in 1 .. n + 1} = {stack[i].file : i \in 1 .. n} \cup {path}
    <3>1. 1 .. n + 1 = (1 .. n) \cup {n + 1}
      BY <1>2
    <3> HIDE DEF n
    <3> QED BY <1>7, <3>1
  <2>2. visited' = visited \cup {path} /\ chain' = chain
    BY <1>1
  <2> QED BY <1>7, <2>1, <2>2 DEF WalkInv, VisitedOnce
<1>13. BasesClosed'
  <2>1. ASSUME NEW i \in 1 .. n + 1, NEW e \in DOMAIN parents[stack'[i].file],
               e < stack'[i].next, i < n + 1 => e < stack'[i].next - 1
        PROVE  \E k \in 1 .. Len(chain) : chain[k] = parents[stack'[i].file][e]
    <3>1. stack'[i].file \in Files
      BY <1>7, <1>2, <1>4, <1>20
    <3>2. e \in Nat \ {0}
      BY <3>1 DEF WalkInv, WalkTypes
    <3>3. i # n + 1
      BY <1>7, <3>2, <2>1
    <3>4. CASE i = n
      <4>1. e \in DOMAIN parents[stack[n].file] /\ e < stack[n].next
        BY <1>2, <1>7, <1>20, <2>1, <3>2, <3>4
      <4> QED BY <1>2, <1>7, <3>4, <4>1 DEF WalkInv, BasesClosed
    <3>5. CASE i < n
      <4>1. i \in 1 .. n - 1 /\ i \in 1 .. n /\ i < n + 1
        BY <1>2, <3>5
      <4>2. stack'[i] = stack[i] /\ e \in DOMAIN parents[stack[i].file]
        BY <1>7, <4>1
      <4>3. e < stack[i].next /\ e < stack[i].next - 1
        BY <2>1, <4>1, <4>2
      <4> QED BY <4>1, <4>2, <4>3 DEF WalkInv, BasesClosed
    <3> QED BY <3>3, <3>4, <3>5, <1>2
  <2> QED BY <1>1, <1>7, <2>1 DEF WalkInv, BasesClosed
<1>14. VisitedReached'
  <2> SUFFICES ASSUME NEW fs \in Closures PROVE visited \cup {path} \subseteq fs
    BY <1>1 DEF VisitedReached, Closures, Closed, Edges, Target
  <2>1. stack[n].file \in visited
    BY <1>2 DEF WalkInv, VisitedOnce
  <2>2. stack[n].file \in fs
    BY <2>1 DEF WalkInv, VisitedReached
  <2>3. <<stack[n].file, Top.next>> \in Edges /\ Target(<<stack[n].file, Top.next>>) = path
    <3>1. stack[n].file \in Files
      BY <2>2 DEF Closures
    <3>2. <<stack[n].file, Top.next>> \in {stack[n].file} \X DOMAIN parents[stack[n].file]
      BY <1>3, <1>4
    <3> QED BY <3>1, <3>2, <1>3 DEF Edges, Target, path
  <2>4. path \in fs
    BY <1>1, <2>2, <2>3 DEF Closures, Closed
  <2> QED BY <2>4 DEF WalkInv, VisitedReached
<1>15. Ends'
  BY <1>1, <1>7, <1>2 DEF Ends
<1> QED BY <1>8, <1>9, <1>11, <1>12, <1>13, <1>14, <1>15 DEF WalkInv

\* The stack and the chain after Leave: the file has changed from the one to the other.
LEMMA LeaveShape ==
    ASSUME WalkInv, Leave
    PROVE  LET n == Len(stack)
               m == Len(chain)
           IN  /\ phase = "walk" /\ stack # <<>> /\ Top.next > Len(Inherits)
               /\ phase' = IF n = 1 THEN "parse" ELSE "walk"
               /\ UNCHANGED <<parents, nodes, limits, minted, visited>>
               /\ stack \in Seq(Frame) /\ n \in Nat \ {0} /\ n \in 1 .. n /\ n <= MaxDepth + 1
               /\ chain \in Seq(Files) /\ m \in Nat /\ Top = stack[n]
               /\ \A i \in 1 .. n : stack[i].file \in Files /\ stack[i].next \in Nat \ {0}
               /\ \A f \in Files : parents[f] \in Seq(Files \cup {Missing})
               /\ stack' \in Seq(Frame) /\ Len(stack') = n - 1
               /\ \A i \in 1 .. n - 1 : stack'[i] = stack[i]
               /\ chain' \in Seq(Files) /\ Len(chain') = m + 1
               /\ \A i \in 1 .. m : chain'[i] = chain[i]
               /\ chain'[m + 1] = stack[n].file
<1> DEFINE n == Len(stack)
           m == Len(chain)
<1>1. /\ phase = "walk" /\ stack # <<>>
      /\ Top.next > Len(Inherits)
      /\ chain' = Append(chain, Top.file)
      /\ stack' = Below
      /\ phase' = IF n = 1 THEN "parse" ELSE "walk"
      /\ UNCHANGED <<parents, nodes, limits, minted, visited>>
  BY DEF Leave, Walking, files
<1>2. /\ stack \in Seq(Frame) /\ n \in Nat \ {0}
      /\ chain \in Seq(Files) /\ m \in Nat
      /\ \A i \in 1 .. n : stack[i].file \in Files /\ stack[i].next \in Nat \ {0}
      /\ \A f \in Files : parents[f] \in Seq(Files \cup {Missing})
      /\ Top = stack[n] /\ n \in 1 .. n
      /\ n <= MaxDepth + 1
  <2>1. stack \in Seq(Frame) /\ chain \in Seq(Files)
    BY DEF WalkInv, WalkTypes
  <2>2. n \in Nat \ {0}
    BY <1>1, <2>1
  <2>3. \A i \in 1 .. n : stack[i] \in Frame
    BY <2>1
  <2> QED BY <2>1, <2>2, <2>3 DEF WalkInv, WalkTypes, Frame, Top
<1>3. /\ stack' \in Seq(Frame) /\ Len(stack') = n - 1
      /\ \A i \in 1 .. n - 1 : stack'[i] = stack[i]
  <2>1. \A i \in 1 .. n - 1 : stack[i] \in Frame
    BY <1>2
  <2>2. n - 1 \in Int /\ 1 \in Int
    BY <1>2
  <2>3. /\ SubSeq(stack, 1, n - 1) \in Seq(Frame)
        /\ Len(SubSeq(stack, 1, n - 1)) = IF 1 <= n - 1 THEN n - 1 - 1 + 1 ELSE 0
        /\ \A i \in 1 .. n - 1 - 1 + 1 : SubSeq(stack, 1, n - 1)[i] = stack[1 + i - 1]
    BY <2>1, <2>2, SubSeqProperties
  <2>4. stack' = SubSeq(stack, 1, n - 1)
    BY <1>1 DEF Below
  <2>5. n \in Nat \ {0}
    BY <1>2
  <2> HIDE DEF n
  <2>6. /\ (IF 1 <= n - 1 THEN n - 1 - 1 + 1 ELSE 0) = n - 1
        /\ n - 1 - 1 + 1 = n - 1
        /\ \A i \in 1 .. n - 1 : 1 + i - 1 = i
    BY <2>5
  <2>7. \A i \in 1 .. n - 1 : SubSeq(stack, 1, n - 1)[i] = stack[1 + i - 1]
    BY <2>3, <2>6
  <2> QED BY <2>3, <2>4, <2>6, <2>7
<1>4. /\ chain' \in Seq(Files) /\ Len(chain') = m + 1
      /\ \A i \in 1 .. m : chain'[i] = chain[i]
      /\ chain'[m + 1] = stack[n].file
  BY <1>1, <1>2, AppendProperties
<1> QED BY <1>1, <1>2, <1>3, <1>4

\* A file left has every base in the chain already, and it joins the end.
LEMMA LeaveWalk == ASSUME WalkInv, Leave PROVE WalkInv'
<1> DEFINE n == Len(stack)
           m == Len(chain)
<1>1. /\ phase = "walk" /\ stack # <<>> /\ Top.next > Len(Inherits)
      /\ phase' = IF n = 1 THEN "parse" ELSE "walk"
      /\ UNCHANGED <<parents, nodes, limits, minted, visited>>
  BY LeaveShape
<1>2. /\ stack \in Seq(Frame) /\ n \in Nat \ {0}
      /\ chain \in Seq(Files) /\ m \in Nat
      /\ \A i \in 1 .. n : stack[i].file \in Files /\ stack[i].next \in Nat \ {0}
      /\ \A f \in Files : parents[f] \in Seq(Files \cup {Missing})
      /\ Top = stack[n] /\ n \in 1 .. n
      /\ n <= MaxDepth + 1
  BY LeaveShape
<1>3. /\ stack' \in Seq(Frame) /\ Len(stack') = n - 1
      /\ \A i \in 1 .. n - 1 : stack'[i] = stack[i]
  BY LeaveShape
<1>4. /\ chain' \in Seq(Files) /\ Len(chain') = m + 1
      /\ \A i \in 1 .. m : chain'[i] = chain[i]
      /\ chain'[m + 1] = stack[n].file
  BY LeaveShape
<1>5. WalkTypes'
  <2>1. Len(stack') <= MaxDepth + 1
    BY <1>2, <1>3, DepthAssumption
  <2> QED BY <1>1, <1>3, <1>4, <2>1 DEF WalkInv, WalkTypes
<1>6. OpenPath'
  <2>1. stack' # <<>> => stack'[1].file = Root
    <3>1. n - 1 # 0 => 1 \in 1 .. n - 1
      <4>1. n \in Nat \ {0}
        BY <1>2
      <4> HIDE DEF n
      <4> QED BY <4>1
    <3>2. stack' # <<>> => n - 1 # 0
      BY <1>3
    <3> QED BY <1>1, <1>3, <3>1, <3>2 DEF WalkInv, OpenPath
  <2>2. \A i \in 1 .. n - 1 : stack'[i].next <= Len(parents[stack'[i].file]) + 1
    BY <1>2, <1>3 DEF WalkInv, OpenPath
  <2>3. \A i \in 1 .. n - 2 : stack'[i].next > 1
                              /\ parents[stack'[i].file][stack'[i].next - 1] = stack'[i + 1].file
    <3> SUFFICES ASSUME NEW i \in 1 .. n - 2
                 PROVE  stack'[i].next > 1
                        /\ parents[stack'[i].file][stack'[i].next - 1] = stack'[i + 1].file
      OBVIOUS
    <3>1. i \in 1 .. n - 1 /\ i + 1 \in 1 .. n - 1
      BY <1>2
    <3> QED BY <1>3, <3>1 DEF WalkInv, OpenPath, LastRead
  <2>4. parents' = parents /\ Len(stack') - 1 = n - 2
    BY <1>1, <1>2, <1>3
  <2> QED BY <1>3, <2>1, <2>2, <2>3, <2>4 DEF OpenPath, LastRead
<1>7. NoneTwice'
  <2>1. \A i, j \in 1 .. n - 1 : stack'[i].file = stack'[j].file => i = j
    BY <1>2, <1>3 DEF WalkInv, NoneTwice
  <2>2. \A i, j \in 1 .. m + 1 : chain'[i] = chain'[j] => i = j
    BY <1>2, <1>4 DEF WalkInv, NoneTwice
  <2>3. \A i \in 1 .. n - 1, j \in 1 .. m + 1 : stack'[i].file # chain'[j]
    BY <1>2, <1>3, <1>4 DEF WalkInv, NoneTwice
  <2> QED BY <1>3, <1>4, <2>1, <2>2, <2>3 DEF NoneTwice
<1>8. VisitedOnce'
  <2>1. {stack[i].file : i \in 1 .. n} = {stack'[i].file : i \in 1 .. n - 1} \cup {stack[n].file}
    <3>1. 1 .. n = (1 .. n - 1) \cup {n}
      BY <1>2
    <3> HIDE DEF n
    <3> QED BY <1>3, <3>1
  <2>2. {chain'[i] : i \in 1 .. m + 1} = {chain[i] : i \in 1 .. m} \cup {stack[n].file}
    <3>1. m \in Nat
      BY <1>2
    <3>2. 1 .. m + 1 = (1 .. m) \cup {m + 1}
      BY <3>1
    <3> QED BY <1>4, <3>2
  <2> QED BY <1>1, <1>3, <1>4, <2>1, <2>2 DEF WalkInv, VisitedOnce
<1>9. BasesClosed'
  <2>1. ASSUME NEW e \in DOMAIN parents[stack[n].file]
        PROVE  \E k \in 1 .. m : chain[k] = parents[stack[n].file][e]
    <3>1. e \in 1 .. Len(Inherits)
      BY <1>2 DEF Inherits
    <3>2. e < stack[n].next
      BY <1>1, <1>2, <3>1 DEF Inherits
    <3> QED BY <1>2, <3>2 DEF WalkInv, BasesClosed
  <2>2. ASSUME NEW i \in 1 .. m + 1, NEW e \in DOMAIN parents[chain'[i]]
        PROVE  \E k \in 1 .. i - 1 : chain'[k] = parents[chain'[i]][e]
    <3>1. CASE i = m + 1
      <4>1. PICK k \in 1 .. m : chain[k] = parents[stack[n].file][e]
        BY <1>4, <2>1, <3>1
      <4>2. k \in 1 .. i - 1
        BY <1>2, <3>1
      <4> QED BY <1>4, <3>1, <4>1, <4>2
    <3>2. CASE i \in 1 .. m
      <4>1. PICK k \in 1 .. i - 1 : chain[k] = parents[chain[i]][e]
        BY <1>4, <3>2 DEF WalkInv, BasesClosed
      <4>2. k \in 1 .. m
        BY <1>2, <3>2
      <4> QED BY <1>4, <3>2, <4>1, <4>2
    <3> QED BY <1>2, <3>1, <3>2
  <2>3. ASSUME NEW i \in 1 .. n - 1, NEW e \in DOMAIN parents[stack[i].file],
               e < stack[i].next, i < n - 1 => e < stack[i].next - 1
        PROVE  \E k \in 1 .. m + 1 : chain'[k] = parents[stack[i].file][e]
    <3>1. e \in Nat \ {0} /\ i \in 1 .. n /\ i \in 1 .. Len(stack) - 1 /\ i < n
      BY <1>2
    <3>2. CASE e < stack[i].next - 1
      <4>1. PICK k \in 1 .. m : chain[k] = parents[stack[i].file][e]
        BY <2>3, <3>1, <3>2 DEF WalkInv, BasesClosed
      <4> QED BY <1>2, <1>4, <4>1
    <3>3. CASE e = stack[i].next - 1
      <4>1. i + 1 = n
        BY <1>2, <2>3, <3>1, <3>3
      <4>2. parents[stack[i].file][e] = stack[n].file
        BY <3>1, <3>3, <4>1 DEF WalkInv, OpenPath, LastRead
      <4>3. m + 1 \in 1 .. m + 1
        BY <1>2
      <4> QED BY <1>4, <4>2, <4>3
    <3> QED BY <1>2, <2>3, <3>1, <3>2, <3>3
  <2>4. parents' = parents /\ Len(stack') = n - 1 /\ Len(chain') = m + 1
    BY <1>1, <1>3, <1>4
  <2>5. \A i \in 1 .. n - 1 : \A e \in DOMAIN parents[stack'[i].file] :
            e < stack'[i].next /\ (i < n - 1 => e < stack'[i].next - 1)
            => \E k \in 1 .. m + 1 : chain'[k] = parents[stack'[i].file][e]
    <3> HIDE DEF n, m
    <3> QED BY <1>3, <2>3
  <2> HIDE DEF n, m
  <2> QED BY <2>2, <2>4, <2>5 DEF BasesClosed
<1>10. VisitedReached'
  BY <1>1 DEF WalkInv, VisitedReached, Closures, Closed, Edges, Target
<1>11. Ends'
  <2>1. CASE n = 1
    <3>1. stack' = <<>>
      BY <1>3, <2>1
    <3>2. stack[1].file = Root
      BY <1>1 DEF WalkInv, OpenPath
    <3>3. chain' # <<>> /\ chain'[Len(chain')] = Root
      BY <1>2, <1>4, <2>1, <3>2
    <3> QED BY <1>1, <2>1, <3>1, <3>3 DEF Ends
  <2>2. CASE n # 1
    <3>1. stack' # <<>>
      BY <1>2, <1>3, <2>2
    <3> QED BY <1>1, <2>2, <3>1 DEF Ends
  <2> QED BY <2>1, <2>2
<1> QED BY <1>5, <1>6, <1>7, <1>8, <1>9, <1>10, <1>11 DEF WalkInv

-----------------------------------------------------------------------------
\* What the parsers and the validators add.

Configured(k) == Stated(k) \ Dropped(k)

ConfigTypes == config \in [Kinds -> SUBSET Tools] /\ vacated \subseteq Scoped \X Tools
ConfigStated == phase \in {"check", "served"} => \A k \in Kinds : config[k] = Configured(k)
ServedLegal == phase = "served" => Legal

ComposeInv == WalkInv /\ ConfigTypes /\ ConfigStated /\ ServedLegal

LEMMA StatedTools == WalkInv => \A k \in Kinds : Stated(k) \subseteq Tools
<1> SUFFICES ASSUME WalkInv, NEW p \in Places PROVE NodeAt(p).tool \in Tools
  BY DEF Stated, PlacesOf
<1>1. PICK i \in DOMAIN chain : p \in {i} \X DOMAIN nodes[chain[i]]
  BY DEF Places
<1>2. p[1] = i /\ p[2] \in DOMAIN nodes[chain[i]]
  BY <1>1
<1>3. chain[i] \in Files
  BY DEF WalkInv, WalkTypes
<1>4. nodes[chain[i]][p[2]] \in Node
  BY <1>2, <1>3 DEF WalkInv, WalkTypes
<1> QED BY <1>2, <1>4 DEF NodeAt, Node

LEMMA StatedAgain ==
    ASSUME UNCHANGED <<nodes, chain, minted>>
    PROVE  \A k : Stated(k)' = Stated(k) /\ Configured(k)' = Configured(k)
BY DEF Stated, PlacesOf, Places, NodeAt, Configured, Dropped, Vacant, Inherited

LEMMA InitCompose == Init => ComposeInv
BY InitWalk DEF Init, ComposeInv, ConfigTypes, ConfigStated, ServedLegal

LEMMA StepKeeps == ComposeInv /\ [Next]_vars => ComposeInv'
<1> SUFFICES ASSUME ComposeInv, [Next]_vars PROVE ComposeInv'
  OBVIOUS
<1> USE DEF ComposeInv
<1>1. ASSUME Enter PROVE ComposeInv'
  BY <1>1, EnterWalk DEF Enter, Walking, ConfigTypes, ConfigStated, ServedLegal
<1>2. ASSUME Leave PROVE ComposeInv'
  BY <1>2, LeaveWalk DEF Leave, Walking, ConfigTypes, ConfigStated, ServedLegal
<1>3. ASSUME Refuse PROVE ComposeInv'
  BY <1>3, QuietWalk DEF Refuse, ConfigTypes, ConfigStated, ServedLegal
<1>4. CASE EnterFails
  BY <1>3, <1>4 DEF EnterFails
<1>5. CASE Parse
  <2>1. CASE Refuse
    BY <1>3, <2>1
  <2>2. CASE ~Refuse
    <3>1. /\ phase = "parse" /\ phase' = "check"
          /\ config' = [k \in Kinds |-> Configured(k)]
          /\ vacated' = UNION {{k} \X Dropped(k) : k \in Kinds}
          /\ UNCHANGED <<files, stack, visited, chain>>
      BY <1>5, <2>2 DEF Parse, Configured
    <3>2. WalkInv'
      BY <3>1, QuietWalk
    <3>3. \A k \in Kinds : Stated(k) \subseteq Tools /\ Dropped(k) \subseteq Tools
      BY StatedTools DEF Dropped, Vacant
    <3>4. vacated' \subseteq Scoped \X Tools
      <4> SUFFICES ASSUME NEW k \in Kinds, NEW t \in Dropped(k) PROVE <<k, t>> \in Scoped \X Tools
        BY <3>1
      <4> QED BY <3>3 DEF Dropped
    <3>5. ConfigTypes'
      BY <3>1, <3>3, <3>4 DEF ConfigTypes, Configured
    <3>6. ConfigStated' /\ ServedLegal'
      <4>1. \A k \in Kinds : Configured(k)' = Configured(k)
        BY <3>1, StatedAgain DEF files
      <4> QED BY <3>1, <4>1 DEF ConfigStated, ServedLegal
    <3> QED BY <3>2, <3>5, <3>6
  <2> QED BY <2>1, <2>2
<1>6. CASE Check
  <2>1. /\ phase = "check" /\ phase' = IF Legal THEN "served" ELSE "refused"
        /\ UNCHANGED <<parents, nodes, limits, minted, stack, visited, chain, config, vacated>>
    BY <1>6 DEF Check, files
  <2>2. WalkInv'
    BY <2>1, QuietWalk DEF files
  <2>3. ConfigTypes' /\ ConfigStated'
    BY <2>1, StatedAgain DEF ConfigTypes, ConfigStated
  <2>4. Legal' = Legal
    BY <2>1 DEF Legal, GatesUncached, Limit
  <2> QED BY <2>1, <2>2, <2>3, <2>4 DEF ServedLegal
<1>7. ASSUME UNCHANGED vars PROVE ComposeInv'
  <2>1. UNCHANGED <<parents, nodes, limits, minted, stack, visited, chain, config, vacated, phase>>
    BY <1>7 DEF vars, files
  <2>2. WalkInv'
    BY <2>1, QuietWalk DEF files
  <2>3. Legal' = Legal
    BY <2>1 DEF Legal, GatesUncached, Limit
  <2> QED BY <2>1, <2>2, <2>3, StatedAgain DEF ConfigTypes, ConfigStated, ServedLegal
<1>8. CASE Finished
  BY <1>7, <1>8 DEF Finished
<1> QED BY <1>1, <1>2, <1>4, <1>5, <1>6, <1>7, <1>8 DEF Next

LEMMA ComposeInvariant == Spec => []ComposeInv
BY InitCompose, StepKeeps, PTL DEF Spec

-----------------------------------------------------------------------------
\* How many files were not visited: one fewer when a new one is entered.
LEMMA UnvisitedFalls ==
    ASSUME NEW seen \in SUBSET Files, NEW path \in Files \ seen
    PROVE  /\ Cardinality(Files \ seen) \in Nat /\ Cardinality(Files \ (seen \cup {path})) \in Nat
           /\ Cardinality(Files \ (seen \cup {path})) = Cardinality(Files \ seen) - 1
<1>1. IsFiniteSet(Files \ seen)
  BY FilesAssumption, FS_Subset
<1>2. Files \ (seen \cup {path}) = (Files \ seen) \ {path}
  OBVIOUS
<1>3. Cardinality((Files \ seen) \ {path}) = Cardinality(Files \ seen) - 1 /\ IsFiniteSet((Files \ seen) \ {path})
  BY <1>1, FS_RemoveElement
<1> QED BY <1>1, <1>2, <1>3, FS_CardinalityType

\* The walk and what follows it take two steps a file and one more at most: an `inherit`
\* that leads back, or a base that many files share, is an error, not a second visit.
THEOREM WalkTerminates == Spec => WalkIsBounded
<1>1. ASSUME ComposeInv, [Next]_vars PROVE [StepsLeft' \in Nat /\ StepsLeft' < StepsLeft]_vars
  <2> SUFFICES ASSUME vars' # vars PROVE StepsLeft' \in Nat /\ StepsLeft' < StepsLeft
    OBVIOUS
  <2> DEFINE open == Cardinality(Files \ visited)
  <2>1. WalkInv /\ stack \in Seq(Frame) /\ visited \subseteq Files
    BY <1>1 DEF ComposeInv, WalkInv, WalkTypes
  <2>2. Len(stack) \in Nat /\ open \in Nat
    <3>1. IsFiniteSet(Files \ visited)
      BY FilesAssumption, FS_Subset
    <3> QED BY <2>1, <3>1, FS_CardinalityType
  <2>3. CASE Enter
    <3> DEFINE path == Inherits[Top.next]
    <3>1. /\ phase = "walk" /\ phase' = phase /\ path \in Files \ visited /\ visited' = visited \cup {path}
          /\ Len(stack') = Len(stack) + 1
      BY <2>1, <2>3, EnterShape
    <3>2. Cardinality(Files \ visited') \in Nat /\ Cardinality(Files \ visited') = open - 1
      BY <2>1, <3>1, UnvisitedFalls
    <3> HIDE DEF open, path
    <3>3. StepsLeft' = 2 + 2 * Cardinality(Files \ visited') + Len(stack')
      BY <3>1 DEF StepsLeft
    <3>4. StepsLeft = 2 + 2 * open + Len(stack)
      BY <3>1 DEF StepsLeft, open
    <3> QED BY <2>2, <3>1, <3>2, <3>3, <3>4
  <2>4. CASE Leave
    <3>1. /\ phase = "walk" /\ phase' = IF Len(stack) = 1 THEN "parse" ELSE "walk"
          /\ visited' = visited /\ Len(stack) \in Nat \ {0} /\ Len(stack') = Len(stack) - 1
      BY <2>1, <2>4, LeaveShape
    <3>2. StepsLeft = 2 + 2 * open + Len(stack)
      BY <3>1 DEF StepsLeft
    <3>3. StepsLeft' = 2 \/ StepsLeft' = 2 + 2 * open + Len(stack')
      BY <3>1 DEF StepsLeft
    <3> HIDE DEF open
    <3> QED BY <2>2, <3>1, <3>2, <3>3
  <2>5. CASE Refuse /\ phase = "walk"
    <3>1. StepsLeft = 2 + 2 * open + Len(stack) /\ StepsLeft' = 0
      BY <2>5 DEF StepsLeft, Refuse
    <3> HIDE DEF open
    <3> QED BY <2>2, <3>1
  <2>6. CASE Parse \/ Check
    BY <2>6 DEF Parse, Check, Refuse, StepsLeft
  <2> QED BY <1>1, <2>3, <2>4, <2>5, <2>6 DEF Next, Finished, EnterFails, Walking
<1> QED BY <1>1, ComposeInvariant, PTL DEF Spec, WalkIsBounded

-----------------------------------------------------------------------------
\* A finished walk has collected the reached files, in an order.
LEMMA ChainIsReached ==
    ASSUME WalkInv, phase \in {"parse", "check", "served"}
    PROVE  Reached = {chain[i] : i \in 1 .. Len(chain)}
<1> DEFINE chained == {chain[i] : i \in 1 .. Len(chain)}
<1>1. chain \in Seq(Files) /\ Len(chain) \in Nat /\ DOMAIN chain = 1 .. Len(chain)
  BY DEF WalkInv, WalkTypes
<1>2. visited = chained
  BY DEF WalkInv, VisitedOnce, Ends
<1>3. Root \in chained
  <2>1. chain # <<>> /\ chain[Len(chain)] = Root
    BY DEF WalkInv, Ends
  <2>2. Len(chain) \in 1 .. Len(chain)
    BY <1>1, <2>1
  <2> QED BY <2>1, <2>2
<1>4. Closed(chained)
  <2> SUFFICES ASSUME NEW e \in Edges, e[1] \in chained PROVE Target(e) \in chained
    BY DEF Closed
  <2>1. e[2] \in DOMAIN parents[e[1]]
    BY DEF Edges
  <2>2. PICK i \in 1 .. Len(chain) : chain[i] = e[1]
    OBVIOUS
  <2>3. PICK k \in 1 .. i - 1 : chain[k] = parents[e[1]][e[2]]
    <3>1. \A x \in DOMAIN parents[chain[i]] : \E k \in 1 .. i - 1 : chain[k] = parents[chain[i]][x]
      BY DEF WalkInv, BasesClosed
    <3> QED BY <2>1, <2>2, <3>1
  <2>4. k \in 1 .. Len(chain)
    BY <1>1
  <2> QED BY <2>3, <2>4 DEF Target
<1>5. chained \in SUBSET Files
  BY <1>1
<1>6. Reached \subseteq chained
  BY <1>3, <1>4, <1>5 DEF Reached, BasesOf
<1>7. chained \subseteq Reached
  <2> SUFFICES ASSUME NEW f \in chained, NEW fs \in SUBSET Files, Root \in fs, Closed(fs)
               PROVE  f \in fs
    BY <1>5 DEF Reached, BasesOf
  <2> QED BY <1>2 DEF WalkInv, VisitedReached, Closures
<1> QED BY <1>6, <1>7

\* The chain holds the reached files once each, every base before its heirs.
THEOREM BaseFirst == Spec => []ChainIsBaseFirst
<1>1. ComposeInv => ChainIsBaseFirst
  <2> SUFFICES ASSUME WalkInv, phase \in {"parse", "check", "served"}
               PROVE  /\ {chain[i] : i \in DOMAIN chain} = Reached
                      /\ Len(chain) = Cardinality(Reached)
                      /\ chain[Len(chain)] = Root
                      /\ \A e \in Edges : e[1] \in Reached => Position(Target(e)) < Position(e[1])
    BY DEF ComposeInv, ChainIsBaseFirst
  <2>1. chain \in Seq(Files) /\ Len(chain) \in Nat /\ DOMAIN chain = 1 .. Len(chain)
    BY DEF WalkInv, WalkTypes
  <2>2. Reached = {chain[i] : i \in 1 .. Len(chain)}
    BY ChainIsReached
  <2>3. \A i, j \in 1 .. Len(chain) : chain[i] = chain[j] => i = j
    BY DEF WalkInv, NoneTwice
  <2>4. Len(chain) = Cardinality(Reached)
    <3>1. chain \in Bijection(1 .. Len(chain), Reached)
      <4>1. chain \in [1 .. Len(chain) -> Reached]
        BY <2>1, <2>2
      <4> QED BY <2>1, <2>2, <2>3, <4>1 DEF Bijection, Injection, Surjection, IsInjective
    <3>2. ExistsBijection(1 .. Len(chain), Reached)
      BY <3>1 DEF ExistsBijection
    <3> QED BY <2>1, <3>2, FS_CountingElements
  <2>5. \A i \in 1 .. Len(chain) : Position(chain[i]) = i
    BY <2>1, <2>3 DEF Position
  <2>6. ASSUME NEW e \in Edges, e[1] \in Reached PROVE Position(Target(e)) < Position(e[1])
    <3>1. PICK i \in 1 .. Len(chain) : chain[i] = e[1]
      BY <2>2, <2>6
    <3>2. e[2] \in DOMAIN parents[chain[i]]
      BY <3>1 DEF Edges
    <3>3. PICK k \in 1 .. i - 1 : chain[k] = parents[chain[i]][e[2]]
      BY <3>2 DEF WalkInv, BasesClosed
    <3>4. k \in 1 .. Len(chain) /\ k < i
      BY <2>1
    <3> QED BY <2>5, <3>1, <3>3, <3>4 DEF Target
  <2> QED BY <2>1, <2>2, <2>4, <2>6 DEF WalkInv, Ends
<1> QED BY <1>1, ComposeInvariant, PTL

\* Every variable keeps its type, and the walk is never deeper than its limit.
THEOREM TypeCorrect == Spec => []TypeOK
<1>1. ComposeInv => TypeOK
  <2> SUFFICES ASSUME ComposeInv PROVE TypeOK
    OBVIOUS
  <2>1. stack \in Seq(Frame) /\ chain \in Seq(Files)
    BY DEF ComposeInv, WalkInv, WalkTypes
  <2>2. stack \in Seq([file : visited, next : Nat \ {0}])
    <3> DEFINE frames == [file : visited, next : Nat \ {0}]
    <3>1. \A i \in 1 .. Len(stack) : stack[i] \in Frame
      BY <2>1
    <3>2. \A i \in 1 .. Len(stack) : stack[i].file \in visited
      BY DEF ComposeInv, WalkInv, VisitedOnce
    <3>3. \A i \in 1 .. Len(stack) : stack[i] \in frames
      BY <3>1, <3>2 DEF Frame
    <3> HIDE DEF frames
    <3> SUFFICES stack \in Seq(frames)
      BY DEF frames
    <3> QED BY <2>1, <3>3
  <2>3. chain \in Seq(visited)
    <3>1. \A i \in 1 .. Len(chain) : chain[i] \in visited
      BY DEF ComposeInv, WalkInv, VisitedOnce
    <3> QED BY <2>1, <3>1
  <2> QED BY <2>2, <2>3 DEF ComposeInv, WalkInv, WalkTypes, ConfigTypes, TypeOK
<1> QED BY <1>1, ComposeInvariant, PTL

\* What a reached file states has been seen by the parsers.
LEMMA ReachedIsStated ==
    ASSUME WalkInv, phase \in {"parse", "check", "served"},
           NEW f \in Reached, NEW i \in DOMAIN nodes[f]
    PROVE  nodes[f][i].kind \in Kinds /\ nodes[f][i].tool \in Stated(nodes[f][i].kind)
<1>1. chain \in Seq(Files) /\ DOMAIN chain = 1 .. Len(chain)
  BY DEF WalkInv, WalkTypes
<1>2. PICK c \in DOMAIN chain : chain[c] = f
  BY <1>1, ChainIsReached
<1>3. nodes[f][i] \in Node
  BY <1>1, <1>2 DEF WalkInv, WalkTypes
<1>4. <<c, i>> \in Places /\ NodeAt(<<c, i>>) = nodes[f][i]
  BY <1>2 DEF Places, NodeAt
<1> QED BY <1>3, <1>4 DEF Stated, PlacesOf, Node

\* A gate that any file of the chain states on a minted tool is in force.
THEOREM GatesHold == Spec => []GatesBind
<1>1. ComposeInv => GatesBind
  <2> SUFFICES ASSUME ComposeInv, phase = "served", NEW f \in Reached, NEW i \in DOMAIN nodes[f]
               PROVE  \/ nodes[f][i].tool \in config[nodes[f][i].kind]
                      \/ nodes[f][i].kind \in Scoped /\ nodes[f][i].tool \notin minted
    BY DEF GatesBind
  <2>1. nodes[f][i].kind \in Kinds /\ nodes[f][i].tool \in Stated(nodes[f][i].kind)
    BY ReachedIsStated DEF ComposeInv
  <2> QED BY <2>1 DEF ComposeInv, ConfigStated, Configured, Dropped, Vacant
<1> QED BY <1>1, ComposeInvariant, PTL

\* No tool that is gated anywhere in the chain is answered from memory.
THEOREM GatesNeverCached == Spec => []NoCacheOverGate
<1>1. ComposeInv => NoCacheOverGate
  <2> DEFINE said(k) == UNION {{n.tool : n \in {m \in Range(nodes[f]) : m.kind = k}} : f \in Reached}
  <2> SUFFICES ASSUME ComposeInv, phase = "served",
                      NEW t \in said("confirm"), t \in said("cache"), t \in minted
               PROVE  FALSE
    BY DEF NoCacheOverGate
  <2>1. ASSUME NEW k \in {"confirm", "cache"}, t \in said(k) PROVE t \in config[k]
    <3>1. PICK f \in Reached : \E m \in Range(nodes[f]) : m.kind = k /\ m.tool = t
      BY <2>1
    <3>2. PICK i \in DOMAIN nodes[f] : nodes[f][i].kind = k /\ nodes[f][i].tool = t
      BY <3>1 DEF Range
    <3>3. k \in Kinds /\ t \in Stated(k)
      BY <3>2, ReachedIsStated DEF ComposeInv
    <3> QED BY <3>3 DEF ComposeInv, ConfigStated, Configured, Dropped, Vacant
  <2>2. t \in config["confirm"] /\ t \in config["cache"]
    BY <2>1
  <2> QED BY <2>2 DEF ComposeInv, ServedLegal, Legal, GatesUncached
<1> QED BY <1>1, ComposeInvariant, PTL

-----------------------------------------------------------------------------
\* The files below a file of the chain are not after it.
LEMMA BasesComeFirst ==
    ASSUME WalkInv, phase \in {"parse", "check", "served"},
           NEW i \in DOMAIN chain, NEW j \in DOMAIN chain, chain[i] \in BasesOf(chain[j])
    PROVE  i <= j
<1> DEFINE below == {chain[k] : k \in 1 .. j}
<1>1. /\ chain \in Seq(Files) /\ Len(chain) \in Nat /\ DOMAIN chain = 1 .. Len(chain)
      /\ \A k \in 1 .. Len(chain) : chain[k] \in Files
  BY DEF WalkInv, WalkTypes
<1>2. 1 .. j \subseteq 1 .. Len(chain) /\ j \in 1 .. j
  BY <1>1
<1>3. below \in SUBSET Files /\ chain[j] \in below
  BY <1>1, <1>2
<1>4. Closed(below)
  <2> SUFFICES ASSUME NEW e \in Edges, e[1] \in below PROVE Target(e) \in below
    BY DEF Closed
  <2>1. PICK k \in 1 .. j : chain[k] = e[1]
    OBVIOUS
  <2>2. e[2] \in DOMAIN parents[chain[k]]
    BY <2>1 DEF Edges
  <2>3. PICK l \in 1 .. k - 1 : chain[l] = parents[chain[k]][e[2]]
    BY <1>2, <2>2 DEF WalkInv, BasesClosed
  <2>4. l \in 1 .. j
    BY <1>1
  <2> QED BY <2>1, <2>3, <2>4 DEF Target
<1>5. chain[i] \in below
  BY <1>3, <1>4 DEF BasesOf
<1>6. PICK k \in 1 .. j : chain[k] = chain[i]
  BY <1>5
<1>7. k = i
  BY <1>1, <1>2, <1>6 DEF WalkInv, NoneTwice
<1> QED BY <1>1, <1>7

\* A set of positions has a last one.
LEMMA LastOf ==
    ASSUME NEW n \in Nat, NEW ps \in SUBSET (1 .. n), ps # {}
    PROVE  \E i \in ps : \A j \in ps : j <= i
<1> DEFINE back == {n - i : i \in ps}
<1>1. back \in SUBSET Nat /\ back # {}
  <2>1. \A i \in ps : n - i \in Nat
    OBVIOUS
  <2>2. \A m \in back : m \in Nat
    BY <2>1
  <2>3. PICK i : i \in ps
    OBVIOUS
  <2>4. n - i \in back
    BY <2>3
  <2> QED BY <2>2, <2>4
<1>2. \E m \in back : \A k \in back : ~(<<k, m>> \in OpToRel(<, Nat))
  BY <1>1, WFMin, NatLessThanWellFounded, Zenon
<1>3. PICK i \in ps : \A k \in back : ~(<<k, n - i>> \in OpToRel(<, Nat))
  BY <1>2
<1>4. ASSUME NEW j \in ps PROVE j <= i
  <2>1. n - j \in back
    OBVIOUS
  <2>5. n - j \in Nat /\ n - i \in Nat /\ i \in Nat /\ j \in Nat
    OBVIOUS
  <2>2. ~(<<n - j, n - i>> \in OpToRel(<, Nat))
    BY <1>3, <2>1
  <2>3. ~(n - j < n - i)
    BY <2>5, <2>2 DEF OpToRel
  <2> QED BY <2>3, <2>5
<1> QED BY <1>4

\* pruneSingletons leaves the statements of one file, if there are any, and no file that
\* inherits from that file, directly or not, has one of its own (compose.go:153-175).
THEOREM NearestLimitHolds == Spec => []NearestLimitWins
<1>1. ComposeInv => NearestLimitWins
  <2> SUFFICES ASSUME WalkInv, phase = "served" PROVE NearestLimitWins
    BY DEF ComposeInv, NearestLimitWins
  <2>1. /\ chain \in Seq(Files) /\ Len(chain) \in Nat /\ DOMAIN chain = 1 .. Len(chain)
        /\ \A k \in 1 .. Len(chain) : chain[k] \in Files /\ limits[chain[k]] \in Nat
    BY LimitsAssumption DEF WalkInv, WalkTypes
  <2>2. Reached = {chain[i] : i \in 1 .. Len(chain)}
    BY ChainIsReached
  <2>3. ASSUME NEW f \in Reached, limits[f] > 0 PROVE Limit # {}
    <3> DEFINE stating == {i \in 1 .. Len(chain) : limits[chain[i]] > 0}
    <3>1. stating # {}
      BY <2>2, <2>3
    <3>2. PICK i \in stating : \A j \in stating : j <= i
      BY <2>1, <3>1, LastOf
    <3>3. \A j \in i + 1 .. Len(chain) : limits[chain[j]] = 0
      <4> SUFFICES ASSUME NEW j \in i + 1 .. Len(chain), limits[chain[j]] # 0 PROVE FALSE
        OBVIOUS
      <4>1. j \in 1 .. Len(chain) /\ j > i
        BY <2>1
      <4>2. j \in stating
        BY <2>1, <4>1
      <4> QED BY <2>1, <3>2, <4>1, <4>2
    <3> QED BY <2>1, <3>3 DEF Limit
  <2>4. ASSUME NEW i \in Limit, NEW h \in Reached \ {chain[i]}, chain[i] \in BasesOf(h)
        PROVE  limits[h] = 0
    <3>1. PICK j \in DOMAIN chain : chain[j] = h
      BY <2>1, <2>2
    <3>2. i \in DOMAIN chain /\ i # j
      BY <2>4, <3>1 DEF Limit
    <3>3. i <= j
      BY <2>4, <3>1, <3>2, BasesComeFirst
    <3>4. j \in i + 1 .. Len(chain)
      BY <2>1, <3>2, <3>3
    <3> QED BY <3>1, <3>4 DEF Limit
  <2> QED BY <2>3, <2>4 DEF NearestLimitWins
<1> QED BY <1>1, ComposeInvariant, PTL

-----------------------------------------------------------------------------
\* An `inherit` that the walk has been through: its file is closed, or is past it.
PastIn(f, k) ==
    \/ \E i \in 1 .. Len(chain) : chain[i] = f
    \/ \E i \in 1 .. Len(stack) : stack[i].file = f /\ k < stack[i].next

\* Every visited file but the first is there because of one.
EnteredByEdge ==
    \A g \in visited \ {Root} :
        \E f \in visited : \E k \in DOMAIN parents[f] : parents[f][k] = g /\ PastIn(f, k)

TreeInv == ComposeInv /\ EnteredByEdge /\ TreesAreComposed

LEMMA EnterByEdge == ASSUME WalkInv, EnteredByEdge, Enter PROVE EnteredByEdge'
<1> DEFINE n == Len(stack)
           path == Inherits[Top.next]
<1>1. /\ visited' = visited \cup {path} /\ UNCHANGED <<parents, chain>>
      /\ n \in Nat \ {0} /\ Top = stack[n] /\ Top.next \in Nat /\ Top.next \in DOMAIN Inherits
      /\ Inherits = parents[stack[n].file]
  BY EnterShape
<1>2. /\ Len(stack') = n + 1
      /\ \A i \in 1 .. n : stack'[i].file = stack[i].file
      /\ \A i \in 1 .. n - 1 : stack'[i] = stack[i]
      /\ stack'[n].next = stack[n].next + 1
      /\ \A i \in 1 .. n : stack[i].file \in Files /\ stack[i].next \in Nat \ {0}
      /\ \A f \in Files : parents[f] \in Seq(Files \cup {Missing})
  BY EnterShape
<1>3. 1 .. n \subseteq 1 .. n + 1 /\ n \in 1 .. n /\ 1 .. n = (1 .. n - 1) \cup {n}
  BY <1>1
<1>4. stack[n].file \in visited
  BY <1>3 DEF WalkInv, VisitedOnce
<1> HIDE DEF n, path
<1>5. ASSUME NEW f \in Files, NEW k \in DOMAIN parents[f], PastIn(f, k) PROVE PastIn(f, k)'
  <2>1. CASE \E i \in 1 .. Len(chain) : chain[i] = f
    BY <1>1, <2>1 DEF PastIn
  <2>2. CASE \E i \in 1 .. n : stack[i].file = f /\ k < stack[i].next
    <3>1. PICK i \in 1 .. n : stack[i].file = f /\ k < stack[i].next
      BY <2>2
    <3>2. k \in Nat
      BY <1>2
    <3>3. stack'[i].file = f /\ k < stack'[i].next
      <4>1. CASE i = n
        BY <1>2, <1>3, <3>1, <3>2, <4>1
      <4>2. CASE i # n
        BY <1>2, <1>3, <3>1, <4>2
      <4> QED BY <4>1, <4>2
    <3> QED BY <1>2, <1>3, <3>3 DEF PastIn
  <2> QED BY <1>5, <2>1, <2>2 DEF PastIn, n
<1>6. \E f \in visited : \E k \in DOMAIN parents[f] : parents[f][k] = path /\ PastIn(f, k)'
  <2>1. parents[stack[n].file][Top.next] = path /\ Top.next \in DOMAIN parents[stack[n].file]
    BY <1>1 DEF path
  <2>2. PICK f, k : f = stack[n].file /\ k = Top.next
    OBVIOUS
  <2>3. stack'[n].file = f /\ k < stack'[n].next
    BY <1>1, <1>2, <1>3, <2>2
  <2>4. PastIn(f, k)'
    BY <1>2, <1>3, <2>3 DEF PastIn
  <2> QED BY <1>4, <2>1, <2>2, <2>4
<1> SUFFICES ASSUME NEW g \in visited' \ {Root}
             PROVE  \E f \in visited' : \E k \in DOMAIN parents[f] : parents[f][k] = g /\ PastIn(f, k)'
  BY <1>1 DEF EnteredByEdge, PastIn
<1>7. CASE g = path
  BY <1>1, <1>6, <1>7
<1>8. CASE g # path
  <2>1. PICK f \in visited : \E k \in DOMAIN parents[f] : parents[f][k] = g /\ PastIn(f, k)
    BY <1>1, <1>8 DEF EnteredByEdge
  <2>2. f \in Files
    BY DEF WalkInv, WalkTypes
  <2> QED BY <1>1, <1>5, <2>1, <2>2
<1> QED BY <1>7, <1>8

LEMMA LeaveByEdge == ASSUME WalkInv, EnteredByEdge, Leave PROVE EnteredByEdge'
<1> DEFINE n == Len(stack)
           m == Len(chain)
<1>1. UNCHANGED <<parents, visited>> /\ n \in Nat \ {0} /\ m \in Nat
  BY LeaveShape
<1>2. /\ Len(stack') = n - 1
      /\ \A i \in 1 .. n - 1 : stack'[i] = stack[i]
      /\ Len(chain') = m + 1
      /\ \A i \in 1 .. m : chain'[i] = chain[i]
      /\ chain'[m + 1] = stack[n].file
  BY LeaveShape
<1>3. 1 .. n = (1 .. n - 1) \cup {n} /\ 1 .. m + 1 = (1 .. m) \cup {m + 1}
  BY <1>1
<1> HIDE DEF n, m
<1>4. ASSUME NEW f, NEW k, PastIn(f, k) PROVE PastIn(f, k)'
  <2>1. CASE \E i \in 1 .. m : chain[i] = f
    BY <1>2, <1>3, <2>1 DEF PastIn
  <2>2. CASE \E i \in 1 .. n : stack[i].file = f /\ k < stack[i].next
    BY <1>2, <1>3, <2>2 DEF PastIn
  <2> QED BY <1>4, <2>1, <2>2 DEF PastIn, n, m
<1> SUFFICES ASSUME NEW g \in visited \ {Root}
             PROVE  \E f \in visited : \E k \in DOMAIN parents[f] : parents[f][k] = g /\ PastIn(f, k)'
  BY <1>1 DEF EnteredByEdge, PastIn
<1> QED BY <1>4 DEF EnteredByEdge

\* Wherever the walk gives up, the files are no tree or there are too many of them.
LEMMA RefusedIsNoTree ==
    ASSUME WalkInv, EnteredByEdge, EnterFails, IsTree(Reached), Cardinality(Reached) <= MaxDepth + 1
    PROVE  FALSE
<1> DEFINE n == Len(stack)
           path == Inherits[Top.next]
           top == stack[n].file
           edge == <<top, Top.next>>
           open == {stack[i].file : i \in 1 .. n}
<1>1. /\ stack # <<>> /\ Top.next <= Len(Inherits)
      /\ path \in visited \/ path = Missing \/ TooDeep
  BY DEF EnterFails, Walking
<1>2. /\ stack \in Seq(Frame) /\ n \in Nat \ {0} /\ n \in 1 .. n /\ n <= MaxDepth + 1
      /\ Top = stack[n] /\ top \in Files /\ Top.next \in Nat \ {0}
      /\ \A i \in 1 .. n : stack[i].file \in Files
      /\ Inherits = parents[top] /\ parents[top] \in Seq(Files \cup {Missing})
  <2>1. stack \in Seq(Frame) /\ n \in Nat \ {0} /\ n <= MaxDepth + 1
    BY <1>1 DEF WalkInv, WalkTypes
  <2>2. n \in 1 .. n /\ \A i \in 1 .. n : stack[i] \in Frame
    BY <2>1
  <2> QED BY <2>1, <2>2 DEF WalkInv, WalkTypes, Frame, Top, Inherits
<1>3. Top.next \in DOMAIN parents[top] /\ path = parents[top][Top.next] /\ path \in Files \cup {Missing}
  <2>1. Top.next \in 1 .. Len(parents[top])
    BY <1>1, <1>2
  <2> QED BY <1>2, <2>1
<1>4. visited \subseteq Reached
  BY DEF WalkInv, WalkTypes, VisitedReached, Closures, Reached, BasesOf
<1>5. open \subseteq visited /\ top \in open
  BY <1>2 DEF WalkInv, VisitedOnce
<1>6. edge \in Edges /\ edge[1] \in Reached /\ Target(edge) = path
  <2>1. edge \in {top} \X DOMAIN parents[top]
    BY <1>3
  <2> QED BY <1>2, <1>3, <1>4, <1>5, <2>1 DEF Edges, Target
<1>7. path \notin {Missing, Root}
  BY <1>6 DEF IsTree
<1>8. path \notin visited
  <2> SUFFICES ASSUME path \in visited PROVE FALSE
    OBVIOUS
  <2>9. PICK f \in visited : \E k \in DOMAIN parents[f] : parents[f][k] = path /\ PastIn(f, k)
    BY <1>7 DEF EnteredByEdge
  <2>1. PICK k \in DOMAIN parents[f] : parents[f][k] = path /\ PastIn(f, k)
    BY <2>9
  <2>2. f \in Files /\ <<f, k>> \in {f} \X DOMAIN parents[f]
    BY DEF WalkInv, WalkTypes
  <2>3. <<f, k>> \in Edges /\ <<f, k>>[1] \in Reached /\ Target(<<f, k>>) = path
    BY <1>4, <2>1, <2>2 DEF Edges, Target
  <2>4. <<f, k>> = edge
    BY <1>6, <2>3 DEF IsTree
  <2>5. f = top /\ k = Top.next
    BY <2>4
  <2>6. \A i \in 1 .. Len(chain) : chain[i] # top
    BY <1>2 DEF WalkInv, NoneTwice
  <2>7. PICK i \in 1 .. n : stack[i].file = top /\ Top.next < stack[i].next
    BY <2>1, <2>5, <2>6 DEF PastIn
  <2>8. i = n
    BY <1>2, <2>7 DEF WalkInv, NoneTwice
  <2> QED BY <1>2, <2>7, <2>8
<1>9. n = MaxDepth + 1
  BY <1>1, <1>2, <1>7, <1>8, DepthAssumption DEF TooDeep
<1>10. path \in Reached
  <2> SUFFICES ASSUME NEW fs \in SUBSET Files, Root \in fs, Closed(fs) PROVE path \in fs
    BY <1>3, <1>7 DEF Reached, BasesOf
  <2>1. top \in fs
    BY <1>4, <1>5 DEF Reached, BasesOf
  <2> QED BY <1>6, <1>7, <2>1 DEF Closed
<1>11. IsFiniteSet(open) /\ Cardinality(open) = n
  <2> DEFINE at == [i \in 1 .. n |-> stack[i].file]
  <2>1. at \in [1 .. n -> open] /\ \A i, j \in 1 .. n : at[i] = at[j] => i = j
    BY DEF WalkInv, NoneTwice
  <2>2. at \in Bijection(1 .. n, open)
    BY <2>1 DEF Bijection, Injection, Surjection, IsInjective
  <2>3. ExistsBijection(1 .. n, open)
    BY <2>2 DEF ExistsBijection
  <2>4. n \in Nat
    BY <1>2
  <2>5. IsFiniteSet(open)
    BY <2>3, <2>4, FS_NatBijection
  <2> HIDE DEF open, n
  <2> QED BY <2>3, <2>4, <2>5, FS_CountingElements
<1>12. IsFiniteSet(open \cup {path}) /\ Cardinality(open \cup {path}) = n + 1
  <2> HIDE DEF open, path, n
  <2> QED BY <1>5, <1>8, <1>11, FS_AddElement
<1>13. IsFiniteSet(Reached)
  BY FilesAssumption, FS_Subset DEF Reached, BasesOf
<1>14. open \cup {path} \subseteq Reached
  BY <1>4, <1>5, <1>10
<1>15. n + 1 <= Cardinality(Reached) /\ Cardinality(Reached) \in Nat
  BY <1>12, <1>13, <1>14, FS_Subset, FS_CardinalityType
<1> QED BY <1>2, <1>9, <1>15, DepthAssumption

LEMMA TreeStep == TreeInv /\ [Next]_vars => TreeInv'
<1> SUFFICES ASSUME TreeInv, [Next]_vars PROVE EnteredByEdge' /\ TreesAreComposed'
  BY StepKeeps DEF TreeInv
<1> USE DEF TreeInv
<1>1. WalkInv
  BY DEF ComposeInv
<1>2. CASE Enter
  BY <1>1, <1>2, EnterByEdge DEF Enter, Walking, TreesAreComposed
<1>3. CASE Leave
  BY <1>1, <1>3, LeaveByEdge DEF Leave, Walking, TreesAreComposed
<1>4. ASSUME UNCHANGED <<parents, stack, visited, chain>>
      PROVE  EnteredByEdge' /\ Reached' = Reached /\ IsTree(Reached)' = IsTree(Reached)
  BY <1>4 DEF EnteredByEdge, PastIn, Reached, BasesOf, Closed, Edges, Target, IsTree
<1>5. CASE EnterFails
  <2>1. UNCHANGED <<parents, stack, visited, chain>>
    BY <1>5 DEF EnterFails, Refuse, files
  <2>2. ~(IsTree(Reached) /\ Cardinality(Reached) <= MaxDepth + 1)
    BY <1>1, <1>5, RefusedIsNoTree
  <2> QED BY <1>4, <2>1, <2>2 DEF TreesAreComposed
<1>6. CASE Parse \/ Check
  <2>1. UNCHANGED <<parents, stack, visited, chain>>
    BY <1>6 DEF Parse, Check, Refuse, files
  <2>2. stack = <<>>
    BY <1>1, <1>6 DEF WalkInv, Ends, Parse, Check
  <2> QED BY <1>4, <2>1, <2>2 DEF TreesAreComposed
<1>7. CASE Finished \/ UNCHANGED vars
  <2>1. UNCHANGED <<parents, stack, visited, chain, phase>>
    BY <1>7 DEF Finished, vars, files
  <2> QED BY <1>4, <2>1 DEF TreesAreComposed
<1> QED BY <1>2, <1>3, <1>5, <1>6, <1>7 DEF Next

\* collectInherited gives up only where it should: at a cycle, a path that comes again, a
\* file that cannot be read, or more nested files than maxInheritDepth allows
\* (compose.go:62-85).
THEOREM TreesCompose == Spec => []TreesAreComposed
<1>1. Init => TreeInv
  BY InitCompose DEF Init, TreeInv, EnteredByEdge, TreesAreComposed
<1>2. TreeInv => TreesAreComposed
  BY DEF TreeInv
<1> QED BY <1>1, <1>2, TreeStep, PTL DEF Spec
=============================================================================
