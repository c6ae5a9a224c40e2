--------------------------- MODULE EmissionProofs ---------------------------
(***************************************************************************)
(* Proofs about the emission order, for any file: any functions, whatever    *)
(* they call and refer to, in any order, and whatever the backend refuses.   *)
(* The recursion of emit_function_group descends in the graph of the groups, *)
(* which has no cycles; that it ends up with each statement once, callees    *)
(* first, follows from what is emitted being whole groups.                   *)
(***************************************************************************)
EXTENDS Emission, Integers, FiniteSetTheorems, SequenceTheorems, WellFoundedInduction, TLAPS

\* The statements that are out.
Out == UNION {parts[i].node : i \in DOMAIN parts}

Frames == [name : Functions(body), group : SUBSET Functions(body), rest : SUBSET Functions(body)]

TypeInv ==
  /\ body \in Programs /\ best \in BOOLEAN /\ mode \in {"both", "run"}
  /\ pc \in {"loop", "visit", "send", "done", "error"}
  /\ pos \in 1..(Len(body) + 1)
  /\ stack \in Seq(Frames)
  /\ codes \in Seq(Parts) /\ parts \in Seq(Parts)
  /\ emitted \subseteq Functions(body)
  /\ unsup \in Nat

\* What the program counter says of the loop and the stack.
PlaceOK ==
  /\ pc \in {"loop", "done", "error"} => stack = <<>>
  /\ pc = "visit" => stack # <<>>
  /\ stack # <<>> => pos \in Defs(body) /\ stack[1].name = body[pos].name
  /\ pc = "send" => IF stack = <<>> THEN pos \in DOMAIN body \ Defs(body) ELSE Top.rest = {}
  /\ pc = "done" => pos = Len(body) + 1

\* What has been collected are the first passes of the node.
CodesOK ==
  /\ pc # "send" => codes = <<>>
  /\ pc = "send" => Len(codes) <= Len(Passes) /\ \A k \in DOMAIN codes : codes[k] = Code(Passes[k])

\* The pending groups are not out, and nothing they call is forgotten: it is in
\* the group, to be visited, out, or on the stack just above.  Each was reached
\* from the one below, which cannot be reached back.
StackOK ==
  /\ \A i \in DOMAIN stack :
       /\ stack[i].group = GroupOf(body, stack[i].name)
       /\ stack[i].group \cap emitted = {}
       /\ stack[i].rest \subseteq CalleesOf(body, stack[i].group) \ stack[i].group
       /\ CalleesOf(body, stack[i].group) \subseteq
            stack[i].group \cup stack[i].rest \cup emitted
              \cup {stack[j].name : j \in {i + 1} \cap DOMAIN stack}
  /\ \A i, j \in DOMAIN stack : i < j =>
       stack[j].name \in Reach(body, stack[i].name) /\ stack[i].name \notin Reach(body, stack[j].name)

\* What is out are whole groups; of the rest, what the loop has passed.
OutOK ==
  /\ \A n \in emitted : GroupOf(body, n) \subseteq emitted
  /\ Out \subseteq DOMAIN body
  /\ \A k \in Defs(body) : k \in Out <=> body[k].name \in emitted
  /\ \A k \in DOMAIN body \ Defs(body) : k \in Out <=> k < pos
  /\ \A k \in Defs(body) : k < pos => k \in Out
  /\ unsup <= Cardinality(Out)

IInv == TypeInv /\ PlaceOK /\ CodesOK /\ StackOK /\ OutOK

\* A part declares what its statements are called, or numbers a placeholder.
DeclaresOK ==
  \A i \in DOMAIN parts : \A d \in parts[i].declares :
    \/ \E k \in parts[i].node : d[1] = body[k].kind /\ d[2] = body[k].name
    \/ d[1] = "unsup" /\ d[2] \in Nat /\ d[2] < unsup

\* In both modes the twin of a declaration is declared, too, at any time.
TwinsOK ==
  mode = "both" =>
    \A i \in DOMAIN parts : \A d \in parts[i].declares : d[1] \in {"def", "class", "guard"} =>
      \A s \in {"", "rn"} : \E j \in DOMAIN parts : <<d[1], d[2], s>> \in parts[j].declares

\* What is out is declared, with its twin, or was lost with a refused group.
NamesOK ==
  \A k \in Out : body[k].kind \in {"def", "class"} =>
    \A s \in Halves : \E j \in DOMAIN parts :
      <<body[k].kind, body[k].name, s>> \in parts[j].declares \/ Lost(parts[j], k)

\* A file defines each class and each top-level name once, as it does functions.
EachNameOnce ==
  \A p \in Programs : \A i, j \in DOMAIN p : p[i].kind = p[j].kind /\ p[i].name = p[j].name => i = j
-----------------------------------------------------------------------------
(* The call graph. *)

LEMMA Body ==
  ASSUME NEW p \in Programs
  PROVE  /\ p \in Seq(Statements) /\ DOMAIN p = 1..Len(p) /\ Len(p) \in Nat
         /\ \A i \in DOMAIN p : /\ p[i] \in Statements /\ p[i].name \in Names /\ p[i].name \in Nat
                                /\ p[i].calls \subseteq p[i].refs
                                /\ p[i].kind \in {"def", "class", "guard", "top"}
         /\ Defs(p) \subseteq DOMAIN p
         /\ Functions(p) \subseteq Names
<1>1. p \in Seq(Statements) /\ Distinct(p) /\ \A i \in DOMAIN p : p[i].calls \subseteq p[i].refs
  BY ConstantsAssumption
<1>2. \A i \in DOMAIN p : p[i] \in Statements
  BY <1>1
<1>3. \A i \in DOMAIN p : p[i].name \in Names /\ p[i].name \in Nat /\ p[i].kind \in {"def", "class", "guard", "top"}
  BY <1>2, ConstantsAssumption DEF Statements
<1>4. QED
  BY <1>1, <1>2, <1>3 DEF Defs, Functions

\* A function name and its definition determine each other.
LEMMA Definition ==
  ASSUME NEW p \in Programs
  PROVE  /\ \A n \in Functions(p) : At(p, n) \in Defs(p) /\ p[At(p, n)].name = n
         /\ \A i \in Defs(p) : p[i].name \in Functions(p) /\ At(p, p[i].name) = i
<1>1. \A n \in Functions(p) : At(p, n) \in Defs(p) /\ p[At(p, n)].name = n
  BY DEF At, Functions
<1>2. ASSUME NEW i \in Defs(p) PROVE p[i].name \in Functions(p) /\ At(p, p[i].name) = i
  <2>1. p[i].name \in Functions(p)
    BY DEF Functions
  <2>2. At(p, p[i].name) \in Defs(p) /\ p[At(p, p[i].name)].name = p[i].name
    BY <1>1, <2>1
  <2>3. Distinct(p)
    BY ConstantsAssumption
  <2>4. QED
    BY <2>1, <2>2, <2>3 DEF Distinct, Defs
<1>3. QED
  BY <1>1, <1>2

\* What a function reaches holds what it refers to and what that reaches.
LEMMA ReachCloses ==
  ASSUME NEW p \in Programs, NEW n
  PROVE  /\ Reach(p, n) \subseteq Functions(p)
         /\ RefsOf(p, n) \subseteq Reach(p, n)
         /\ \A k \in Reach(p, n) : RefsOf(p, k) \subseteq Reach(p, n)
BY DEF Reach, RefsOf

LEMMA ReachFollows ==
  ASSUME NEW p \in Programs, NEW n, NEW m \in Reach(p, n)
  PROVE  Reach(p, m) \subseteq Reach(p, n)
<1> DEFINE S == Reach(p, n)
<1>1. S \in SUBSET Functions(p) /\ RefsOf(p, m) \subseteq S /\ \A k \in S : RefsOf(p, k) \subseteq S
  BY ReachCloses
<1> HIDE DEF S
<1>2. Reach(p, m) \subseteq S
  BY <1>1 DEF Reach
<1>3. QED
  BY <1>2 DEF S

\* The groups partition the functions.
LEMMA Groups ==
  ASSUME NEW p \in Programs, NEW n \in Functions(p)
  PROVE  /\ GroupOf(p, n) \subseteq Functions(p) /\ n \in GroupOf(p, n)
         /\ \A m \in GroupOf(p, n) : m = n \/ (m \in Reach(p, n) /\ n \in Reach(p, m))
         /\ \A m \in GroupOf(p, n) : GroupOf(p, m) = GroupOf(p, n)
<1>1. GroupOf(p, n) \subseteq Functions(p) /\ n \in GroupOf(p, n)
  BY ReachCloses DEF GroupOf
<1>2. ASSUME NEW m \in GroupOf(p, n), m # n PROVE m \in Reach(p, n) /\ n \in Reach(p, m)
  BY <1>2 DEF GroupOf
<1>3. ASSUME NEW m \in Reach(p, n), n \in Reach(p, m) PROVE GroupOf(p, m) = GroupOf(p, n)
  <2>1. Reach(p, m) = Reach(p, n)
    BY <1>3, ReachFollows
  <2>2. n \in Reach(p, n) /\ m \in Reach(p, m)
    BY <1>3, <2>1
  <2>3. \A k \in Reach(p, n) : (n \in Reach(p, k)) <=> (m \in Reach(p, k))
    <3>1. ASSUME NEW k \in Reach(p, n) PROVE (n \in Reach(p, k)) <=> (m \in Reach(p, k))
      <4>1. n \in Reach(p, k) => m \in Reach(p, k)
        BY <1>3, ReachFollows
      <4>2. m \in Reach(p, k) => n \in Reach(p, k)
        BY <1>3, ReachFollows
      <4>3. QED
        BY <4>1, <4>2
    <3>2. QED
      BY <3>1
  <2>4. QED
    BY <1>3, <2>1, <2>2, <2>3 DEF GroupOf
<1>4. ASSUME NEW m \in GroupOf(p, n)
      PROVE  /\ m = n \/ (m \in Reach(p, n) /\ n \in Reach(p, m))
             /\ GroupOf(p, m) = GroupOf(p, n)
  <2>1. CASE m = n
    BY <2>1
  <2>2. CASE m # n
    BY <1>2, <1>3, <2>2
  <2>3. QED
    BY <2>1, <2>2
<1>5. QED
  BY <1>1, <1>4

\* What a group calls outside itself it reaches, and is not reached from.
LEMMA CalleesBelow ==
  ASSUME NEW p \in Programs, NEW n \in Functions(p),
         NEW c \in CalleesOf(p, GroupOf(p, n)), c \notin GroupOf(p, n)
  PROVE  c \in Functions(p) /\ c \in Reach(p, n) /\ n \notin Reach(p, c)
<1>1. PICK m \in GroupOf(p, n) : c \in p[At(p, m)].calls \cap Functions(p)
  BY DEF CalleesOf
<1>2. m \in Functions(p) /\ (m = n \/ m \in Reach(p, n))
  BY <1>1, Groups
<1>3. c \in RefsOf(p, m)
  BY <1>1, <1>2, Definition, Body DEF RefsOf
<1>4. c \in Reach(p, n)
  BY <1>2, <1>3, ReachCloses
<1>5. QED
  BY <1>1, <1>4 DEF GroupOf

\* The least of some function names is one of them.
LEMMA LeastIsOne ==
  ASSUME NEW S, S \subseteq Nat, S # {}
  PROVE  Least(S) \in S
<1>1. IsWellFoundedOn(OpToRel(<, Nat), Nat)
  BY NatLessThanWellFounded
<1>2. \E x \in S : \A y \in S : ~ (<<y, x>> \in OpToRel(<, Nat))
  BY <1>1, WFMin
<1>3. PICK x \in S : \A y \in S : ~ (<<y, x>> \in {ss \in Nat \X Nat : ss[1] < ss[2]})
  BY <1>2 DEF OpToRel
<1>4. ASSUME NEW y \in S PROVE x <= y
  <2>1. ~ (y < x)
    BY <1>3
  <2>2. QED
    BY <2>1
<1>5. QED
  BY <1>4 DEF Least
-----------------------------------------------------------------------------
(* Sequences. *)

LEMMA Joined ==
  ASSUME NEW T, NEW q \in Seq(T), NEW r \in Seq(T)
  PROVE  /\ q \o r \in Seq(T) /\ Len(q \o r) = Len(q) + Len(r)
         /\ Len(q) \in Nat /\ Len(r) \in Nat
         /\ DOMAIN q = 1..Len(q) /\ DOMAIN r = 1..Len(r) /\ DOMAIN (q \o r) = 1..(Len(q) + Len(r))
         /\ \A i \in DOMAIN q : i \in DOMAIN (q \o r) /\ (q \o r)[i] = q[i]
         /\ \A i \in DOMAIN r : Len(q) + i \in DOMAIN (q \o r) /\ (q \o r)[Len(q) + i] = r[i]
         /\ \A i \in DOMAIN (q \o r) : i \in DOMAIN q \/ \E j \in DOMAIN r : i = Len(q) + j
<1>1. /\ q \o r \in Seq(T) /\ Len(q \o r) = Len(q) + Len(r)
      /\ Len(q) \in Nat /\ Len(r) \in Nat
      /\ DOMAIN q = 1..Len(q) /\ DOMAIN r = 1..Len(r) /\ DOMAIN (q \o r) = 1..(Len(q) + Len(r))
  OBVIOUS
<1>2. ASSUME NEW i \in DOMAIN q PROVE i \in DOMAIN (q \o r) /\ (q \o r)[i] = q[i]
  BY <1>1
<1>3. ASSUME NEW i \in DOMAIN r
      PROVE  Len(q) + i \in DOMAIN (q \o r) /\ (q \o r)[Len(q) + i] = r[i]
  BY <1>1
<1>4. ASSUME NEW i \in DOMAIN (q \o r), i \notin DOMAIN q
      PROVE  \E j \in DOMAIN r : i = Len(q) + j
  <2>1. i - Len(q) \in 1..Len(r) /\ i = Len(q) + (i - Len(q))
    BY <1>1, <1>4
  <2>2. QED
    BY <1>1, <2>1
<1>5. QED
  BY <1>1, <1>2, <1>3, <1>4

LEMMA ButLast ==
  ASSUME NEW T, NEW q \in Seq(T), Len(q) > 1
  PROVE  /\ SubSeq(q, 1, Len(q) - 1) \in Seq(T) /\ SubSeq(q, 1, Len(q) - 1) # <<>>
         /\ Len(SubSeq(q, 1, Len(q) - 1)) = Len(q) - 1
         /\ DOMAIN SubSeq(q, 1, Len(q) - 1) = 1..(Len(q) - 1)
         /\ \A i \in 1..(Len(q) - 1) : SubSeq(q, 1, Len(q) - 1)[i] = q[i]
<1> DEFINE n == Len(q) - 1
           r == SubSeq(q, 1, n)
<1>1. n \in Nat /\ n >= 1 /\ n - 1 + 1 = n /\ 1 \in 1..(Len(q) + 1) /\ n \in (1 - 1)..Len(q)
  OBVIOUS
<1> HIDE DEF n
<1>2. r \in Seq(T) /\ Len(r) = n - 1 + 1 /\ \A i \in 1..(n - 1 + 1) : r[i] = q[1 + i - 1]
  BY <1>1, SubSeqProperties
<1> HIDE DEF r
<1>3. r \in Seq(T) /\ Len(r) = n /\ DOMAIN r = 1..n /\ r # <<>>
  BY <1>1, <1>2
<1>4. ASSUME NEW i \in 1..n PROVE r[i] = q[i]
  <2>1. 1 + i - 1 = i
    BY <1>1
  <2>2. QED
    BY <1>1, <1>2, <2>1
<1>5. QED
  BY <1>3, <1>4 DEF n, r

LEMMA Single ==
  ASSUME NEW T, NEW e \in T
  PROVE  /\ <<e>> \in Seq(T) /\ <<e>> # <<>> /\ Len(<<e>>) = 1 /\ DOMAIN <<e>> = {1} /\ <<e>>[1] = e
OBVIOUS

LEMMA Push ==
  ASSUME NEW T, NEW q \in Seq(T), NEW e \in T
  PROVE  /\ Len(q) \in Nat /\ DOMAIN q = 1..Len(q)
         /\ Append(q, e) \in Seq(T) /\ Len(Append(q, e)) = Len(q) + 1 /\ Append(q, e) # <<>>
         /\ DOMAIN Append(q, e) = 1..(Len(q) + 1)
         /\ Append(q, e)[Len(q) + 1] = e
         /\ \A n \in 1..Len(q) : Append(q, e)[n] = q[n]
OBVIOUS

\* A sequence with one element changed.
LEMMA Changed ==
  ASSUME NEW T, NEW q \in Seq(T), NEW n \in DOMAIN q, NEW e \in T
  PROVE  /\ [q EXCEPT ![n] = e] \in Seq(T) /\ Len([q EXCEPT ![n] = e]) = Len(q)
         /\ DOMAIN [q EXCEPT ![n] = e] = DOMAIN q
         /\ [q EXCEPT ![n] = e][n] = e
         /\ \A i \in DOMAIN q : i # n => [q EXCEPT ![n] = e][i] = q[i]
<1> DEFINE r == [q EXCEPT ![n] = e]
<1>1. Len(q) \in Nat /\ DOMAIN q = 1..Len(q) /\ q \in [1..Len(q) -> T]
  OBVIOUS
<1>2. r \in [1..Len(q) -> T]
  BY <1>1
<1>3. \E k \in Nat : r \in [1..k -> T]
  BY <1>1, <1>2
<1>4. r \in Seq(T)
  BY ONLY <1>3, SeqDef
<1>5. DOMAIN r = DOMAIN q /\ r[n] = e /\ \A i \in DOMAIN q : i # n => r[i] = q[i]
  BY <1>1
<1> HIDE DEF r
<1>6. Len(r) \in Nat /\ DOMAIN r = 1..Len(r)
  BY <1>4
<1>7. Len(r) = Len(q)
  BY <1>1, <1>5, <1>6
<1>8. QED
  BY <1>4, <1>5, <1>7 DEF r
-----------------------------------------------------------------------------
(* Nodes and frames. *)

LEMMA FrameOf ==
  ASSUME TypeInv, NEW n \in Functions(body)
  PROVE  /\ Frame(n) \in Frames /\ Frame(n).name = n /\ Frame(n).group = GroupOf(body, n)
         /\ Frame(n).rest = CalleesOf(body, GroupOf(body, n)) \ GroupOf(body, n)
<1>1. GroupOf(body, n) \subseteq Functions(body)
  BY Groups DEF TypeInv
<1>2. CalleesOf(body, GroupOf(body, n)) \subseteq Functions(body)
  BY DEF CalleesOf
<1>3. QED
  BY <1>1, <1>2 DEF Frame, Frames

LEMMA TopFrame ==
  ASSUME TypeInv, StackOK, stack # <<>>
  PROVE  /\ Len(stack) \in Nat /\ Len(stack) >= 1 /\ Len(stack) \in DOMAIN stack
         /\ DOMAIN stack = 1..Len(stack)
         /\ Top = stack[Len(stack)] /\ Top \in Frames
         /\ Top.name \in Functions(body) /\ Top.group = GroupOf(body, Top.name)
         /\ Top.group \subseteq Functions(body) /\ Top.name \in Top.group
         /\ Top.group \cap emitted = {}
         /\ Top.rest \subseteq Functions(body)
<1>1. /\ Len(stack) \in Nat /\ Len(stack) >= 1 /\ Len(stack) \in DOMAIN stack
      /\ DOMAIN stack = 1..Len(stack) /\ stack[Len(stack)] \in Frames
  <2> HIDE DEF Frames
  <2>1. stack \in Seq(Frames)
    BY DEF TypeInv
  <2>2. QED
    BY <2>1
<1>2. Top = stack[Len(stack)] /\ Top \in Frames
  BY <1>1 DEF Top
<1>3. Top.name \in Functions(body) /\ Top.rest \subseteq Functions(body)
  BY <1>2 DEF Frames
<1>4. Top.group = GroupOf(body, Top.name) /\ Top.group \cap emitted = {}
  BY <1>1, <1>2 DEF StackOK
<1>5. QED
  BY <1>1, <1>2, <1>3, <1>4, Groups DEF TypeInv

\* Each pending function has its definition, and its group.
LEMMA Pending ==
  ASSUME TypeInv, StackOK, NEW i \in DOMAIN stack
  PROVE  /\ stack[i] \in Frames /\ stack[i].name \in Functions(body)
         /\ stack[i].group = GroupOf(body, stack[i].name)
         /\ i \in Nat /\ i >= 1 /\ i <= Len(stack) /\ DOMAIN stack = 1..Len(stack) /\ Len(stack) \in Nat
<1>1. /\ stack[i] \in Frames /\ i \in Nat /\ i >= 1 /\ i <= Len(stack)
      /\ DOMAIN stack = 1..Len(stack) /\ Len(stack) \in Nat
  <2> HIDE DEF Frames
  <2>1. stack \in Seq(Frames)
    BY DEF TypeInv
  <2>2. QED
    BY <2>1
<1>2. QED
  BY <1>1 DEF Frames, StackOK

\* Pending groups have nothing in common: the one below reaches the one above,
\* and is not reached from it.
LEMMA Apart ==
  ASSUME TypeInv, StackOK, NEW i \in DOMAIN stack, NEW j \in DOMAIN stack, i < j
  PROVE  stack[i].group \cap stack[j].group = {}
<1> DEFINE a == stack[i].name
           b == stack[j].name
<1>1. /\ a \in Functions(body) /\ b \in Functions(body) /\ body \in Programs
      /\ stack[i].group = GroupOf(body, a) /\ stack[j].group = GroupOf(body, b)
  BY Pending DEF TypeInv
<1>2. b \in Reach(body, a) /\ a \notin Reach(body, b)
  BY DEF StackOK
<1> HIDE DEF a, b
<1>3. ASSUME NEW m \in GroupOf(body, a), m \in GroupOf(body, b) PROVE FALSE
  <2>1. GroupOf(body, a) = GroupOf(body, b)
    BY <1>1, <1>3, Groups
  <2>2. a = b \/ a \in Reach(body, b)
    BY <1>1, <2>1, Groups
  <2>3. QED
    BY <1>2, <2>2
<1>4. QED
  BY <1>1, <1>3

\* The node that is sent consists of statements that are not out.
LEMMA NodeIsNew ==
  ASSUME IInv, pc = "send"
  PROVE  /\ Node \subseteq DOMAIN body /\ Node # {} /\ Node \cap Out = {}
         /\ stack = <<>> => Node = {pos} /\ pos \in DOMAIN body \ Defs(body)
         /\ stack # <<>> =>
              /\ Node \subseteq Defs(body) /\ Top.group \subseteq Functions(body)
              /\ \A k \in Defs(body) : k \in Node <=> body[k].name \in Top.group
<1>1. body \in Programs /\ Defs(body) \subseteq DOMAIN body
  BY Body DEF IInv, TypeInv
<1>2. CASE stack = <<>>
  <2>1. Node = {pos} /\ pos \in DOMAIN body \ Defs(body)
    BY <1>2 DEF Node, IInv, PlaceOK
  <2>2. pos \notin Out
    <3>1. ~(pos < pos)
      BY DEF IInv, TypeInv
    <3>2. QED
      BY <2>1, <3>1 DEF IInv, OutOK
  <2>3. QED
    BY <1>2, <2>1, <2>2
<1>3. CASE stack # <<>>
  <2>1. /\ Top.name \in Functions(body) /\ Top.name \in Top.group
        /\ Top.group \subseteq Functions(body) /\ Top.group \cap emitted = {}
    BY <1>3, TopFrame DEF IInv
  <2>2. Node = {k \in Defs(body) : body[k].name \in Top.group}
    BY <1>3 DEF Node
  <2>3. At(body, Top.name) \in Node
    BY <1>1, <2>1, <2>2, Definition
  <2>4. \A k \in Node : k \notin Out
    BY <2>1, <2>2 DEF IInv, OutOK
  <2>5. QED
    BY <1>1, <1>3, <2>1, <2>2, <2>3, <2>4
<1>4. QED
  BY <1>2, <1>3

LEMMA Pair ==
  ASSUME NEW x, NEW a, NEW b
  PROVE  /\ x = <<a, b>> => Len(x) = 2 /\ DOMAIN x = 1..2 /\ x[1] = a /\ x[2] = b
         /\ x = <<a>> => Len(x) = 1 /\ DOMAIN x = 1..1 /\ x[1] = a
OBVIOUS

LEMMA PassesAre ==
  /\ \/ Len(Passes) = 2 /\ DOMAIN Passes = 1..2 /\ Passes[1] = "" /\ Passes[2] = "rn"
     \/ Len(Passes) = 1 /\ DOMAIN Passes = 1..1 /\ Passes[1] = ""
  /\ \A k \in DOMAIN Passes : Passes[k] \in {"", "rn"}
  /\ Suffixes \subseteq {"", "rn"}
<1>1. \/ Len(Passes) = 2 /\ DOMAIN Passes = 1..2 /\ Passes[1] = "" /\ Passes[2] = "rn"
      \/ Len(Passes) = 1 /\ DOMAIN Passes = 1..1 /\ Passes[1] = ""
  <2> DEFINE empty == ""
             rn == "rn"
  <2>1. Passes = <<empty, rn>> \/ Passes = <<empty>>
    BY DEF Passes
  <2> HIDE DEF empty, rn
  <2>2. \/ Len(Passes) = 2 /\ DOMAIN Passes = 1..2 /\ Passes[1] = empty /\ Passes[2] = rn
        \/ Len(Passes) = 1 /\ DOMAIN Passes = 1..1 /\ Passes[1] = empty
    BY <2>1, Pair
  <2>3. QED
    BY <2>2 DEF empty, rn
<1>2. \A k \in 1..2 : k = 1 \/ k = 2
  OBVIOUS
<1>3. \A k \in 1..1 : k = 1
  OBVIOUS
<1>4. \A k \in DOMAIN Passes : Passes[k] \in {"", "rn"}
  BY <1>1, <1>2, <1>3
<1>5. Suffixes \subseteq {"", "rn"}
  BY <1>4 DEF Suffixes
<1>6. QED
  BY <1>1, <1>4, <1>5

\* The pass that follows those taken.
LEMMA PassNumber ==
  ASSUME NEW n \in Nat, n < Len(Passes)
  PROVE  n + 1 \in DOMAIN Passes /\ n + 1 <= Len(Passes)
<1>1. \/ Len(Passes) = 2 /\ DOMAIN Passes = 1..2
      \/ Len(Passes) = 1 /\ DOMAIN Passes = 1..1
  BY PassesAre
<1>2. QED
  BY <1>1

LEMMA PartsOfNode ==
  ASSUME IInv, pc = "send"
  PROVE  /\ \A s \in {"", "rn"} : Code(s) \in Parts /\ Code(s).node = Node
         /\ Placeholder \in Parts /\ Placeholder.node = Node
<1>1. /\ Node \subseteq DOMAIN body /\ Node \subseteq Nat
      /\ \A k \in DOMAIN body : body[k].name \in Nat /\ body[k].kind \in {"def", "class", "guard", "top"}
  BY NodeIsNew, Body DEF IInv, TypeInv
<1> DEFINE Declared == {"def", "class", "guard", "top", "unsup"} \X Nat \X {"", "rn"}
<1>2. ASSUME NEW s \in {"", "rn"} PROVE Code(s) \in Parts /\ Code(s).node = Node
  <2>1. \A k \in Node : <<body[k].kind, body[k].name, s>> \in Declared
    BY <1>1
  <2>2. {<<body[k].kind, body[k].name, s>> : k \in Node} \subseteq Declared
    BY <2>1
  <2> HIDE DEF Declared
  <2>3. QED
    BY <1>1, <2>2 DEF Code, Parts, Declared
<1>3. Placeholder \in Parts /\ Placeholder.node = Node
  <2> DEFINE i == IF stack = <<>> THEN pos ELSE At(body, Top.name)
  <2>1. i \in DOMAIN body
    <3>1. CASE stack = <<>>
      BY <3>1, NodeIsNew
    <3>2. CASE stack # <<>>
      BY <3>2, TopFrame, Definition, Body DEF IInv, TypeInv
    <3>3. QED
      BY <3>1, <3>2
  <2>2. Placeholder = [node |-> Node, placeholder |-> TRUE,
                       declares |-> IF body[i].kind \in {"guard", "top"}
                                    THEN {<<"unsup", unsup, s>> : s \in Suffixes}
                                    ELSE {<<body[i].kind, body[i].name, s>> : s \in Suffixes}]
    BY DEF Placeholder
  <2> HIDE DEF i
  <2>3. {<<"unsup", unsup, s>> : s \in Suffixes} \subseteq Declared
    <3>1. \A s \in Suffixes : <<"unsup", unsup, s>> \in Declared
      BY PassesAre DEF IInv, TypeInv
    <3> HIDE DEF Declared
    <3>2. QED
      BY <3>1
  <2>4. {<<body[i].kind, body[i].name, s>> : s \in Suffixes} \subseteq Declared
    <3>1. \A s \in Suffixes : <<body[i].kind, body[i].name, s>> \in Declared
      BY <1>1, <2>1, PassesAre
    <3> HIDE DEF Declared
    <3>2. QED
      BY <3>1
  <2> HIDE DEF Declared
  <2>5. QED
    BY <1>1, <2>2, <2>3, <2>4 DEF Parts, Declared
<1>4. QED
  BY <1>2, <1>3

\* What an emission appends: parts of the node, and at least one.
NewParts(new) ==
  /\ new \in Seq(Parts) /\ new # <<>> /\ \A k \in DOMAIN new : new[k].node = Node
  /\ Return(new)

LEMMA Emitting ==
  ASSUME IInv, Emit \/ Degrade
  PROVE  /\ pc = "send" /\ codes' = <<>> /\ unsup' \in {unsup, unsup + 1} /\ UNCHANGED input
         /\ Emit => NewParts(codes)
         /\ Degrade => NewParts(<<Placeholder>>)
         /\ \E new : NewParts(new)
<1>1. pc = "send" /\ codes' = <<>> /\ unsup' \in {unsup, unsup + 1} /\ UNCHANGED input
  BY DEF Emit, Degrade, Sending
<1>2. ASSUME Emit PROVE NewParts(codes)
  <2>1. codes \in Seq(Parts) /\ Len(codes) = Len(Passes) /\ Return(codes)
    BY <1>2 DEF Emit, IInv, TypeInv
  <2>2. codes # <<>> /\ DOMAIN codes = DOMAIN Passes
    <3> HIDE DEF Parts
    <3>1. DOMAIN codes = 1..Len(codes) /\ (codes = <<>> => Len(codes) = 0)
      BY <2>1
    <3>2. Len(Passes) # 0 /\ DOMAIN Passes = 1..Len(Passes)
      <4>1. \/ Len(Passes) = 2 /\ DOMAIN Passes = 1..2
            \/ Len(Passes) = 1 /\ DOMAIN Passes = 1..1
        BY PassesAre
      <4>2. QED
        BY <4>1
    <3>3. QED
      BY <2>1, <3>1, <3>2
  <2>3. \A k \in DOMAIN codes : codes[k].node = Node
    BY <1>1, <2>2, PassesAre, PartsOfNode DEF IInv, CodesOK
  <2>4. QED
    BY <2>1, <2>2, <2>3 DEF NewParts
<1>3. ASSUME Degrade PROVE NewParts(<<Placeholder>>)
  <2>1. Placeholder \in Parts /\ Placeholder.node = Node
    BY <1>1, PartsOfNode
  <2>2. QED
    BY <1>3, <2>1, Single DEF Degrade, NewParts
<1>4. QED
  BY <1>1, <1>2, <1>3

\* What an emission does.
LEMMA Returned ==
  ASSUME IInv, pc = "send", NEW new, NewParts(new)
  PROVE  /\ parts' = parts \o new /\ parts' \in Seq(Parts)
         /\ Out' = Out \cup Node
         /\ emitted' \subseteq Functions(body)
         /\ emitted' = IF stack = <<>> THEN emitted ELSE emitted \cup Top.group
         /\ Len(stack) \in Nat /\ stack' \in Seq(Frames)
         /\ \/ /\ Len(stack) > 1 /\ stack' = SubSeq(stack, 1, Len(stack) - 1) /\ stack' # <<>>
               /\ Len(stack') = Len(stack) - 1 /\ DOMAIN stack' = 1..(Len(stack) - 1)
               /\ \A i \in 1..(Len(stack) - 1) : stack'[i] = stack[i]
               /\ pc' = "visit" /\ pos' = pos
            \/ /\ Len(stack) <= 1 /\ stack' = <<>> /\ pc' = "loop" /\ pos' = pos + 1
<1>1. parts' = parts \o new /\ parts \in Seq(Parts) /\ new \in Seq(Parts) /\ new # <<>>
  BY DEF NewParts, Return, IInv, TypeInv
<1>2. parts' \in Seq(Parts)
  BY <1>1, Joined
<1>3. Out' = Out \cup Node
  <2>1. \A i \in DOMAIN parts : i \in DOMAIN parts' /\ parts'[i] = parts[i]
    BY <1>1, Joined
  <2>2. \A j \in DOMAIN new :
          Len(parts) + j \in DOMAIN parts' /\ parts'[Len(parts) + j] = new[j] /\ new[j].node = Node
    BY <1>1, Joined DEF NewParts
  <2>3. \A i \in DOMAIN parts' : i \in DOMAIN parts \/ \E j \in DOMAIN new : i = Len(parts) + j
    BY <1>1, Joined
  <2>4. \E j : j \in DOMAIN new
    <3> HIDE DEF Parts
    <3>1. DOMAIN new = 1..Len(new) /\ Len(new) \in Nat /\ Len(new) # 0
      BY <1>1
    <3>2. 1 \in DOMAIN new
      BY <3>1
    <3>3. QED
      BY <3>2
  <2>5. ASSUME NEW i \in DOMAIN parts' PROVE parts'[i].node \subseteq Out \cup Node
    BY <2>1, <2>2, <2>3 DEF Out
  <2>6. ASSUME NEW i \in DOMAIN parts PROVE parts[i].node \subseteq Out'
    BY <2>1 DEF Out
  <2>7. Node \subseteq Out'
    BY <2>2, <2>4 DEF Out
  <2>8. QED
    BY <2>5, <2>6, <2>7 DEF Out
<1>4. emitted' = IF stack = <<>> THEN emitted ELSE emitted \cup Top.group
  BY DEF NewParts, Return
<1>5. emitted' \subseteq Functions(body)
  BY <1>4, TopFrame DEF IInv, TypeInv
<1>6. stack \in Seq(Frames) /\ Len(stack) \in Nat
  <2> HIDE DEF Frames
  <2>1. stack \in Seq(Frames)
    BY DEF IInv, TypeInv
  <2>2. QED
    BY <2>1
<1>7. CASE Len(stack) > 1
  <2>1. stack' = SubSeq(stack, 1, Len(stack) - 1) /\ pc' = "visit" /\ pos' = pos
    BY <1>7 DEF NewParts, Return
  <2> HIDE DEF Frames
  <2>2. /\ stack' \in Seq(Frames) /\ stack' # <<>>
        /\ Len(stack') = Len(stack) - 1 /\ DOMAIN stack' = 1..(Len(stack) - 1)
        /\ \A i \in 1..(Len(stack) - 1) : stack'[i] = stack[i]
    BY <1>6, <1>7, <2>1, ButLast
  <2>3. QED
    BY <1>1, <1>2, <1>3, <1>4, <1>5, <1>6, <1>7, <2>1, <2>2
<1>8. CASE Len(stack) <= 1
  <2>1. stack' = <<>> /\ pc' = "loop" /\ pos' = pos + 1
    BY <1>6, <1>8 DEF NewParts, Return
  <2>2. stack' \in Seq(Frames)
    BY <2>1
  <2>3. QED
    BY <1>1, <1>2, <1>3, <1>4, <1>5, <1>6, <1>8, <2>1, <2>2
<1>9. QED
  BY <1>6, <1>7, <1>8
-----------------------------------------------------------------------------
(* Types. *)

\* What a pull leaves of the frame it pulls for.
LEMMA Pulled ==
  ASSUME IInv, Pull
  PROVE  \E c \in Top.rest, resumed \in Seq(Frames) :
           /\ Len(resumed) = Len(stack) /\ DOMAIN resumed = DOMAIN stack
           /\ \A i \in DOMAIN stack :
                /\ resumed[i].name = stack[i].name /\ resumed[i].group = stack[i].group
                /\ resumed[i].rest = IF i = Len(stack) THEN Top.rest \ {c} ELSE stack[i].rest
           /\ stack' = IF c \in emitted THEN resumed ELSE Append(resumed, Frame(c))
<1> DEFINE n == Len(stack)
           c == Least(Top.rest)
           e == [Top EXCEPT !.rest = @ \ {c}]
           resumed == [stack EXCEPT ![n] = e]
<1>1. stack # <<>> /\ Top.rest # {}
  BY DEF Pull, IInv, PlaceOK
<1>2. n \in DOMAIN stack /\ Top = stack[n] /\ Top \in Frames /\ Top.rest \subseteq Functions(body)
  BY <1>1, TopFrame DEF IInv
<1>3. c \in Top.rest
  <2>1. Top.rest \subseteq Nat
    BY <1>2, Body, ConstantsAssumption DEF IInv, TypeInv
  <2>2. QED
    BY <1>1, <2>1, LeastIsOne
<1> HIDE DEF c
<1>4. e \in Frames /\ e.name = Top.name /\ e.group = Top.group /\ e.rest = Top.rest \ {c}
  BY <1>2 DEF Frames
<1>5. stack' = IF c \in emitted THEN resumed ELSE Append(resumed, Frame(c))
  <2>1. resumed = [stack EXCEPT ![n].rest = @ \ {c}]
    BY <1>2
  <2>2. QED
    BY <2>1 DEF Pull, c
<1> HIDE DEF e, n
<1>6. stack \in Seq(Frames)
  BY DEF IInv, TypeInv
<1>7. /\ resumed \in Seq(Frames) /\ Len(resumed) = Len(stack) /\ DOMAIN resumed = DOMAIN stack
      /\ resumed[n] = e /\ \A i \in DOMAIN stack : i # n => resumed[i] = stack[i]
  BY <1>2, <1>4, <1>6, Changed
<1> HIDE DEF resumed
<1>8. ASSUME NEW i \in DOMAIN stack
      PROVE  /\ resumed[i].name = stack[i].name /\ resumed[i].group = stack[i].group
             /\ resumed[i].rest = IF i = Len(stack) THEN Top.rest \ {c} ELSE stack[i].rest
  BY <1>2, <1>4, <1>7 DEF n
<1>9. QED
  BY <1>3, <1>5, <1>7, <1>8

LEMMA NextType ==
  ASSUME IInv, [Next]_vars
  PROVE  TypeInv'
<1>1. /\ body \in Programs /\ DOMAIN body = 1..Len(body) /\ Len(body) \in Nat
      /\ pos \in 1..(Len(body) + 1)
  BY Body DEF IInv, TypeInv
<1>2. CASE SkipDef
  <2>1. pos' \in 1..(Len(body) + 1)
    BY <1>1, <1>2 DEF SkipDef
  <2>2. QED
    BY <1>2, <2>1 DEF SkipDef, IInv, TypeInv, input, Frames
<1>3. CASE EnterDef
  <2>1. body[pos].name \in Functions(body)
    BY <1>1, <1>3 DEF EnterDef, Functions, Defs
  <2>2. Frame(body[pos].name) \in Frames
    BY <2>1, FrameOf DEF IInv
  <2>3. stack' \in Seq(Frames)
    BY <1>3, <2>2, Single DEF EnterDef
  <2>4. QED
    BY <1>3, <2>3 DEF EnterDef, IInv, TypeInv, input, Frames
<1>4. CASE EnterOther \/ Ready
  <2>1. codes' = <<>>
    BY <1>4 DEF EnterOther, Ready
  <2>2. codes' \in Seq(Parts)
    BY <2>1
  <2>3. QED
    BY <1>4, <2>2 DEF EnterOther, Ready, IInv, TypeInv, input, Frames
<1>5. CASE Pull
  <2>1. PICK c \in Top.rest, resumed \in Seq(Frames) :
               stack' = IF c \in emitted THEN resumed ELSE Append(resumed, Frame(c))
    BY <1>5, Pulled
  <2>2. Frame(c) \in Frames
    <3>1. stack # <<>>
      BY <1>5 DEF Pull, IInv, PlaceOK
    <3>2. c \in Functions(body)
      BY <3>1, TopFrame DEF IInv
    <3>3. QED
      BY <3>2, FrameOf DEF IInv
  <2>3. stack' \in Seq(Frames)
    <3> HIDE DEF Frames
    <3>1. Append(resumed, Frame(c)) \in Seq(Frames)
      BY <2>2, Push
    <3>2. QED
      BY <2>1, <3>1
  <2>4. QED
    BY <1>5, <2>3 DEF Pull, IInv, TypeInv, input, Frames
<1>6. CASE PassSucceeds
  <2>1. pc = "send" /\ codes' = Append(codes, Code(Passes[Len(codes) + 1])) /\ Len(codes) < Len(Passes)
    BY <1>6 DEF PassSucceeds, Sending
  <2>2. codes \in Seq(Parts) /\ Len(codes) \in Nat
    BY DEF IInv, TypeInv
  <2>3. Code(Passes[Len(codes) + 1]) \in Parts
    <3>1. Len(codes) + 1 \in DOMAIN Passes
      BY <2>1, <2>2, PassNumber
    <3>2. QED
      BY <2>1, <3>1, PassesAre, PartsOfNode
  <2>4. codes' \in Seq(Parts)
    BY <2>1, <2>2, <2>3, Push
  <2>5. QED
    BY <1>6, <2>4 DEF PassSucceeds, IInv, TypeInv, input, Frames
<1>7. CASE Emit \/ Degrade
  <2>1. pc = "send" /\ codes' = <<>> /\ unsup' \in {unsup, unsup + 1} /\ UNCHANGED input
    BY <1>7, Emitting
  <2>2. PICK new : NewParts(new)
    BY <1>7, Emitting
  <2>3. /\ parts' \in Seq(Parts) /\ emitted' \subseteq Functions(body) /\ stack' \in Seq(Frames)
        /\ pc' \in {"visit", "loop"} /\ pos' \in {pos, pos + 1}
        /\ pos' = pos + 1 => pos \in DOMAIN body
    <3>1. pos \in DOMAIN body
      BY <2>1, Body DEF IInv, TypeInv, PlaceOK
    <3>2. QED
      BY <2>1, <2>2, <3>1, Returned
  <2>4. pos' \in 1..(Len(body) + 1) /\ unsup' \in Nat /\ codes' \in Seq(Parts)
    BY <1>1, <2>1, <2>3 DEF IInv, TypeInv
  <2>5. QED
    BY <2>1, <2>3, <2>4 DEF IInv, TypeInv, input, Frames
<1>8. CASE Refuse
  <2>1. stack' \in Seq(Frames) /\ codes' \in Seq(Parts)
    BY <1>8 DEF Refuse
  <2>2. QED
    BY <1>8, <2>1 DEF Refuse, IInv, TypeInv, input, Frames
<1>9. CASE Done
  BY <1>9 DEF Done, IInv, TypeInv, input, Frames
<1>10. CASE UNCHANGED vars
  BY <1>10 DEF vars, IInv, TypeInv, input, Frames
<1>11. QED
  BY <1>2, <1>3, <1>4, <1>5, <1>6, <1>7, <1>8, <1>9, <1>10 DEF Next
-----------------------------------------------------------------------------
(* The stack. *)

LEMMA NextStack ==
  ASSUME IInv, [Next]_vars
  PROVE  StackOK'
<1>1. ASSUME UNCHANGED <<body, stack, emitted>> PROVE StackOK'
  BY <1>1 DEF IInv, StackOK
<1>2. CASE EnterDef
  <2> DEFINE n == body[pos].name
  <2>1. body' = body /\ emitted' = emitted /\ stack' = <<Frame(n)>> /\ n \notin emitted
    BY <1>2 DEF EnterDef, input
  <2>2. n \in Functions(body) /\ body \in Programs
    BY <1>2, Body DEF EnterDef, Functions, Defs, IInv, TypeInv
  <2> HIDE DEF n
  <2>3. GroupOf(body, n) \cap emitted = {}
    <3>1. ASSUME NEW m \in GroupOf(body, n), m \in emitted PROVE FALSE
      <4>1. n \in GroupOf(body, m)
        BY <2>2, Groups
      <4>2. QED
        BY <2>1, <3>1, <4>1 DEF IInv, OutOK
    <3>2. QED
      BY <3>1
  <2>4. DOMAIN stack' = {1} /\ stack'[1] = Frame(n)
    BY <2>1, Single
  <2>5. /\ stack'[1].name = n /\ stack'[1].group = GroupOf(body, n)
        /\ stack'[1].rest = CalleesOf(body, GroupOf(body, n)) \ GroupOf(body, n)
    BY <2>2, <2>4, FrameOf DEF IInv
  <2>6. \A i, j \in DOMAIN stack' : ~(i < j)
    BY <2>4
  <2>7. QED
    BY <2>1, <2>3, <2>4, <2>5, <2>6 DEF StackOK
<1>3. CASE Pull
  <2> DEFINE n == Len(stack)
  <2>1. PICK c \in Top.rest, resumed \in Seq(Frames) :
               /\ Len(resumed) = n /\ DOMAIN resumed = DOMAIN stack
               /\ \A i \in DOMAIN stack :
                    /\ resumed[i].name = stack[i].name /\ resumed[i].group = stack[i].group
                    /\ resumed[i].rest = IF i = n THEN Top.rest \ {c} ELSE stack[i].rest
               /\ stack' = IF c \in emitted THEN resumed ELSE Append(resumed, Frame(c))
    BY <1>3, Pulled
  <2>2. body' = body /\ emitted' = emitted /\ body \in Programs /\ stack # <<>>
    BY <1>3 DEF Pull, input, IInv, TypeInv, PlaceOK
  <2>3. /\ n \in DOMAIN stack /\ n \in Nat /\ DOMAIN stack = 1..n /\ Top = stack[n]
        /\ Top.name \in Functions(body) /\ Top.group = GroupOf(body, Top.name)
        /\ Top.rest \subseteq CalleesOf(body, Top.group) \ Top.group
    BY <2>2, TopFrame DEF IInv, StackOK
  <2>4. c \in Functions(body) /\ c \in Reach(body, Top.name) /\ Top.name \notin Reach(body, c)
    BY <2>2, <2>3, CalleesBelow
  <2>5. CASE c \in emitted
    <3>1. stack' = resumed
      BY <2>1, <2>5
    <3>2. ASSUME NEW i \in DOMAIN stack
          PROVE  /\ stack'[i].group = GroupOf(body, stack'[i].name)
                 /\ stack'[i].group \cap emitted = {}
                 /\ stack'[i].rest \subseteq CalleesOf(body, stack'[i].group) \ stack'[i].group
                 /\ CalleesOf(body, stack'[i].group) \subseteq
                      stack'[i].group \cup stack'[i].rest \cup emitted
                        \cup {stack'[j].name : j \in {i + 1} \cap DOMAIN stack}
      BY <2>1, <2>3, <2>5, <3>1 DEF IInv, StackOK
    <3>3. \A i, j \in DOMAIN stack : i < j =>
            stack'[j].name \in Reach(body, stack'[i].name) /\ stack'[i].name \notin Reach(body, stack'[j].name)
      <4>1. \A i \in DOMAIN stack : stack'[i].name = stack[i].name
        BY <2>1, <3>1
      <4>2. QED
        BY <4>1 DEF IInv, StackOK
    <3>4. QED
      BY <2>1, <2>2, <3>1, <3>2, <3>3 DEF StackOK
  <2>6. CASE c \notin emitted
    <3>1. /\ stack' = Append(resumed, Frame(c)) /\ Frame(c) \in Frames
          /\ Frame(c).name = c /\ Frame(c).group = GroupOf(body, c)
          /\ Frame(c).rest = CalleesOf(body, GroupOf(body, c)) \ GroupOf(body, c)
      BY <2>1, <2>4, <2>6, FrameOf DEF IInv
    <3>2. /\ DOMAIN stack' = 1..(n + 1) /\ stack'[n + 1] = Frame(c)
          /\ \A i \in 1..n : stack'[i] = resumed[i]
      BY <2>1, <3>1, Push
    <3>3. GroupOf(body, c) \cap emitted = {}
      <4>1. ASSUME NEW m \in GroupOf(body, c), m \in emitted PROVE FALSE
        <5>1. c \in GroupOf(body, m)
          BY <2>2, <2>4, Groups
        <5>2. QED
          BY <2>6, <4>1, <5>1 DEF IInv, OutOK
      <4>2. QED
        BY <4>1
    <3>4. \A i \in 1..(n + 1) : i = n + 1 \/ i \in 1..n
      BY <2>3
    <3>5. ASSUME NEW i \in 1..n
          PROVE  /\ stack'[i].group = GroupOf(body, stack'[i].name)
                 /\ stack'[i].group \cap emitted = {}
                 /\ stack'[i].rest \subseteq CalleesOf(body, stack'[i].group) \ stack'[i].group
                 /\ CalleesOf(body, stack'[i].group) \subseteq
                      stack'[i].group \cup stack'[i].rest \cup emitted
                        \cup {stack'[j].name : j \in {i + 1} \cap DOMAIN stack'}
      <4>1. /\ stack'[i].name = stack[i].name /\ stack'[i].group = stack[i].group
            /\ stack'[i].rest = IF i = n THEN Top.rest \ {c} ELSE stack[i].rest
        BY <2>1, <2>3, <3>2
      <4>2. /\ stack[i].group = GroupOf(body, stack[i].name)
            /\ stack[i].group \cap emitted = {}
            /\ stack[i].rest \subseteq CalleesOf(body, stack[i].group) \ stack[i].group
            /\ CalleesOf(body, stack[i].group) \subseteq
                 stack[i].group \cup stack[i].rest \cup emitted
                   \cup {stack[j].name : j \in {i + 1} \cap DOMAIN stack}
        BY <2>3 DEF IInv, StackOK
      <4>3. CASE i = n
        <5>1. n + 1 \in DOMAIN stack' /\ stack'[n + 1].name = c /\ n + 1 \notin DOMAIN stack
          BY <2>3, <3>1, <3>2
        <5>2. CalleesOf(body, stack[i].group) \subseteq stack[i].group \cup stack[i].rest \cup emitted
          BY <4>2, <4>3, <5>1
        <5>3. c \in {stack'[j].name : j \in {i + 1} \cap DOMAIN stack'}
          BY <4>3, <5>1
        <5>4. QED
          BY <2>3, <4>1, <4>2, <4>3, <5>2, <5>3
      <4>4. CASE i # n
        <5>1. i + 1 \in DOMAIN stack /\ i + 1 \in DOMAIN stack' /\ i + 1 \in 1..n
          BY <2>3, <3>2, <4>4
        <5>2. stack'[i + 1].name = stack[i + 1].name
          BY <2>1, <3>2, <5>1
        <5>3. {stack'[j].name : j \in {i + 1} \cap DOMAIN stack'} = {stack[j].name : j \in {i + 1} \cap DOMAIN stack}
          BY <5>1, <5>2
        <5>4. QED
          BY <4>1, <4>2, <4>4, <5>3
      <4>5. QED
        BY <4>3, <4>4
    <3>6. ASSUME NEW i \in 1..(n + 1), NEW j \in 1..(n + 1), i < j
          PROVE  /\ stack'[j].name \in Reach(body, stack'[i].name)
                 /\ stack'[i].name \notin Reach(body, stack'[j].name)
      <4>1. i \in 1..n /\ stack'[i].name = stack[i].name
        BY <2>1, <2>3, <3>2, <3>6
      <4>2. CASE j = n + 1
        <5>1. stack'[j].name = c
          BY <3>1, <3>2, <4>2
        <5>2. CASE i = n
          BY <2>3, <2>4, <4>1, <5>1, <5>2
        <5>3. CASE i # n
          <6>1. i < n /\ i \in DOMAIN stack
            <7> HIDE DEF n
            <7>1. n \in Nat /\ i \in 1..n /\ i # n /\ DOMAIN stack = 1..n
              BY <2>3, <4>1, <5>3
            <7>2. QED
              BY <7>1
          <6>2. Top.name \in Reach(body, stack[i].name) /\ stack[i].name \notin Reach(body, Top.name)
            BY <2>3, <6>1 DEF IInv, StackOK
          <6>3. c \in Reach(body, stack[i].name)
            BY <2>2, <2>4, <6>2, ReachFollows
          <6>4. stack[i].name \notin Reach(body, c)
            BY <2>2, <2>4, <6>2, ReachFollows
          <6>5. QED
            BY <4>1, <5>1, <6>3, <6>4
        <5>4. QED
          BY <5>2, <5>3
      <4>3. CASE j # n + 1
        <5>1. j \in 1..n /\ stack'[j].name = stack[j].name
          BY <2>1, <2>3, <3>2, <4>3
        <5>2. QED
          BY <2>3, <3>6, <4>1, <5>1 DEF IInv, StackOK
      <4>4. QED
        BY <4>2, <4>3
    <3>7. ASSUME NEW i \in DOMAIN stack'
          PROVE  /\ stack'[i].group = GroupOf(body, stack'[i].name)
                 /\ stack'[i].group \cap emitted = {}
                 /\ stack'[i].rest \subseteq CalleesOf(body, stack'[i].group) \ stack'[i].group
                 /\ CalleesOf(body, stack'[i].group) \subseteq
                      stack'[i].group \cup stack'[i].rest \cup emitted
                        \cup {stack'[j].name : j \in {i + 1} \cap DOMAIN stack'}
      <4>1. CASE i = n + 1
        BY <3>1, <3>2, <3>3, <4>1
      <4>2. CASE i \in 1..n
        BY <3>5, <4>2
      <4>3. QED
        BY <3>2, <3>4, <4>1, <4>2
    <3>8. QED
      BY <2>2, <3>2, <3>6, <3>7 DEF StackOK
  <2>7. QED
    BY <2>5, <2>6
<1>4. CASE Emit \/ Degrade
  <2>1. pc = "send" /\ body' = body
    BY <1>4, Emitting DEF input
  <2>2. PICK new : NewParts(new)
    BY <1>4, Emitting
  <2>3. CASE stack' = <<>>
    <3>1. DOMAIN stack' = {}
      BY <2>3
    <3>2. QED
      BY <3>1 DEF StackOK
  <2>4. CASE stack' # <<>>
    <3> DEFINE n == Len(stack)
    <3>1. /\ n \in Nat /\ n > 1 /\ DOMAIN stack' = 1..(n - 1)
          /\ \A i \in 1..(n - 1) : stack'[i] = stack[i]
          /\ emitted' = IF stack = <<>> THEN emitted ELSE emitted \cup Top.group
      BY <2>1, <2>2, <2>4, Returned
    <3>2. stack # <<>>
      BY <3>1
    <3>3. emitted' = emitted \cup Top.group /\ DOMAIN stack = 1..n /\ Top = stack[n] /\ Top.name \in Top.group
      BY <3>1, <3>2, TopFrame DEF IInv
    <3> HIDE DEF n
    <3>4. ASSUME NEW i \in 1..(n - 1)
          PROVE  /\ stack[i].group = GroupOf(body, stack[i].name)
                 /\ stack[i].group \cap emitted' = {}
                 /\ stack[i].rest \subseteq CalleesOf(body, stack[i].group) \ stack[i].group
                 /\ CalleesOf(body, stack[i].group) \subseteq
                      stack[i].group \cup stack[i].rest \cup emitted'
                        \cup {stack'[j].name : j \in {i + 1} \cap DOMAIN stack'}
      <4>1. i \in DOMAIN stack /\ n \in DOMAIN stack /\ i < n /\ i + 1 \in DOMAIN stack
        BY <3>1, <3>3
      <4>2. stack[i].group \cap Top.group = {}
        BY <3>3, <4>1, Apart DEF IInv
      <4>3. /\ stack[i].group = GroupOf(body, stack[i].name)
            /\ stack[i].group \cap emitted = {}
            /\ stack[i].rest \subseteq CalleesOf(body, stack[i].group) \ stack[i].group
            /\ CalleesOf(body, stack[i].group) \subseteq
                 stack[i].group \cup stack[i].rest \cup emitted
                   \cup {stack[j].name : j \in {i + 1} \cap DOMAIN stack}
        BY <4>1 DEF IInv, StackOK
      <4>4. stack[i + 1].name \in emitted' \cup {stack'[j].name : j \in {i + 1} \cap DOMAIN stack'}
        <5>1. CASE i + 1 = n
          BY <3>3, <5>1
        <5>2. CASE i + 1 # n
          <6>1. i + 1 \in 1..(n - 1)
            BY <3>1, <5>2
          <6>2. QED
            BY <3>1, <6>1
        <5>3. QED
          BY <5>1, <5>2
      <4>5. QED
        BY <3>3, <4>1, <4>2, <4>3, <4>4
    <3>5. \A i, j \in 1..(n - 1) : i < j =>
            stack[j].name \in Reach(body, stack[i].name) /\ stack[i].name \notin Reach(body, stack[j].name)
      <4>1. \A i \in 1..(n - 1) : i \in DOMAIN stack
        BY <3>1, <3>3
      <4>2. QED
        BY <4>1 DEF IInv, StackOK
    <3>6. QED
      BY <2>1, <3>1, <3>4, <3>5 DEF StackOK
  <2>5. QED
    BY <2>3, <2>4
<1>5. CASE Refuse
  <2>1. DOMAIN stack' = {}
    BY <1>5 DEF Refuse
  <2>2. QED
    BY <2>1 DEF StackOK
<1>6. CASE SkipDef \/ EnterOther \/ Ready \/ PassSucceeds \/ Done \/ UNCHANGED vars
  BY <1>1, <1>6 DEF SkipDef, EnterOther, Ready, PassSucceeds, Done, vars, input
<1>7. QED
  BY <1>2, <1>3, <1>4, <1>5, <1>6 DEF Next
-----------------------------------------------------------------------------
(* The loop and the passes. *)

LEMMA NextPlace ==
  ASSUME IInv, [Next]_vars
  PROVE  PlaceOK'
<1>1. CASE SkipDef
  BY <1>1 DEF SkipDef, input, IInv, PlaceOK
<1>2. CASE EnterDef
  <2> DEFINE f == Frame(body[pos].name)
  <2>1. pos \in Defs(body) /\ body[pos].name \in Functions(body)
    BY <1>2, Body DEF EnterDef, Functions, Defs, IInv, TypeInv
  <2>2. f \in Frames /\ f.name = body[pos].name
    BY <2>1, FrameOf DEF IInv
  <2>3. stack' = <<f>> /\ pc' = "visit" /\ pos' = pos /\ body' = body
    BY <1>2 DEF EnterDef, input
  <2> HIDE DEF f
  <2>4. stack' # <<>> /\ stack'[1] = f
    BY <2>2, <2>3, Single
  <2>5. QED
    BY <2>1, <2>2, <2>3, <2>4 DEF PlaceOK
<1>3. CASE EnterOther
  <2>1. stack = <<>> /\ pos \in DOMAIN body \ Defs(body)
    BY <1>3, Body DEF EnterOther, Defs, IInv, TypeInv, PlaceOK
  <2>2. QED
    BY <1>3, <2>1 DEF EnterOther, input, PlaceOK
<1>4. CASE Pull
  <2>1. pc = "visit" /\ stack # <<>> /\ UNCHANGED <<body, pc, pos>>
    BY <1>4 DEF Pull, input, IInv, PlaceOK
  <2>2. PICK c \in Top.rest, resumed \in Seq(Frames) :
               /\ Len(resumed) = Len(stack) /\ DOMAIN resumed = DOMAIN stack
               /\ \A i \in DOMAIN stack : resumed[i].name = stack[i].name
               /\ stack' = IF c \in emitted THEN resumed ELSE Append(resumed, Frame(c))
    BY <1>4, Pulled
  <2>3. 1 \in DOMAIN stack /\ DOMAIN resumed = 1..Len(resumed) /\ Len(resumed) >= 1 /\ Len(resumed) \in Nat
    BY <2>1, <2>2, TopFrame DEF IInv
  <2>4. stack' # <<>> /\ stack'[1] = resumed[1]
    <3>1. CASE c \in emitted
      <4> HIDE DEF Frames
      <4>1. stack' = resumed
        BY <2>2, <3>1
      <4>2. resumed # <<>>
        BY <2>3
      <4>3. QED
        BY <4>1, <4>2
    <3>2. CASE c \notin emitted
      <4>1. c \in Functions(body)
        BY <2>1, TopFrame DEF IInv
      <4>2. Frame(c) \in Frames /\ stack' = Append(resumed, Frame(c))
        BY <2>2, <3>2, <4>1, FrameOf DEF IInv
      <4>3. 1 \in 1..Len(resumed)
        BY <2>3
      <4>4. QED
        BY <4>2, <4>3, Push
    <3>3. QED
      BY <3>1, <3>2
  <2>5. stack'[1].name = stack[1].name
    BY <2>2, <2>3, <2>4
  <2>6. QED
    BY <2>1, <2>4, <2>5 DEF IInv, PlaceOK
<1>5. CASE Ready
  BY <1>5 DEF Ready, Top, input, IInv, PlaceOK
<1>6. CASE PassSucceeds
  BY <1>6 DEF PassSucceeds, Sending, Top, input, IInv, PlaceOK
<1>7. CASE Emit \/ Degrade
  <2>1. pc = "send" /\ body' = body
    BY <1>7, Emitting DEF input
  <2>2. PICK new : NewParts(new)
    BY <1>7, Emitting
  <2>3. CASE stack' = <<>>
    <3>1. pc' = "loop"
      BY <2>1, <2>2, <2>3, Returned
    <3>2. QED
      BY <2>3, <3>1 DEF PlaceOK
  <2>4. CASE stack' # <<>>
    <3>1. /\ pc' = "visit" /\ pos' = pos /\ Len(stack) \in Nat /\ Len(stack) > 1
          /\ \A i \in 1..(Len(stack) - 1) : stack'[i] = stack[i]
      BY <2>1, <2>2, <2>4, Returned
    <3>2. stack # <<>> /\ 1 \in 1..(Len(stack) - 1)
      BY <3>1
    <3>3. QED
      BY <2>1, <2>4, <3>1, <3>2 DEF IInv, PlaceOK
  <2>5. QED
    BY <2>3, <2>4
<1>8. CASE Refuse
  BY <1>8 DEF Refuse, IInv, PlaceOK
<1>9. CASE Done
  <2>1. pos = Len(body) + 1
    BY <1>9, Body DEF Done, IInv, TypeInv
  <2>2. QED
    BY <1>9, <2>1 DEF Done, input, IInv, PlaceOK
<1>10. CASE UNCHANGED vars
  BY <1>10 DEF vars, input, Top, IInv, PlaceOK
<1>11. QED
  BY <1>1, <1>2, <1>3, <1>4, <1>5, <1>6, <1>7, <1>8, <1>9, <1>10 DEF Next

\* What a node becomes depends on the file, the mode and the place only.
LEMMA SameNode ==
  ASSUME UNCHANGED <<body, mode, pos, stack>>
  PROVE  Node' = Node /\ Passes' = Passes /\ \A k : Code(Passes[k])' = Code(Passes[k])
<1>1. Node' = Node
  BY DEF Node, Top
<1>2. Passes' = Passes
  BY <1>1 DEF Passes
<1>3. ASSUME NEW k PROVE Code(Passes[k])' = Code(Passes[k])
  BY <1>1, <1>2 DEF Code
<1>4. QED
  BY <1>1, <1>2, <1>3

LEMMA NextCodes ==
  ASSUME IInv, [Next]_vars
  PROVE  CodesOK'
<1>1. CASE codes' = <<>>
  <2>1. Len(codes') = 0 /\ DOMAIN codes' = {}
    BY <1>1
  <2>2. Len(Passes') >= 0
    <3> DEFINE empty == ""
               rn == "rn"
    <3>1. Passes' = <<empty, rn>> \/ Passes' = <<empty>>
      BY DEF Passes
    <3> HIDE DEF empty, rn
    <3>2. Len(Passes') = 2 \/ Len(Passes') = 1
      BY <3>1, Pair
    <3>3. QED
      BY <3>2
  <2>3. QED
    BY <1>1, <2>1, <2>2 DEF CodesOK
<1>2. CASE PassSucceeds
  <2> DEFINE n == Len(codes)
             e == Code(Passes[n + 1])
  <2>1. /\ pc = "send" /\ pc' = "send" /\ n < Len(Passes) /\ codes' = Append(codes, e)
        /\ UNCHANGED <<body, mode, pos, stack>>
    BY <1>2 DEF PassSucceeds, Sending, input
  <2>2. codes \in Seq(Parts) /\ n \in Nat /\ \A k \in DOMAIN codes : codes[k] = Code(Passes[k])
    BY <2>1 DEF IInv, TypeInv, CodesOK
  <2>3. n + 1 \in DOMAIN Passes /\ n + 1 <= Len(Passes)
    BY <2>1, <2>2, PassNumber
  <2>4. e \in Parts
    BY <2>1, <2>3, PassesAre, PartsOfNode
  <2>5. /\ Len(codes') = n + 1 /\ DOMAIN codes' = 1..(n + 1) /\ DOMAIN codes = 1..n /\ codes'[n + 1] = e
        /\ \A k \in 1..n : codes'[k] = codes[k]
    <3> HIDE DEF e
    <3>1. QED
      BY <2>1, <2>2, <2>4, Push
  <2> HIDE DEF n
  <2>6. \A k \in 1..(n + 1) : k = n + 1 \/ k \in 1..n
    BY <2>2
  <2>7. \A k \in 1..(n + 1) : codes'[k] = Code(Passes[k])
    BY <2>2, <2>5, <2>6
  <2>8. Passes' = Passes /\ \A k : Code(Passes[k])' = Code(Passes[k])
    BY <2>1, SameNode
  <2>9. QED
    BY <2>1, <2>3, <2>5, <2>7, <2>8 DEF CodesOK
<1>3. CASE UNCHANGED <<body, mode, pos, stack, pc, codes>>
  <2>1. Passes' = Passes /\ \A k : Code(Passes[k])' = Code(Passes[k])
    BY <1>3, SameNode
  <2>2. QED
    BY <1>3, <2>1 DEF IInv, CodesOK
<1>4. CASE SkipDef \/ EnterDef \/ Pull \/ Done
  <2>1. codes = <<>> /\ codes' = codes
    BY <1>4 DEF SkipDef, EnterDef, Pull, Done, IInv, CodesOK
  <2>2. QED
    BY <1>1, <2>1
<1>5. CASE EnterOther \/ Ready \/ Refuse
  BY <1>1, <1>5 DEF EnterOther, Ready, Refuse
<1>6. CASE Emit \/ Degrade
  BY <1>1, <1>6, Emitting
<1>7. CASE UNCHANGED vars
  BY <1>3, <1>7 DEF vars, input
<1>8. QED
  BY <1>2, <1>4, <1>5, <1>6, <1>7 DEF Next
-----------------------------------------------------------------------------
(* What is out. *)

LEMMA NextOut ==
  ASSUME IInv, [Next]_vars
  PROVE  OutOK'
<1>1. ASSUME UNCHANGED <<body, pos, emitted, parts, unsup>> PROVE OutOK'
  BY <1>1 DEF IInv, OutOK, Out
<1>2. CASE SkipDef
  <2>1. pos \in Defs(body) /\ pos \in Out
    BY <1>2, Body DEF SkipDef, Defs, IInv, TypeInv, OutOK
  <2>2. \A k \in DOMAIN body : k \in Nat /\ (k < pos + 1 <=> k < pos \/ k = pos)
    BY Body DEF IInv, TypeInv
  <2>3. UNCHANGED <<body, emitted, parts, unsup>> /\ pos' = pos + 1 /\ Out' = Out
    BY <1>2 DEF SkipDef, input, Out
  <2>4. Defs(body) \subseteq DOMAIN body
    BY DEF Defs
  <2>5. QED
    BY <2>1, <2>2, <2>3, <2>4 DEF IInv, OutOK
<1>3. CASE Emit \/ Degrade
  <2>1. pc = "send" /\ body' = body /\ unsup' \in {unsup, unsup + 1}
    BY <1>3, Emitting DEF input
  <2>2. PICK new : NewParts(new)
    BY <1>3, Emitting
  <2>3. Out' = Out \cup Node /\ emitted' = IF stack = <<>> THEN emitted ELSE emitted \cup Top.group
    BY <2>1, <2>2, Returned
  <2>4. Node \subseteq DOMAIN body /\ Node # {} /\ Node \cap Out = {}
    BY <2>1, NodeIsNew
  <2>5. body \in Programs /\ Defs(body) \subseteq DOMAIN body /\ DOMAIN body = 1..Len(body) /\ Len(body) \in Nat
    BY Body DEF IInv, TypeInv
  <2>6. \A n \in emitted' : GroupOf(body, n) \subseteq emitted'
    <3>1. CASE stack = <<>>
      BY <2>3, <3>1 DEF IInv, OutOK
    <3>2. CASE stack # <<>>
      <4>1. Top.name \in Functions(body) /\ Top.group = GroupOf(body, Top.name)
        BY <3>2, TopFrame DEF IInv
      <4>2. \A n \in Top.group : GroupOf(body, n) = Top.group
        BY <2>5, <4>1, Groups
      <4>3. QED
        BY <2>3, <3>2, <4>2 DEF IInv, OutOK
    <3>3. QED
      BY <3>1, <3>2
  <2>7. \A k \in Defs(body) : (k \in Out') <=> (body[k].name \in emitted')
    <3>1. CASE stack = <<>>
      <4>1. Node \cap Defs(body) = {}
        BY <2>1, <3>1, NodeIsNew
      <4>2. QED
        BY <2>3, <3>1, <4>1 DEF IInv, OutOK
    <3>2. CASE stack # <<>>
      <4>1. \A k \in Defs(body) : (k \in Node) <=> (body[k].name \in Top.group)
        BY <2>1, <3>2, NodeIsNew
      <4>2. QED
        BY <2>3, <3>2, <4>1 DEF IInv, OutOK
    <3>3. QED
      BY <3>1, <3>2
  <2>8. /\ \A k \in DOMAIN body \ Defs(body) : (k \in Out') <=> (k < pos')
        /\ \A k \in Defs(body) : k < pos' => k \in Out'
    <3>1. pos \in Nat /\ pos \in DOMAIN body
      BY <2>1, <2>5 DEF IInv, TypeInv, PlaceOK
    <3>2. \A k \in DOMAIN body : k \in Nat /\ ((k < pos + 1) <=> (k < pos \/ k = pos))
      BY <2>5, <3>1
    <3>3. CASE stack = <<>>
      <4>1. Node = {pos} /\ pos \notin Defs(body)
        BY <2>1, <3>3, NodeIsNew
      <4>2. pos' = pos + 1
        BY <2>1, <2>2, <3>3, Returned
      <4>3. QED
        BY <2>3, <2>5, <3>2, <4>1, <4>2 DEF IInv, OutOK
    <3>4. CASE stack # <<>>
      <4>1. Node \subseteq Defs(body) /\ pos \in Defs(body)
        BY <2>1, <3>4, NodeIsNew DEF IInv, PlaceOK
      <4>2. CASE pos' = pos
        BY <2>3, <4>1, <4>2 DEF IInv, OutOK
      <4>3. CASE pos' # pos
        <5>1. Len(stack) <= 1 /\ pos' = pos + 1
          BY <2>1, <2>2, <4>3, Returned
        <5>2. Len(stack) = 1 /\ Top = stack[1]
          BY <3>4, <5>1, TopFrame DEF IInv
        <5>3. body[pos].name \in Top.group
          BY <3>4, <5>2, TopFrame DEF IInv, PlaceOK
        <5>4. pos \in Node
          BY <2>1, <3>4, <4>1, <5>3, NodeIsNew
        <5>5. QED
          BY <2>3, <2>5, <3>2, <4>1, <5>1, <5>4 DEF IInv, OutOK
      <4>4. QED
        BY <4>2, <4>3
    <3>5. QED
      BY <3>3, <3>4
  <2>9. unsup' <= Cardinality(Out')
    <3>1. PICK k : k \in Node
      BY <2>4
    <3>2. IsFiniteSet(Out) /\ IsFiniteSet(Out')
      <4>1. IsFiniteSet(1..Len(body))
        BY <2>5, FS_Interval
      <4>2. Out \subseteq 1..Len(body) /\ Out' \subseteq 1..Len(body)
        BY <2>3, <2>4, <2>5 DEF IInv, OutOK
      <4>3. QED
        BY <4>1, <4>2, FS_Subset
    <3>3. IsFiniteSet(Out \cup {k}) /\ Cardinality(Out \cup {k}) = Cardinality(Out) + 1
      BY <2>4, <3>1, <3>2, FS_AddElement
    <3>4. Cardinality(Out \cup {k}) <= Cardinality(Out')
      BY <2>3, <3>1, <3>2, <3>3, FS_Subset
    <3>5. Cardinality(Out) \in Nat /\ Cardinality(Out') \in Nat
      BY <3>2, FS_CardinalityType
    <3>6. unsup \in Nat /\ unsup <= Cardinality(Out)
      BY DEF IInv, TypeInv, OutOK
    <3>7. QED
      BY <2>1, <3>3, <3>4, <3>5, <3>6
  <2>10. Out' \subseteq DOMAIN body
    BY <2>3, <2>4 DEF IInv, OutOK
  <2>11. QED
    BY <2>1, <2>6, <2>7, <2>8, <2>9, <2>10 DEF OutOK
<1>4. CASE EnterDef \/ EnterOther \/ Pull \/ Ready \/ PassSucceeds \/ Refuse \/ Done \/ UNCHANGED vars
  BY <1>1, <1>4 DEF EnterDef, EnterOther, Pull, Ready, PassSucceeds, Refuse, Done, vars, input
<1>5. QED
  BY <1>2, <1>3, <1>4 DEF Next

LEMMA InitInv ==
  ASSUME Init
  PROVE  IInv
<1>1. parts = <<>> /\ DOMAIN parts = {} /\ Out = {}
  BY DEF Init, Out
<1>2. TypeInv
  <2>1. Len(body) \in Nat
    BY Body DEF Init
  <2>2. QED
    BY <2>1 DEF Init, TypeInv
<1>3. StackOK
  BY DEF Init, StackOK
<1>4. OutOK
  <2>1. Cardinality(Out) = 0
    BY <1>1, FS_EmptySet
  <2>2. DOMAIN body = 1..Len(body) /\ Defs(body) \subseteq DOMAIN body
    BY Body DEF Init
  <2>3. \A k \in DOMAIN body : ~(k < 1)
    BY <2>2
  <2>4. QED
    BY <1>1, <2>1, <2>2, <2>3 DEF Init, OutOK
<1>5. QED
  BY <1>2, <1>3, <1>4 DEF Init, IInv, PlaceOK, CodesOK

\* In every state of every translation: the pending functions form a path down
\* the graph of the groups, what is out are whole groups, and the loop has passed
\* only what is out (emit_function_group, translate_to_lean).
THEOREM EmissionInvariant == Spec => []IInv
<1>1. ASSUME IInv, [Next]_vars PROVE IInv'
  BY <1>1, NextType, NextPlace, NextCodes, NextStack, NextOut DEF IInv
<1>2. QED
  BY InitInv, <1>1, PTL DEF Spec

\* Every variable keeps its range; the placeholders are at most as many as the
\* statements that are out.
THEOREM TypeCorrect == Spec => []TypeOK
<1>1. ASSUME IInv PROVE TypeOK
  <2>1. /\ body \in Programs /\ DOMAIN body = 1..Len(body) /\ Len(body) \in Nat
        /\ Functions(body) \subseteq Names
    BY <1>1, Body DEF IInv, TypeInv
  <2> DEFINE S == [name : Names, group : SUBSET Names, rest : SUBSET Names]
  <2>2. stack \in Seq(S)
    <3>1. Frames \subseteq S
      BY <2>1 DEF Frames
    <3>2. stack \in Seq(Frames)
      BY <1>1 DEF IInv, TypeInv
    <3> HIDE DEF S
    <3>3. QED
      <4> HIDE DEF Frames
      <4>1. QED
        BY <3>1, <3>2
  <2>3. unsup \in 0..Len(body)
    <3>1. Out \subseteq 1..Len(body) /\ unsup <= Cardinality(Out) /\ unsup \in Nat
      BY <1>1, <2>1 DEF IInv, OutOK, TypeInv
    <3>2. IsFiniteSet(1..Len(body)) /\ Cardinality(1..Len(body)) = Len(body)
      <4>1. 1 \in Int /\ Len(body) \in Int
        BY <2>1
      <4>2. /\ IsFiniteSet(1..Len(body))
            /\ Cardinality(1..Len(body)) = IF 1 > Len(body) THEN 0 ELSE Len(body) - 1 + 1
        BY <4>1, FS_Interval
      <4>3. (IF 1 > Len(body) THEN 0 ELSE Len(body) - 1 + 1) = Len(body)
        BY <2>1
      <4>4. QED
        BY <4>2, <4>3
    <3>3. Cardinality(Out) \in Nat /\ Cardinality(Out) <= Len(body)
      BY <3>1, <3>2, FS_Subset, FS_CardinalityType
    <3>4. QED
      BY <2>1, <3>1, <3>3
  <2>4. emitted \subseteq Names
    BY <1>1, <2>1 DEF IInv, TypeInv
  <2>5. QED
    BY <1>1, <2>2, <2>3, <2>4 DEF IInv, TypeInv, TypeOK
<1>2. QED
  BY <1>1, EmissionInvariant, PTL

\* emit_function_group never re-enters a group whose emission is pending, however
\* the functions of the file call each other.
THEOREM NeverReentered == Spec => []NoReentry
<1>1. ASSUME IInv PROVE NoReentry
  <2>1. ASSUME NEW i \in DOMAIN stack, NEW j \in DOMAIN stack, i # j
        PROVE  stack[i].group \cap stack[j].group = {}
    <3>1. i < j \/ j < i
      BY <1>1, <2>1, Pending DEF IInv
    <3>2. CASE i < j
      BY <1>1, <3>2, Apart DEF IInv
    <3>3. CASE j < i
      BY <1>1, <3>3, Apart DEF IInv
    <3>4. QED
      BY <3>1, <3>2, <3>3
  <2>2. QED
    BY <2>1 DEF NoReentry
<1>2. QED
  BY <1>1, EmissionInvariant, PTL
-----------------------------------------------------------------------------
(* Emissions. *)

\* What a function on top of the stack calls is out, or in its group, when the
\* group is sent.
LEMMA CalleesOut ==
  ASSUME IInv, pc = "send", NEW k \in Node \cap Defs(body), NEW c \in body[k].calls \cap Functions(body)
  PROVE  At(body, c) \in Node \cup Out
<1>1. body \in Programs /\ stack # <<>>
  BY NodeIsNew DEF IInv, TypeInv
<1>2. At(body, c) \in Defs(body) /\ body[At(body, c)].name = c /\ At(body, body[k].name) = k
  BY <1>1, Definition
<1>3. body[k].name \in Top.group /\ \A i \in Defs(body) : i \in Node <=> body[i].name \in Top.group
  BY <1>1, NodeIsNew
<1>4. c \in CalleesOf(body, Top.group)
  BY <1>2, <1>3 DEF CalleesOf
<1>5. /\ Len(stack) \in DOMAIN stack /\ Top = stack[Len(stack)] /\ Top.rest = {}
      /\ Len(stack) + 1 \notin DOMAIN stack
  <2>1. Len(stack) \in Nat /\ DOMAIN stack = 1..Len(stack) /\ Len(stack) \in DOMAIN stack
    BY <1>1, TopFrame DEF IInv
  <2>2. Len(stack) + 1 \notin 1..Len(stack)
    BY <2>1
  <2>3. QED
    BY <1>1, <2>1, <2>2 DEF Top, IInv, PlaceOK
<1>6. c \in Top.group \/ c \in emitted
  BY <1>4, <1>5 DEF IInv, StackOK
<1>7. QED
  BY <1>2, <1>3, <1>6 DEF IInv, OutOK

\* An emission appends its parts to those there are.
LEMMA Appends ==
  ASSUME IInv, Emit \/ Degrade
  PROVE  \E new \in Seq(Parts), n \in Nat :
           /\ (Emit /\ new = codes) \/ (Degrade /\ new = <<Placeholder>>)
           /\ DOMAIN parts = 1..n
           /\ \A i \in DOMAIN parts : i \in DOMAIN parts' /\ parts'[i] = parts[i]
           /\ \A m \in DOMAIN new : n + m \in DOMAIN parts' /\ parts'[n + m] = new[m]
           /\ \A m \in DOMAIN new : new[m].node = Node /\ m \in Nat /\ m >= 1
           /\ \A i \in DOMAIN parts' : i \in DOMAIN parts \/ \E m \in DOMAIN new : i = n + m
           /\ UNCHANGED <<body, mode, best>> /\ unsup' \in {unsup, unsup + 1}
<1>1. PICK new : NewParts(new) /\ ((Emit /\ new = codes) \/ (Degrade /\ new = <<Placeholder>>))
  BY Emitting
<1>2. pc = "send" /\ UNCHANGED <<body, mode, best>> /\ unsup' \in {unsup, unsup + 1}
  BY Emitting DEF input
<1>3. parts \in Seq(Parts) /\ new \in Seq(Parts) /\ parts' = parts \o new /\ \A m \in DOMAIN new : new[m].node = Node
  BY <1>1, <1>2, Returned DEF NewParts, IInv, TypeInv
<1> DEFINE n == Len(parts)
<1>4. /\ n \in Nat /\ DOMAIN parts = 1..n
      /\ \A i \in DOMAIN parts : i \in DOMAIN parts' /\ parts'[i] = parts[i]
      /\ \A m \in DOMAIN new : n + m \in DOMAIN parts' /\ parts'[n + m] = new[m] /\ m \in Nat /\ m >= 1
      /\ \A i \in DOMAIN parts' : i \in DOMAIN parts \/ \E m \in DOMAIN new : i = n + m
  BY <1>3, Joined
<1> HIDE DEF n
<1>5. /\ \A m \in DOMAIN new : n + m \in DOMAIN parts' /\ parts'[n + m] = new[m]
      /\ \A m \in DOMAIN new : new[m].node = Node /\ m \in Nat /\ m >= 1
  BY <1>3, <1>4
<1>6. QED
  BY <1>1, <1>2, <1>3, <1>4, <1>5, Zenon
-----------------------------------------------------------------------------
(* What the parts declare. *)

\* The parts of one emission declare the statements of its node, once each and
\* with their twins, or one numbered placeholder.
LEMMA NewDeclares ==
  ASSUME IInv, NEW new, (Emit /\ new = codes) \/ (Degrade /\ new = <<Placeholder>>)
  PROVE  /\ \A m \in DOMAIN new : \A d \in new[m].declares :
              \/ \E k \in Node : d[1] = body[k].kind /\ d[2] = body[k].name
              \/ d[1] = "unsup" /\ d[2] = unsup /\ unsup' = unsup + 1
         /\ \A m, l \in DOMAIN new : m # l => new[m].declares \cap new[l].declares = {}
         /\ mode = "both" =>
              \A m \in DOMAIN new : \A d \in new[m].declares : d[1] \in {"def", "class", "guard"} =>
                \A s \in {"", "rn"} : \E l \in DOMAIN new : <<d[1], d[2], s>> \in new[l].declares
<1>1. pc = "send"
  BY Emitting
<1>2. /\ body \in Programs /\ Node \subseteq DOMAIN body
      /\ \A k \in DOMAIN body : body[k].kind \in {"def", "class", "guard", "top"}
  BY <1>1, NodeIsNew, Body DEF IInv, TypeInv
<1>3. 1 \in 1..2 /\ 2 \in 1..2
  OBVIOUS
<1>4. ASSUME mode = "both", NEW k \in Node, body[k].kind # "top"
      PROVE  /\ DOMAIN Passes = 1..2 /\ Passes[1] = "" /\ Passes[2] = "rn"
             /\ Suffixes = {"", "rn"}
  <2>1. \A i \in Node : body[i].kind # "top"
    <3>1. CASE stack = <<>>
      BY <1>1, <1>4, <3>1, NodeIsNew
    <3>2. CASE stack # <<>>
      BY <1>1, <3>2, NodeIsNew DEF Defs
    <3>3. QED
      BY <3>1, <3>2
  <2> DEFINE empty == ""
             rn == "rn"
  <2>2. Passes = <<empty, rn>>
    BY <1>4, <2>1 DEF Passes
  <2> HIDE DEF empty, rn
  <2>3. DOMAIN Passes = 1..2 /\ Passes[1] = empty /\ Passes[2] = rn
    BY <2>2, Pair
  <2>4. Passes[1] = "" /\ Passes[2] = "rn"
    BY <2>3 DEF empty, rn
  <2>5. "" \in Suffixes /\ "rn" \in Suffixes
    BY <1>3, <2>3, <2>4 DEF Suffixes
  <2>6. QED
    BY <2>3, <2>4, <2>5, PassesAre
<1>5. CASE Emit /\ new = codes
  <2>1. DOMAIN new = DOMAIN Passes /\ \A m \in DOMAIN new : new[m] = Code(Passes[m])
    <3>1. codes \in Seq(Parts) /\ Len(codes) = Len(Passes) /\ DOMAIN codes = 1..Len(codes)
      BY <1>5 DEF Emit, IInv, TypeInv
    <3>2. DOMAIN Passes = 1..Len(Passes)
      <4>1. \/ Len(Passes) = 2 /\ DOMAIN Passes = 1..2
            \/ Len(Passes) = 1 /\ DOMAIN Passes = 1..1
        BY PassesAre
      <4>2. QED
        BY <4>1
    <3>3. QED
      BY <1>1, <1>5, <3>1, <3>2 DEF IInv, CodesOK
  <2>2. ASSUME NEW m \in DOMAIN new
        PROVE  new[m].declares = {<<body[k].kind, body[k].name, Passes[m]>> : k \in Node}
    BY <2>1 DEF Code
  <2>3. ASSUME NEW m \in DOMAIN new, NEW d \in new[m].declares
        PROVE  \E k \in Node : d = <<body[k].kind, body[k].name, Passes[m]>>
    BY <2>2
  <2>4. ASSUME NEW m \in DOMAIN new, NEW d \in new[m].declares
        PROVE  \E k \in Node : d[1] = body[k].kind /\ d[2] = body[k].name /\ d[3] = Passes[m]
    BY <2>3
  <2>5. ASSUME NEW m \in DOMAIN new, NEW l \in DOMAIN new, m # l
        PROVE  new[m].declares \cap new[l].declares = {}
    <3>1. Passes[m] # Passes[l]
      <4>1. \/ DOMAIN Passes = 1..2 /\ Passes[1] = "" /\ Passes[2] = "rn"
            \/ DOMAIN Passes = 1..1
        BY PassesAre
      <4>2. \A x \in 1..2 : x = 1 \/ x = 2
        OBVIOUS
      <4>3. \A x \in 1..1 : x = 1
        OBVIOUS
      <4>4. QED
        BY <2>1, <2>5, <4>1, <4>2, <4>3
    <3>2. QED
      BY <2>4, <3>1
  <2>6. ASSUME mode = "both", NEW m \in DOMAIN new, NEW d \in new[m].declares, d[1] \in {"def", "class", "guard"},
               NEW s \in {"", "rn"}
        PROVE  \E l \in DOMAIN new : <<d[1], d[2], s>> \in new[l].declares
    <3>1. PICK k \in Node : d[1] = body[k].kind /\ d[2] = body[k].name
      BY <2>4
    <3>2. DOMAIN Passes = 1..2 /\ Passes[1] = "" /\ Passes[2] = "rn"
      BY <1>4, <2>6, <3>1
    <3>3. PICK l \in DOMAIN new : Passes[l] = s
      <4>1. DOMAIN new = 1..2
        BY <2>1, <3>2
      <4>2. QED
        BY <1>3, <2>6, <3>2, <4>1
    <3>4. <<body[k].kind, body[k].name, s>> \in new[l].declares
      BY <2>2, <3>3
    <3>5. QED
      BY <3>1, <3>4
  <2>7. \A m \in DOMAIN new : \A d \in new[m].declares :
          \E k \in Node : d[1] = body[k].kind /\ d[2] = body[k].name
    BY <2>4
  <2>8. mode = "both" =>
          \A m \in DOMAIN new : \A d \in new[m].declares : d[1] \in {"def", "class", "guard"} =>
            \A s \in {"", "rn"} : \E l \in DOMAIN new : <<d[1], d[2], s>> \in new[l].declares
    BY <2>6
  <2>9. QED
    BY <2>5, <2>7, <2>8
<1>6. CASE Degrade /\ new = <<Placeholder>>
  <2> DEFINE i == IF stack = <<>> THEN pos ELSE At(body, Top.name)
  <2>1. DOMAIN new = {1} /\ new[1] = Placeholder /\ unsup' = unsup + 1
    BY <1>6 DEF Degrade
  <2>2. new[1].declares = IF body[i].kind \in {"guard", "top"}
                          THEN {<<"unsup", unsup, s>> : s \in Suffixes}
                          ELSE {<<body[i].kind, body[i].name, s>> : s \in Suffixes}
    <3> DEFINE declared == IF body[i].kind \in {"guard", "top"}
                           THEN {<<"unsup", unsup, s>> : s \in Suffixes}
                           ELSE {<<body[i].kind, body[i].name, s>> : s \in Suffixes}
    <3>1. Placeholder = [node |-> Node, placeholder |-> TRUE, declares |-> declared]
      BY DEF Placeholder
    <3> HIDE DEF declared
    <3>2. Placeholder.declares = declared
      BY <3>1
    <3>3. QED
      BY <2>1, <3>2 DEF declared
  <2>3. i \in Node
    <3>1. CASE stack = <<>>
      BY <1>1, <3>1, NodeIsNew
    <3>2. CASE stack # <<>>
      <4>1. Top.name \in Functions(body) /\ Top.name \in Top.group
        BY <3>2, TopFrame DEF IInv
      <4>2. At(body, Top.name) \in Defs(body) /\ body[At(body, Top.name)].name = Top.name
        BY <1>2, <4>1, Definition
      <4>3. QED
        BY <1>1, <3>2, <4>1, <4>2, NodeIsNew
    <3>3. QED
      BY <3>1, <3>2
  <2> HIDE DEF i
  <2>4. CASE body[i].kind \in {"guard", "top"}
    <3> DEFINE kind == "unsup"
    <3>1. \A d \in new[1].declares : \E s \in Suffixes : d = <<kind, unsup, s>>
      BY <2>2, <2>4
    <3> HIDE DEF kind
    <3>2. \A d \in new[1].declares : d[1] = kind /\ d[2] = unsup
      BY <3>1
    <3> USE DEF kind
    <3>3. kind \notin {"def", "class", "guard"}
      OBVIOUS
    <3>4. QED
      BY <2>1, <3>2, <3>3
  <2>5. CASE body[i].kind \notin {"guard", "top"}
    <3>1. \A d \in new[1].declares : \E s \in Suffixes : d = <<body[i].kind, body[i].name, s>>
      BY <2>2, <2>5
    <3>2. \A d \in new[1].declares : d[1] = body[i].kind /\ d[2] = body[i].name
      BY <3>1
    <3>3. ASSUME mode = "both", NEW d \in new[1].declares, NEW s \in {"", "rn"}
          PROVE  <<d[1], d[2], s>> \in new[1].declares
      <4>1. s \in Suffixes
        BY <1>4, <2>3, <2>5, <3>3
      <4>2. <<body[i].kind, body[i].name, s>> \in new[1].declares
        BY <2>2, <2>5, <4>1
      <4>3. QED
        BY <3>2, <4>2
    <3>4. QED
      BY <2>1, <2>3, <3>2, <3>3
  <2>6. QED
    BY <2>4, <2>5
<1>7. QED
  BY <1>5, <1>6

LEMMA NextDeclares ==
  ASSUME IInv, DeclaresOK, [Next]_vars
  PROVE  DeclaresOK'
<1>1. CASE UNCHANGED <<body, parts, unsup>>
  BY <1>1 DEF DeclaresOK
<1>2. CASE Emit \/ Degrade
  <2>1. PICK new \in Seq(Parts), n \in Nat :
           /\ (Emit /\ new = codes) \/ (Degrade /\ new = <<Placeholder>>)
           /\ \A i \in DOMAIN parts : parts'[i] = parts[i]
           /\ \A m \in DOMAIN new : parts'[n + m] = new[m] /\ new[m].node = Node
           /\ \A i \in DOMAIN parts' : i \in DOMAIN parts \/ \E m \in DOMAIN new : i = n + m
           /\ body' = body /\ unsup' \in {unsup, unsup + 1}
    BY <1>2, Appends
  <2>2. unsup \in Nat /\ unsup < unsup + 1 /\ \A x \in Nat : x < unsup => x < unsup + 1
    BY DEF IInv, TypeInv
  <2>3. ASSUME NEW i \in DOMAIN parts, NEW d \in parts[i].declares
        PROVE  \/ \E k \in parts[i].node : d[1] = body[k].kind /\ d[2] = body[k].name
               \/ d[1] = "unsup" /\ d[2] \in Nat /\ d[2] < unsup'
    BY <2>1, <2>2 DEF DeclaresOK
  <2>4. \A m \in DOMAIN new : \A d \in new[m].declares :
          \/ \E k \in Node : d[1] = body[k].kind /\ d[2] = body[k].name
          \/ d[1] = "unsup" /\ d[2] = unsup /\ unsup' = unsup + 1
    BY <2>1, NewDeclares
  <2>5. ASSUME NEW m \in DOMAIN new, NEW d \in new[m].declares
        PROVE  \/ \E k \in Node : d[1] = body[k].kind /\ d[2] = body[k].name
               \/ d[1] = "unsup" /\ d[2] \in Nat /\ d[2] < unsup'
    BY <2>2, <2>4
  <2>6. QED
    BY <2>1, <2>3, <2>5 DEF DeclaresOK
<1>3. CASE SkipDef \/ EnterDef \/ EnterOther \/ Pull \/ Ready \/ PassSucceeds \/ Refuse \/ Done \/ UNCHANGED vars
  BY <1>1, <1>3 DEF SkipDef, EnterDef, EnterOther, Pull, Ready, PassSucceeds, Refuse, Done, vars, input
<1>4. QED
  BY <1>2, <1>3 DEF Next

LEMMA NextTwins ==
  ASSUME IInv, TwinsOK, [Next]_vars
  PROVE  TwinsOK'
<1>1. CASE UNCHANGED <<mode, parts>>
  BY <1>1 DEF TwinsOK
<1>2. CASE Emit \/ Degrade
  <2>1. PICK new \in Seq(Parts), n \in Nat :
           /\ (Emit /\ new = codes) \/ (Degrade /\ new = <<Placeholder>>)
           /\ \A i \in DOMAIN parts : i \in DOMAIN parts' /\ parts'[i] = parts[i]
           /\ \A m \in DOMAIN new : n + m \in DOMAIN parts' /\ parts'[n + m] = new[m]
           /\ \A i \in DOMAIN parts' : i \in DOMAIN parts \/ \E m \in DOMAIN new : i = n + m
           /\ mode' = mode
    BY <1>2, Appends
  <2>2. SUFFICES ASSUME mode = "both", NEW i \in DOMAIN parts', NEW d \in parts'[i].declares,
                        d[1] \in {"def", "class", "guard"}, NEW s \in {"", "rn"}
                 PROVE  \E j \in DOMAIN parts' : <<d[1], d[2], s>> \in parts'[j].declares
    BY <2>1 DEF TwinsOK
  <2>3. CASE i \in DOMAIN parts
    BY <2>1, <2>2, <2>3 DEF TwinsOK
  <2>4. CASE i \notin DOMAIN parts
    <3>1. PICK m \in DOMAIN new : i = n + m
      BY <2>1, <2>4
    <3>2. d \in new[m].declares
      BY <2>1, <3>1
    <3>3. \A k \in DOMAIN new : \A e \in new[k].declares : e[1] \in {"def", "class", "guard"} =>
            \A x \in {"", "rn"} : \E l \in DOMAIN new : <<e[1], e[2], x>> \in new[l].declares
      BY <2>1, <2>2, NewDeclares
    <3>4. PICK l \in DOMAIN new : <<d[1], d[2], s>> \in new[l].declares
      BY <2>2, <3>2, <3>3
    <3>5. QED
      BY <2>1, <3>4
  <2>5. QED
    BY <2>3, <2>4
<1>3. CASE SkipDef \/ EnterDef \/ EnterOther \/ Pull \/ Ready \/ PassSucceeds \/ Refuse \/ Done \/ UNCHANGED vars
  BY <1>1, <1>3 DEF SkipDef, EnterDef, EnterOther, Pull, Ready, PassSucceeds, Refuse, Done, vars, input
<1>4. QED
  BY <1>2, <1>3 DEF Next

\* A translation in both modes declares a name with its twin or not at all,
\* whichever pass of whichever node the backend refuses (node_passes,
\* backend_placeholders).
THEOREM TwinsTogetherAlways == Spec => []TwinsTogether
<1>1. Init => TwinsOK
  <2>1. Init => DOMAIN parts = {}
    BY DEF Init
  <2>2. QED
    BY <2>1 DEF TwinsOK
<1>2. TwinsOK => TwinsTogether
  BY DEF TwinsOK, TwinsTogether
<1>3. QED
  BY <1>1, <1>2, EmissionInvariant, NextTwins, PTL DEF Spec

LEMMA NextDeclaredOnce ==
  ASSUME EachNameOnce, IInv, DeclaresOK, DeclaredOnce, [Next]_vars
  PROVE  DeclaredOnce'
<1>1. CASE parts' = parts
  BY <1>1 DEF DeclaredOnce
<1>2. CASE Emit \/ Degrade
  <2>1. PICK new \in Seq(Parts), n \in Nat :
           /\ (Emit /\ new = codes) \/ (Degrade /\ new = <<Placeholder>>)
           /\ DOMAIN parts = 1..n
           /\ \A i \in DOMAIN parts : parts'[i] = parts[i]
           /\ \A m \in DOMAIN new : parts'[n + m] = new[m] /\ m \in Nat
           /\ \A i \in DOMAIN parts' : i \in DOMAIN parts \/ \E m \in DOMAIN new : i = n + m
    BY <1>2, Appends
  <2>2. \A m \in DOMAIN new : \A d \in new[m].declares :
          \/ \E k \in Node : d[1] = body[k].kind /\ d[2] = body[k].name
          \/ d[1] = "unsup" /\ d[2] = unsup /\ unsup' = unsup + 1
    BY <2>1, NewDeclares
  <2>3. ASSUME NEW i \in DOMAIN parts, NEW m \in DOMAIN new
        PROVE  parts[i].declares \cap new[m].declares = {}
    <3>1. SUFFICES ASSUME NEW d \in parts[i].declares, d \in new[m].declares PROVE FALSE
      OBVIOUS
    <3>2. /\ body \in Programs /\ Node \subseteq DOMAIN body /\ Node \cap Out = {} /\ Out \subseteq DOMAIN body
          /\ \A k \in DOMAIN body : body[k].kind # "unsup"
      BY <1>2, Emitting, NodeIsNew, Body DEF IInv, TypeInv, OutOK
    <3>3. \/ \E k \in Out : d[1] = body[k].kind /\ d[2] = body[k].name
          \/ d[1] = "unsup" /\ d[2] \in Nat /\ d[2] < unsup
      BY <3>1 DEF DeclaresOK, Out
    <3>4. \/ \E k \in Node : d[1] = body[k].kind /\ d[2] = body[k].name
          \/ d[1] = "unsup" /\ d[2] = unsup
      BY <2>2, <3>1
    <3>5. ~(unsup < unsup)
      BY DEF IInv, TypeInv
    <3>6. CASE d[1] = "unsup"
      BY <3>2, <3>3, <3>4, <3>5, <3>6
    <3>7. CASE d[1] # "unsup"
      <4>1. PICK k \in Out : d[1] = body[k].kind /\ d[2] = body[k].name
        BY <3>3, <3>7
      <4>2. PICK l \in Node : d[1] = body[l].kind /\ d[2] = body[l].name
        BY <3>4, <3>7
      <4>3. k = l
        BY <3>2, <4>1, <4>2 DEF EachNameOnce
      <4>4. QED
        BY <3>2, <4>1, <4>2, <4>3
    <3>8. QED
      BY <3>6, <3>7
  <2>4. \A m, l \in DOMAIN new : m # l => new[m].declares \cap new[l].declares = {}
    BY <2>1, NewDeclares
  <2>5. SUFFICES ASSUME NEW i \in DOMAIN parts', NEW j \in DOMAIN parts', i # j
                 PROVE  parts'[i].declares \cap parts'[j].declares = {}
    BY DEF DeclaredOnce
  <2>6. CASE i \in DOMAIN parts /\ j \in DOMAIN parts
    BY <2>1, <2>5, <2>6 DEF DeclaredOnce
  <2>7. CASE i \in DOMAIN parts /\ j \notin DOMAIN parts
    <3>1. PICK m \in DOMAIN new : j = n + m
      BY <2>1, <2>7
    <3>2. parts'[i] = parts[i] /\ parts'[j] = new[m]
      BY <2>1, <2>7, <3>1
    <3>3. QED
      BY <2>3, <2>7, <3>2
  <2>8. CASE i \notin DOMAIN parts /\ j \in DOMAIN parts
    <3>1. PICK m \in DOMAIN new : i = n + m
      BY <2>1, <2>8
    <3>2. parts'[j] = parts[j] /\ parts'[i] = new[m]
      BY <2>1, <2>8, <3>1
    <3>3. QED
      BY <2>3, <2>8, <3>2
  <2>9. CASE i \notin DOMAIN parts /\ j \notin DOMAIN parts
    <3>1. PICK m \in DOMAIN new : i = n + m
      BY <2>1, <2>9
    <3>2. PICK l \in DOMAIN new : j = n + l
      BY <2>1, <2>9
    <3>3. m # l /\ parts'[i] = new[m] /\ parts'[j] = new[l]
      BY <2>1, <2>5, <3>1, <3>2
    <3>4. QED
      BY <2>4, <3>3
  <2>10. QED
    BY <2>6, <2>7, <2>8, <2>9
<1>3. CASE SkipDef \/ EnterDef \/ EnterOther \/ Pull \/ Ready \/ PassSucceeds \/ Refuse \/ Done \/ UNCHANGED vars
  BY <1>1, <1>3 DEF SkipDef, EnterDef, EnterOther, Pull, Ready, PassSucceeds, Refuse, Done, vars
<1>4. QED
  BY <1>2, <1>3 DEF Next

\* No declaration is emitted twice, by whichever way a function is reached and
\* whatever is refused, from a file that declares each name once.
THEOREM DeclaredOnceAlways ==
  ASSUME EachNameOnce
  PROVE  Spec => []DeclaredOnce
<1>1. Init => DeclaresOK /\ DeclaredOnce
  BY DEF Init, DeclaresOK, DeclaredOnce
<1>2. ASSUME IInv, DeclaresOK /\ DeclaredOnce, [Next]_vars PROVE (DeclaresOK /\ DeclaredOnce)'
  BY <1>2, NextDeclares, NextDeclaredOnce
<1>3. QED
  BY <1>1, <1>2, EmissionInvariant, PTL DEF Spec
-----------------------------------------------------------------------------
(* Callees first, and nothing lost. *)

\* The passes of a definition are those of its twins.
LEMMA PassesOfTwins ==
  ASSUME IInv, pc = "send", NEW k \in Node, body[k].kind # "top"
  PROVE  Suffixes = Halves
<1>1. \A i \in Node : body[i].kind # "top"
  <2>1. CASE stack = <<>>
    BY <2>1, NodeIsNew
  <2>2. CASE stack # <<>>
    BY <2>2, NodeIsNew DEF Defs
  <2>3. QED
    BY <2>1, <2>2
<1> DEFINE empty == ""
           rn == "rn"
<1>2. Passes = IF mode = "both" THEN <<empty, rn>> ELSE <<empty>>
  BY <1>1 DEF Passes
<1> HIDE DEF empty, rn
<1>3. \A x \in 1..2 : x = 1 \/ x = 2
  OBVIOUS
<1>4. CASE mode = "both"
  <2>1. DOMAIN Passes = 1..2 /\ Passes[1] = empty /\ Passes[2] = rn
    BY <1>2, <1>4, Pair
  <2>2. 1 \in 1..2 /\ 2 \in 1..2
    OBVIOUS
  <2>3. Suffixes = {empty, rn}
    BY <1>3, <2>1, <2>2 DEF Suffixes
  <2>4. QED
    BY <1>4, <2>3 DEF Halves, empty, rn
<1>5. CASE mode # "both"
  <2>1. DOMAIN Passes = 1..1 /\ Passes[1] = empty
    BY <1>2, <1>5, Pair
  <2>2. 1 \in 1..1 /\ \A x \in 1..1 : x = 1
    OBVIOUS
  <2>3. Suffixes = {empty}
    BY <2>1, <2>2 DEF Suffixes
  <2>4. QED
    BY <1>5, <2>3 DEF Halves, empty
<1>6. QED
  BY <1>4, <1>5

\* The statement whose name a placeholder declares.
Asked == IF stack = <<>> THEN pos ELSE At(body, Top.name)

LEMMA AskedIs ==
  ASSUME IInv, pc = "send"
  PROVE  /\ Asked \in Node /\ Asked \in DOMAIN body
         /\ stack = <<>> => Node = {Asked}
         /\ \A k \in Node : body[k].kind = "def" =>
              body[Asked].kind = "def" /\ body[Asked].name \in GroupOf(body, body[k].name)
<1>1. body \in Programs
  BY DEF IInv, TypeInv
<1>2. CASE stack = <<>>
  BY <1>2, NodeIsNew DEF Asked, Defs
<1>3. CASE stack # <<>>
  <2>1. /\ Top.name \in Functions(body) /\ Top.name \in Top.group
        /\ Top.group = GroupOf(body, Top.name)
    BY <1>3, TopFrame DEF IInv
  <2>2. Asked \in Defs(body) /\ body[Asked].name = Top.name
    BY <1>1, <1>3, <2>1, Definition DEF Asked
  <2>3. Asked \in Node /\ Asked \in DOMAIN body /\ body[Asked].kind = "def"
    BY <1>3, <2>1, <2>2, NodeIsNew DEF Defs
  <2>4. ASSUME NEW k \in Node PROVE Top.name \in GroupOf(body, body[k].name)
    <3>1. body[k].name \in GroupOf(body, Top.name)
      BY <1>3, <2>1, NodeIsNew
    <3>2. GroupOf(body, body[k].name) = GroupOf(body, Top.name)
      BY <1>1, <2>1, <3>1, Groups
    <3>3. QED
      BY <2>1, <3>2
  <2>5. QED
    BY <1>3, <2>2, <2>3, <2>4
<1>4. QED
  BY <1>2, <1>3

\* What the placeholder declares.
LEMMA PlaceholderDeclares ==
  Placeholder.declares = IF body[Asked].kind \in {"guard", "top"}
                         THEN {<<"unsup", unsup, s>> : s \in Suffixes}
                         ELSE {<<body[Asked].kind, body[Asked].name, s>> : s \in Suffixes}
<1> DEFINE declared == IF body[Asked].kind \in {"guard", "top"}
                       THEN {<<"unsup", unsup, s>> : s \in Suffixes}
                       ELSE {<<body[Asked].kind, body[Asked].name, s>> : s \in Suffixes}
<1>1. Placeholder = [node |-> Node, placeholder |-> TRUE, declares |-> declared]
  BY DEF Placeholder, Asked
<1> HIDE DEF declared
<1>2. Placeholder.declares = declared
  BY <1>1
<1>3. QED
  BY <1>2 DEF declared

\* Of a function or class that is refused, the placeholder declares the name and
\* its twin, unless it declares another function of the group.
LEMMA Refused ==
  ASSUME IInv, Degrade, NEW k \in Node, body[k].kind \in {"def", "class"}, NEW s \in Halves
  PROVE  <<body[k].kind, body[k].name, s>> \in Placeholder.declares \/ Lost(Placeholder, k)
<1>1. pc = "send" /\ best
  BY DEF Degrade, Sending
<1>2. Suffixes = Halves /\ "" \in Suffixes
  BY <1>1, PassesOfTwins DEF Halves
<1>3. CASE body[k].kind = "class"
  <2>1. k = Asked
    BY <1>1, <1>3, AskedIs, NodeIsNew DEF Defs
  <2>2. Placeholder.declares = {<<body[k].kind, body[k].name, x>> : x \in Suffixes}
    BY <1>3, <2>1, PlaceholderDeclares
  <2>3. QED
    BY <1>2, <2>2
<1>4. CASE body[k].kind = "def"
  <2>1. body[Asked].kind = "def" /\ body[Asked].name \in GroupOf(body, body[k].name)
    BY <1>1, <1>4, AskedIs
  <2>2. \A x \in Suffixes : <<"def", body[Asked].name, x>> \in Placeholder.declares
    <3>1. Placeholder.declares = {<<body[Asked].kind, body[Asked].name, x>> : x \in Suffixes}
      BY <2>1, PlaceholderDeclares
    <3>2. QED
      BY <2>1, <3>1
  <2>3. CASE body[Asked].name = body[k].name
    BY <1>2, <1>4, <2>2, <2>3
  <2>4. CASE body[Asked].name # body[k].name
    <3>1. Placeholder.placeholder = TRUE
      BY DEF Placeholder
    <3>2. <<"def", body[Asked].name, "">> \in Placeholder.declares
      BY <1>2, <2>2
    <3>3. QED
      BY <1>1, <1>4, <2>1, <2>4, <3>1, <3>2 DEF Lost
  <2>5. QED
    BY <2>3, <2>4
<1>5. QED
  BY <1>3, <1>4

\* The names an emission adds: each function and class of the node, under each
\* suffix, and with a function the others of its group under the same suffix.
NamesOfNode(new) ==
  \A k \in Node : body[k].kind \in {"def", "class"} =>
    \A s \in Halves : \E m \in DOMAIN new :
      <<body[k].kind, body[k].name, s>> \in new[m].declares \/ Lost(new[m], k)

NamesTogether(part) ==
  \A d \in part.declares : d[1] = "def" =>
    /\ d[3] \in Halves /\ At(body, d[2]) \in Node /\ At(body, d[2]) \in Defs(body)
    /\ \A k \in Node \cap Defs(body) :
         <<"def", body[k].name, d[3]>> \in part.declares \/ Lost(part, k)

LEMMA EmitNames ==
  ASSUME IInv, Emit
  PROVE  NamesOfNode(codes) /\ \A m \in DOMAIN codes : NamesTogether(codes[m])
<1>1. pc = "send" /\ body \in Programs /\ Node \subseteq DOMAIN body
  BY Emitting, NodeIsNew DEF IInv, TypeInv
<1>2. DOMAIN codes = DOMAIN Passes /\ \A m \in DOMAIN codes : codes[m] = Code(Passes[m])
  <2>1. codes \in Seq(Parts) /\ Len(codes) = Len(Passes) /\ DOMAIN codes = 1..Len(codes)
    BY DEF Emit, IInv, TypeInv
  <2>2. DOMAIN Passes = 1..Len(Passes)
    <3>1. \/ Len(Passes) = 2 /\ DOMAIN Passes = 1..2
          \/ Len(Passes) = 1 /\ DOMAIN Passes = 1..1
      BY PassesAre
    <3>2. QED
      BY <3>1
  <2>3. QED
    BY <1>1, <2>1, <2>2 DEF IInv, CodesOK
<1>3. ASSUME NEW m \in DOMAIN codes
      PROVE  codes[m].declares = {<<body[k].kind, body[k].name, Passes[m]>> : k \in Node}
  BY <1>2 DEF Code
<1>4. ASSUME NEW k \in Node, body[k].kind \in {"def", "class"}, NEW s \in Halves
      PROVE  \E m \in DOMAIN codes : <<body[k].kind, body[k].name, s>> \in codes[m].declares
  <2>1. s \in Suffixes
    BY <1>1, <1>4, PassesOfTwins
  <2>2. PICK m \in DOMAIN codes : Passes[m] = s
    BY <1>2, <2>1 DEF Suffixes
  <2>3. QED
    BY <1>3, <2>2
<1>5. ASSUME NEW m \in DOMAIN codes PROVE NamesTogether(codes[m])
  <2>1. ASSUME NEW d \in codes[m].declares, d[1] = "def"
        PROVE  /\ d[3] \in Halves /\ At(body, d[2]) \in Node /\ At(body, d[2]) \in Defs(body)
               /\ \A k \in Node \cap Defs(body) : <<"def", body[k].name, d[3]>> \in codes[m].declares
    <3>1. PICK k \in Node : d = <<body[k].kind, body[k].name, Passes[m]>>
      BY <1>3, <2>1
    <3>2. d[1] = body[k].kind /\ d[2] = body[k].name /\ d[3] = Passes[m]
      BY <3>1
    <3>3. k \in Defs(body)
      BY <1>1, <2>1, <3>2 DEF Defs
    <3>4. At(body, d[2]) = k
      BY <1>1, <3>2, <3>3, Definition
    <3>5. d[3] \in Halves
      <4>1. Suffixes = Halves
        BY <1>1, <3>3, PassesOfTwins DEF Defs
      <4>2. QED
        BY <1>2, <3>2, <4>1 DEF Suffixes
    <3>6. ASSUME NEW l \in Node \cap Defs(body) PROVE <<"def", body[l].name, d[3]>> \in codes[m].declares
      BY <1>3, <3>2 DEF Defs
    <3>7. QED
      BY <3>3, <3>4, <3>5, <3>6
  <2>2. QED
    BY <2>1 DEF NamesTogether
<1>6. QED
  BY <1>4, <1>5 DEF NamesOfNode

LEMMA DegradeNames ==
  ASSUME IInv, Degrade
  PROVE  NamesOfNode(<<Placeholder>>) /\ NamesTogether(Placeholder)
<1>1. pc = "send" /\ body \in Programs /\ Node \subseteq DOMAIN body
  BY Emitting, NodeIsNew DEF IInv, TypeInv
<1>2. NamesOfNode(<<Placeholder>>)
  <2> DEFINE new == <<Placeholder>>
  <2>1. 1 \in DOMAIN new /\ new[1] = Placeholder
    OBVIOUS
  <2> HIDE DEF new
  <2>2. NamesOfNode(new)
    BY <2>1, Refused DEF NamesOfNode
  <2>3. QED
    BY <2>2 DEF new
<1>3. NamesTogether(Placeholder)
  <2>1. SUFFICES ASSUME NEW d \in Placeholder.declares, d[1] = "def"
                 PROVE  /\ d[3] \in Halves /\ At(body, d[2]) \in Node /\ At(body, d[2]) \in Defs(body)
                        /\ \A k \in Node \cap Defs(body) :
                             <<"def", body[k].name, d[3]>> \in Placeholder.declares \/ Lost(Placeholder, k)
    BY DEF NamesTogether
  <2>2. CASE body[Asked].kind \in {"guard", "top"}
    <3> DEFINE kind == "unsup"
    <3>1. PICK s \in Suffixes : d = <<kind, unsup, s>>
      BY <2>1, <2>2, PlaceholderDeclares
    <3> HIDE DEF kind
    <3>2. d[1] = kind
      BY <3>1
    <3>3. QED
      BY <2>1, <3>2 DEF kind
  <2>3. CASE body[Asked].kind \notin {"guard", "top"}
    <3>1. PICK s \in Suffixes : d = <<body[Asked].kind, body[Asked].name, s>>
      BY <2>1, <2>3, PlaceholderDeclares
    <3>2. d[1] = body[Asked].kind /\ d[2] = body[Asked].name /\ d[3] = s
      BY <3>1
    <3>3. Asked \in Node /\ Asked \in Defs(body)
      BY <1>1, <2>1, <3>2, AskedIs DEF Defs
    <3>4. At(body, d[2]) = Asked
      BY <1>1, <3>2, <3>3, Definition
    <3>5. s \in Halves
      BY <1>1, <3>3, PassesOfTwins DEF Defs
    <3>6. ASSUME NEW k \in Node \cap Defs(body)
          PROVE  <<"def", body[k].name, s>> \in Placeholder.declares \/ Lost(Placeholder, k)
      <4>1. body[k].kind = "def"
        BY DEF Defs
      <4>2. <<body[k].kind, body[k].name, s>> \in Placeholder.declares \/ Lost(Placeholder, k)
        BY <3>5, <4>1, Refused
      <4>3. QED
        BY <4>1, <4>2
    <3>7. QED
      BY <3>2, <3>3, <3>4, <3>5, <3>6
  <2>4. QED
    BY <2>2, <2>3
<1>4. QED
  BY <1>2, <1>3

\* What a step appends, with its names.
LEMMA AppendsNames ==
  ASSUME IInv, Emit \/ Degrade
  PROVE  \E new \in Seq(Parts), n \in Nat :
           /\ DOMAIN parts = 1..n
           /\ \A i \in DOMAIN parts : i \in DOMAIN parts' /\ parts'[i] = parts[i]
           /\ \A m \in DOMAIN new : n + m \in DOMAIN parts' /\ parts'[n + m] = new[m] /\ m \in Nat /\ m >= 1
           /\ \A i \in DOMAIN parts' : i \in DOMAIN parts \/ \E m \in DOMAIN new : i = n + m
           /\ UNCHANGED <<body, mode, best>>
           /\ NamesOfNode(new) /\ \A m \in DOMAIN new : NamesTogether(new[m])
<1>1. PICK new \in Seq(Parts), n \in Nat :
           /\ (Emit /\ new = codes) \/ (Degrade /\ new = <<Placeholder>>)
           /\ DOMAIN parts = 1..n
           /\ \A i \in DOMAIN parts : i \in DOMAIN parts' /\ parts'[i] = parts[i]
           /\ \A m \in DOMAIN new : n + m \in DOMAIN parts' /\ parts'[n + m] = new[m]
           /\ \A m \in DOMAIN new : m \in Nat /\ m >= 1
           /\ \A i \in DOMAIN parts' : i \in DOMAIN parts \/ \E m \in DOMAIN new : i = n + m
           /\ UNCHANGED <<body, mode, best>>
  BY Appends
<1>2. NamesOfNode(new) /\ \A m \in DOMAIN new : NamesTogether(new[m])
  <2>1. CASE Emit /\ new = codes
    BY <2>1, EmitNames
  <2>2. CASE Degrade /\ new = <<Placeholder>>
    <3>1. DOMAIN new = {1} /\ new[1] = Placeholder
      BY <2>2
    <3>2. NamesOfNode(new) /\ NamesTogether(Placeholder)
      BY <2>2, DegradeNames
    <3>3. QED
      BY <3>1, <3>2
  <2>3. QED
    BY <1>1, <2>1, <2>2
<1>3. \A m \in DOMAIN new : n + m \in DOMAIN parts' /\ parts'[n + m] = new[m] /\ m \in Nat /\ m >= 1
  BY <1>1
<1>4. QED
  BY <1>1, <1>2, <1>3, Zenon

\* The file and the options never change, so that what is lost stays lost.
LEMMA Kept ==
  ASSUME UNCHANGED <<body, mode, best>>
  PROVE  /\ Halves' = Halves
         /\ \A j \in DOMAIN parts', k \in DOMAIN body : Lost(parts'[j], k) => Lost(parts[j], k)'
<1>1. Halves' = Halves
  BY DEF Halves
<1>2. QED
  BY <1>1 DEF Lost

LEMMA NextNames ==
  ASSUME IInv, NamesOK, [Next]_vars
  PROVE  NamesOK'
<1>1. CASE UNCHANGED <<body, mode, best, parts>>
  <2>1. body' = body /\ parts' = parts /\ Halves' = Halves /\ Out' = Out /\ Out \subseteq DOMAIN body
        /\ \A j \in DOMAIN parts', k \in DOMAIN body : Lost(parts'[j], k) => Lost(parts[j], k)'
    BY <1>1, Kept DEF Out, IInv, OutOK
  <2>2. ASSUME NEW k \in Out', body'[k].kind \in {"def", "class"}, NEW s \in Halves'
        PROVE  \E j \in DOMAIN parts' :
                 <<body'[k].kind, body'[k].name, s>> \in parts'[j].declares \/ Lost(parts[j], k)'
    <3>1. PICK j \in DOMAIN parts :
                 <<body[k].kind, body[k].name, s>> \in parts[j].declares \/ Lost(parts[j], k)
      BY <2>1, <2>2 DEF NamesOK
    <3>2. j \in DOMAIN parts' /\ k \in DOMAIN body /\ parts'[j] = parts[j]
      BY <2>1, <2>2
    <3>3. Lost(parts[j], k) => Lost(parts[j], k)'
      BY <2>1, <3>2
    <3>4. QED
      BY <2>1, <3>1, <3>2, <3>3
  <2>3. QED
    BY <2>2 DEF NamesOK
<1>2. CASE Emit \/ Degrade
  <2>1. PICK new \in Seq(Parts), n \in Nat :
           /\ \A i \in DOMAIN parts : i \in DOMAIN parts' /\ parts'[i] = parts[i]
           /\ \A m \in DOMAIN new : n + m \in DOMAIN parts' /\ parts'[n + m] = new[m]
           /\ UNCHANGED <<body, mode, best>>
           /\ NamesOfNode(new)
    BY <1>2, AppendsNames
  <2>2. Out' = Out \cup Node /\ Out \subseteq DOMAIN body /\ Node \subseteq DOMAIN body
    BY <1>2, Emitting, Returned, NodeIsNew DEF IInv, OutOK
  <2>3. ASSUME NEW k \in Out', body[k].kind \in {"def", "class"}, NEW s \in Halves
        PROVE  \E j \in DOMAIN parts' :
                 <<body[k].kind, body[k].name, s>> \in parts'[j].declares \/ Lost(parts'[j], k)
    <3>1. CASE k \in Out
      BY <2>1, <2>3, <3>1 DEF NamesOK
    <3>2. CASE k \in Node
      BY <2>1, <2>3, <3>2 DEF NamesOfNode
    <3>3. QED
      BY <2>2, <2>3, <3>1, <3>2
  <2>4. body' = body /\ Halves' = Halves
        /\ \A j \in DOMAIN parts', k \in DOMAIN body : Lost(parts'[j], k) => Lost(parts[j], k)'
    BY <2>1, Kept
  <2>5. ASSUME NEW k \in Out', body'[k].kind \in {"def", "class"}, NEW s \in Halves'
        PROVE  \E j \in DOMAIN parts' :
                 <<body'[k].kind, body'[k].name, s>> \in parts'[j].declares \/ Lost(parts[j], k)'
    <3>1. PICK j \in DOMAIN parts' :
                 <<body[k].kind, body[k].name, s>> \in parts'[j].declares \/ Lost(parts'[j], k)
      BY <2>3, <2>4, <2>5
    <3>2. k \in DOMAIN body
      BY <2>2, <2>5
    <3>3. QED
      BY <2>4, <3>1, <3>2
  <2>6. QED
    BY <2>5 DEF NamesOK
<1>3. CASE SkipDef \/ EnterDef \/ EnterOther \/ Pull \/ Ready \/ PassSucceeds \/ Refuse \/ Done \/ UNCHANGED vars
  BY <1>1, <1>3 DEF SkipDef, EnterDef, EnterOther, Pull, Ready, PassSucceeds, Refuse, Done, vars, input
<1>4. QED
  BY <1>2, <1>3 DEF Next

LEMMA NextCalleesFirst ==
  ASSUME IInv, NamesOK, CalleesFirst, [Next]_vars
  PROVE  CalleesFirst'
<1>1. CASE UNCHANGED <<body, mode, best, parts>>
  <2>1. body' = body /\ parts' = parts /\ body \in Programs
        /\ \A j \in DOMAIN parts', k \in DOMAIN body : Lost(parts'[j], k) => Lost(parts[j], k)'
    BY <1>1, Kept DEF IInv, TypeInv
  <2>2. ASSUME NEW i \in DOMAIN parts', NEW d \in parts'[i].declares, d[1] = "def",
               NEW c \in body[At(body, d[2])].calls \cap Functions(body)
        PROVE  \E j \in 1..i : <<"def", c, d[3]>> \in parts'[j].declares \/ Lost(parts[j], At(body, c))'
    <3>1. PICK j \in 1..i : <<"def", c, d[3]>> \in parts[j].declares \/ Lost(parts[j], At(body, c))
      BY <2>1, <2>2 DEF CalleesFirst
    <3>2. j \in DOMAIN parts' /\ At(body, c) \in DOMAIN body /\ parts'[j] = parts[j]
      <4>1. parts \in Seq(Parts) /\ DOMAIN parts = 1..Len(parts) /\ Len(parts) \in Nat
        BY DEF IInv, TypeInv
      <4>2. j \in DOMAIN parts
        BY <2>1, <2>2, <3>1, <4>1
      <4>3. QED
        BY <2>1, <2>2, <4>2, Definition, Body
    <3>3. Lost(parts[j], At(body, c)) => Lost(parts[j], At(body, c))'
      BY <2>1, <3>2 DEF Lost
    <3>4. QED
      BY <2>1, <3>1, <3>3
  <2>3. QED
    BY <2>1, <2>2 DEF CalleesFirst
<1>2. CASE Emit \/ Degrade
  <2>1. pc = "send" /\ body \in Programs
    BY <1>2, Emitting DEF IInv, TypeInv
  <2>2. PICK new \in Seq(Parts), n \in Nat :
           /\ DOMAIN parts = 1..n
           /\ \A i \in DOMAIN parts : i \in DOMAIN parts' /\ parts'[i] = parts[i]
           /\ \A m \in DOMAIN new : n + m \in DOMAIN parts' /\ parts'[n + m] = new[m] /\ m \in Nat /\ m >= 1
           /\ \A i \in DOMAIN parts' : i \in DOMAIN parts \/ \E m \in DOMAIN new : i = n + m
           /\ UNCHANGED <<body, mode, best>>
           /\ \A m \in DOMAIN new : NamesTogether(new[m])
    BY <1>2, AppendsNames
  <2>3. ASSUME NEW i \in DOMAIN parts', NEW d \in parts'[i].declares, d[1] = "def",
               NEW c \in body[At(body, d[2])].calls \cap Functions(body)
        PROVE  \E j \in 1..i : j \in DOMAIN parts' /\
                 (<<"def", c, d[3]>> \in parts'[j].declares \/ Lost(parts'[j], At(body, c)))
    <3>1. CASE i \in DOMAIN parts
      <4>1. PICK j \in 1..i : <<"def", c, d[3]>> \in parts[j].declares \/ Lost(parts[j], At(body, c))
        BY <2>2, <2>3, <3>1 DEF CalleesFirst
      <4>2. j \in DOMAIN parts
        BY <2>2, <3>1
      <4>3. QED
        BY <2>2, <4>1, <4>2
    <3>2. CASE \E m \in DOMAIN new : i = n + m
      <4>1. PICK m \in DOMAIN new : i = n + m
        BY <3>2
      <4>2. parts'[i] = new[m] /\ i \in Nat /\ i >= 1 /\ i > n /\ NamesTogether(new[m])
        BY <2>2, <4>1
      <4>3. /\ d[3] \in Halves /\ At(body, d[2]) \in Node \cap Defs(body)
            /\ \A k \in Node \cap Defs(body) :
                 <<"def", body[k].name, d[3]>> \in new[m].declares \/ Lost(new[m], k)
        BY <2>3, <4>2 DEF NamesTogether
      <4>4. At(body, c) \in Defs(body) /\ body[At(body, c)].name = c /\ body[At(body, c)].kind = "def"
        BY <2>1, <2>3, Definition DEF Defs
      <4>5. At(body, c) \in Node \cup Out
        BY <2>1, <2>3, <4>3, CalleesOut
      <4>6. CASE At(body, c) \in Node
        <5>1. <<"def", c, d[3]>> \in parts'[i].declares \/ Lost(parts'[i], At(body, c))
          BY <4>2, <4>3, <4>4, <4>6
        <5>2. i \in 1..i
          BY <4>2
        <5>3. QED
          BY <2>3, <5>1, <5>2
      <4>7. CASE At(body, c) \in Out
        <5>1. PICK j \in DOMAIN parts :
                <<"def", c, d[3]>> \in parts[j].declares \/ Lost(parts[j], At(body, c))
          BY <4>3, <4>4, <4>7 DEF NamesOK
        <5>2. j \in 1..i
          BY <2>2, <4>2
        <5>3. QED
          BY <2>2, <5>1, <5>2
      <4>8. QED
        BY <4>5, <4>6, <4>7
    <3>3. QED
      BY <2>2, <2>3, <3>1, <3>2
  <2>4. body' = body
        /\ \A j \in DOMAIN parts', k \in DOMAIN body : Lost(parts'[j], k) => Lost(parts[j], k)'
    BY <2>2, Kept
  <2>5. ASSUME NEW i \in DOMAIN parts', NEW d \in parts'[i].declares, d[1] = "def",
               NEW c \in body[At(body, d[2])].calls \cap Functions(body)
        PROVE  \E j \in 1..i : <<"def", c, d[3]>> \in parts'[j].declares \/ Lost(parts[j], At(body, c))'
    <3>1. PICK j \in 1..i : j \in DOMAIN parts' /\
                 (<<"def", c, d[3]>> \in parts'[j].declares \/ Lost(parts'[j], At(body, c)))
      BY <2>3, <2>5
    <3>2. At(body, c) \in DOMAIN body
      BY <2>1, <2>5, Definition, Body
    <3>3. Lost(parts'[j], At(body, c)) => Lost(parts[j], At(body, c))'
      BY <2>4, <3>1, <3>2 DEF Lost
    <3>4. QED
      BY <3>1, <3>3
  <2>6. QED
    BY <2>4, <2>5 DEF CalleesFirst
<1>3. CASE SkipDef \/ EnterDef \/ EnterOther \/ Pull \/ Ready \/ PassSucceeds \/ Refuse \/ Done \/ UNCHANGED vars
  BY <1>1, <1>3 DEF SkipDef, EnterDef, EnterOther, Pull, Ready, PassSucceeds, Refuse, Done, vars, input
<1>4. QED
  BY <1>2, <1>3 DEF Next

LEMMA NamesInvariant == Spec => [](IInv /\ NamesOK)
<1>1. Init => NamesOK
  <2>1. Init => Out = {}
    BY DEF Init, Out
  <2>2. QED
    BY <2>1 DEF NamesOK
<1>2. QED
  BY <1>1, EmissionInvariant, NextNames, PTL DEF Spec

\* What a function calls by name is declared before it or with it, each twin for
\* its own, wherever the file has it, however the calls are nested, and whatever
\* the backend refuses; unless it was lost with a group refused before.
THEOREM CalleesBeforeCallers == Spec => []CalleesFirst
<1>1. Init => CalleesFirst
  <2>1. Init => DOMAIN parts = {}
    BY DEF Init
  <2>2. QED
    BY <2>1 DEF CalleesFirst
<1>2. QED
  BY <1>1, NamesInvariant, NextCalleesFirst, PTL DEF Spec

\* A translation that ends without an error has declared every function and class
\* with its twin, but for the members of refused groups that were not asked for,
\* and has sent every other statement.
THEOREM NothingLostAtAll == Spec => []NothingLost
<1>1. ASSUME IInv, NamesOK PROVE NothingLost
  <2>1. ASSUME pc = "done", NEW k \in DOMAIN body PROVE k \in Out
    <3>1. DOMAIN body = 1..Len(body) /\ Len(body) \in Nat /\ pos = Len(body) + 1
      BY <1>1, <2>1, Body DEF IInv, TypeInv, PlaceOK
    <3>2. k < pos
      BY <3>1
    <3>3. QED
      BY <1>1, <3>2 DEF IInv, OutOK
  <2>2. ASSUME pc = "done", NEW k \in DOMAIN body, body[k].kind \in {"def", "class"}, NEW s \in Halves
        PROVE  \E i \in DOMAIN parts :
                 <<body[k].kind, body[k].name, s>> \in parts[i].declares \/ Lost(parts[i], k)
    BY <1>1, <2>1, <2>2 DEF NamesOK
  <2>3. ASSUME pc = "done", NEW k \in DOMAIN body PROVE \E i \in DOMAIN parts : k \in parts[i].node
    BY <2>1, <2>3 DEF Out
  <2>4. QED
    BY <2>2, <2>3 DEF NothingLost
<1>2. QED
  BY <1>1, NamesInvariant, PTL
=============================================================================
