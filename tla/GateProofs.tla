----------------------------- MODULE GateProofs -----------------------------
(***************************************************************************)
(* The gate's translated streams are Messages, and a client can put them   *)
(* together by index (BlocksHoldTogether): for any tool calls, chunks and  *)
(* requests, on the whole head (HeadNode).                                 *)
(***************************************************************************)
EXTENDS HeadNode, TLAPS

-----------------------------------------------------------------------------
(***************************************************************************)
(* The translator.  It has these fields, and their types where they are    *)
(* needed.                                                                 *)
(***************************************************************************)
FieldsOK(s) ==
  /\ DOMAIN s = DOMAIN NewStream
  /\ s.index \in Nat \cup {-1} /\ s.kind \in Kinds \cup {Nothing}
  /\ DOMAIN s.tools = Tools /\ \A i \in Tools : s.tools[i] \in Nat \cup {Nothing}
  /\ s.begun \in Nat /\ s.ended \in Nat
  /\ s.orderly \in BOOLEAN

\* The client's block is the translator's.
OpenOK(s) ==
  /\ s.begun = s.index + 1
  /\ s.open = (IF s.kind = Nothing THEN Nothing ELSE s.index)
  /\ s.kind # Nothing => s.index \in Nat

\* Every tool call has a block of its own, and none is a block of text.
ToolsOK(s) ==
  /\ \A i \in Tools : s.tools[i] # Nothing => s.tools[i] \in Nat /\ s.tools[i] <= s.index
  /\ \A i, j \in Tools : s.tools[i] # Nothing /\ s.tools[i] = s.tools[j] => i = j
  /\ \A i \in Tools : s.tools[i] = s.index /\ s.kind # Nothing => s.kind = "tool_use"

\* An orderly engine is in the block it is speaking to.
SourceOK(s) ==
  /\ s.source \in Kinds \cup Tools \cup {Nothing}
  /\ s.orderly /\ s.phase # "over" /\ s.source \in Tools =>
       s.tools[s.source] = s.index /\ s.kind = "tool_use"

HoldsOK(s) ==
  /\ \A x \in s.holds :
       /\ x[1] \in Nat /\ x[1] <= s.index /\ x[2] \in {"thinking", "text"} \cup Tools
       /\ x[2] \in Tools => s.tools[x[2]] = x[1]
       /\ x[2] \notin Tools => \A i \in Tools : s.tools[i] # x[1]
       /\ x[2] \notin Tools /\ x[1] = s.index /\ s.kind # Nothing => s.kind = x[2]
  /\ \A x, y \in s.holds : x[1] = y[1] => x[2] = y[2]

StreamOK(s) == FieldsOK(s) /\ OpenOK(s) /\ ToolsOK(s) /\ SourceOK(s) /\ HoldsOK(s)

\* What a step tells the client, in the words of Message.
SameBlocks(s, n) == n.begun = s.begun /\ n.ended = s.ended /\ n.open = s.open
BeginsBlock(s, n) ==
  /\ n.begun = s.begun + 1 /\ n.open = s.begun
  /\ n.ended = IF s.open = Nothing THEN s.ended ELSE s.ended + 1
ToldRightly(s, n) ==
  /\ n.told # s.told => n.told \in 0..(n.begun - 1)
  /\ n.orderly => s.orderly /\ (n.told = s.told \/ n.told = n.open)
Speaks(s, n) == n.phase = "going" /\ (SameBlocks(s, n) \/ BeginsBlock(s, n)) /\ ToldRightly(s, n)

LEMMA NewStreamOK == StreamOK(NewStream) /\ NewStream.phase = "none"
<1>1. /\ NewStream.index = -1 /\ NewStream.kind = Nothing /\ NewStream.tools = [i \in Tools |-> Nothing]
      /\ NewStream.begun = 0 /\ NewStream.ended = 0 /\ NewStream.open = Nothing /\ NewStream.holds = {}
      /\ NewStream.phase = "none" /\ NewStream.source = Nothing /\ NewStream.orderly = TRUE
  BY DEF NewStream
<1>2. FieldsOK(NewStream)
  <2>1. TRUE \in BOOLEAN /\ -1 \in Nat \cup {-1}
    OBVIOUS
  <2>2. NewStream.orderly \in BOOLEAN
    BY <1>1, <2>1
  <2>3. DOMAIN NewStream.tools = Tools /\ \A i \in Tools : NewStream.tools[i] \in Nat \cup {Nothing}
    BY <1>1
  <2>4. NewStream.index \in Nat \cup {-1} /\ NewStream.kind \in Kinds \cup {Nothing}
    BY <1>1, <2>1
  <2> QED BY <1>1, <2>2, <2>3, <2>4 DEF FieldsOK
<1>3. OpenOK(NewStream)
  BY <1>1 DEF OpenOK
<1>4. ToolsOK(NewStream) /\ SourceOK(NewStream)
  BY <1>1, StreamAssumption DEF ToolsOK, SourceOK
<1>5. HoldsOK(NewStream)
  BY <1>1 DEF HoldsOK
<1> QED BY <1>1, <1>2, <1>3, <1>4, <1>5 DEF StreamOK

\* What is known of nothing.
LEMMA NothingApart == Nothing \notin Nat /\ Nothing \notin Kinds /\ Nothing \notin Tools
                      /\ \A i \in Tools : i \notin Kinds
BY StreamAssumption DEF Kinds

\* Start, and the history of what the engine speaks to, change only that.
SaidTo(s, src, orderly) == [Start(s) EXCEPT !.source = src, !.orderly = orderly]

SaidBy(s, m, src, orderly) ==
  /\ DOMAIN m = DOMAIN NewStream
  /\ m.index = s.index /\ m.kind = s.kind /\ m.tools = s.tools /\ m.begun = s.begun /\ m.ended = s.ended
  /\ m.open = s.open /\ m.told = s.told /\ m.holds = s.holds
  /\ m.phase = "going" /\ m.source = src /\ m.orderly = orderly

LEMMA SaidIs ==
  ASSUME NEW s, StreamOK(s), s.phase \in {"none", "going"}, NEW src, NEW orderly \in BOOLEAN
  PROVE  SaidBy(s, SaidTo(s, src, orderly), src, orderly)
BY DEF StreamOK, FieldsOK, Start, NewStream, SaidTo, SaidBy

LEMMA StartIs ==
  ASSUME NEW s, StreamOK(s), s.phase \in {"none", "going"}
  PROVE  /\ DOMAIN Start(s) = DOMAIN NewStream
         /\ Start(s).index = s.index /\ Start(s).kind = s.kind /\ Start(s).tools = s.tools
         /\ Start(s).begun = s.begun /\ Start(s).ended = s.ended
         /\ Start(s).open = s.open /\ Start(s).told = s.told /\ Start(s).holds = s.holds
         /\ Start(s).phase = "going" /\ Start(s).source = s.source /\ Start(s).orderly = s.orderly
BY DEF StreamOK, FieldsOK, Start, NewStream

\* _open: what it leaves, and what it tells.
OpenedBy(s, n, kind) ==
  /\ DOMAIN n = DOMAIN NewStream
  /\ n.index = s.index + 1 /\ n.kind = kind /\ n.open = s.index + 1 /\ n.begun = s.begun + 1
  /\ n.ended = (IF s.kind = Nothing THEN s.ended ELSE s.ended + 1)
  /\ n.tools = s.tools /\ n.told = s.told /\ n.holds = s.holds
  /\ n.phase = s.phase /\ n.source = s.source /\ n.orderly = s.orderly

LEMMA OpenIs ==
  ASSUME NEW s, DOMAIN s = DOMAIN NewStream, NEW kind
  PROVE  OpenedBy(s, Open(s, kind), kind)
BY DEF Open, Close, NewStream, OpenedBy

DeltaBy(s, n, block, src) ==
  /\ DOMAIN n = DOMAIN NewStream
  /\ n.told = block /\ n.holds = s.holds \cup {<<block, src>>}
  /\ n.index = s.index /\ n.kind = s.kind /\ n.open = s.open /\ n.begun = s.begun /\ n.ended = s.ended
  /\ n.tools = s.tools /\ n.phase = s.phase /\ n.source = s.source /\ n.orderly = s.orderly

ClosedBy(s, n) ==
  /\ DOMAIN n = DOMAIN NewStream
  /\ n.kind = Nothing
  /\ n.open = (IF s.kind = Nothing THEN s.open ELSE Nothing)
  /\ n.ended = (IF s.kind = Nothing THEN s.ended ELSE s.ended + 1)
  /\ n.index = s.index /\ n.begun = s.begun /\ n.tools = s.tools /\ n.told = s.told /\ n.holds = s.holds
  /\ n.phase = s.phase /\ n.source = s.source /\ n.orderly = s.orderly

LEMMA DeltaIs ==
  ASSUME NEW s, DOMAIN s = DOMAIN NewStream, NEW block, NEW src
  PROVE  DeltaBy(s, Delta(s, block, src), block, src)
BY DEF Delta, NewStream, DeltaBy

\* Reasoning and content.
LEMMA SayOK ==
  ASSUME NEW s, StreamOK(s), s.phase \in {"none", "going"}, NEW kind \in {"thinking", "text"},
         NEW orderly \in BOOLEAN, orderly => s.orderly,
         NEW n, n = Say(SaidTo(s, kind, orderly), kind)
  PROVE  StreamOK(n) /\ Speaks(s, n)
<1> DEFINE m == SaidTo(s, kind, orderly)
           o == IF m.kind = kind THEN m ELSE Open(m, kind)
<1>1. SaidBy(s, m, kind, orderly)
  BY SaidIs
<1> HIDE DEF m
<1>2. /\ DOMAIN o = DOMAIN NewStream
      /\ o.kind = kind /\ o.tools = s.tools /\ o.told = s.told /\ o.holds = s.holds
      /\ o.phase = "going" /\ o.source = kind /\ o.orderly = orderly
      /\ \/ /\ s.kind = kind /\ o.index = s.index /\ o.begun = s.begun /\ o.ended = s.ended /\ o.open = s.open
         \/ /\ o.index = s.index + 1 /\ o.begun = s.begun + 1 /\ o.open = s.index + 1
            /\ o.ended = (IF s.kind = Nothing THEN s.ended ELSE s.ended + 1)
  <2>1. CASE m.kind = kind
    BY <1>1, <2>1 DEF SaidBy
  <2>2. CASE m.kind # kind
    <3>1. OpenedBy(m, o, kind)
      BY <1>1, <2>2, OpenIs DEF SaidBy
    <3> HIDE DEF o
    <3> QED BY <1>1, <3>1 DEF SaidBy, OpenedBy
  <2> QED BY <2>1, <2>2
<1>3. n = Delta(o, o.index, kind)
  BY DEF Say, m
<1> HIDE DEF o
<1>4. /\ DOMAIN n = DOMAIN NewStream
      /\ n.told = o.index /\ n.holds = s.holds \cup {<<o.index, kind>>}
      /\ n.index = o.index /\ n.kind = kind /\ n.open = o.open /\ n.begun = o.begun /\ n.ended = o.ended
      /\ n.tools = s.tools /\ n.phase = "going" /\ n.source = kind /\ n.orderly = orderly
  BY <1>2, <1>3, DeltaIs DEF DeltaBy
<1>5. /\ s.index \in Nat \cup {-1} /\ s.kind \in Kinds \cup {Nothing} /\ s.begun = s.index + 1
      /\ s.open = (IF s.kind = Nothing THEN Nothing ELSE s.index)
      /\ s.begun \in Nat /\ s.ended \in Nat
  BY DEF StreamOK, FieldsOK, OpenOK
<1>6. kind \in Kinds /\ kind \notin Tools /\ kind # Nothing /\ kind # "tool_use"
  BY NothingApart DEF Kinds
<1>7. n.index \in Nat /\ s.index <= n.index /\ (n.index = s.index => s.kind = kind) /\ n.index \in {s.index, s.index + 1}
  <2>1. s.kind = kind => s.index \in Nat
    BY <1>6 DEF StreamOK, OpenOK
  <2> QED BY <1>2, <1>4, <1>5, <2>1
<1>8. FieldsOK(n)
  <2>1. n.orderly \in BOOLEAN
    BY <1>4
  <2>2. DOMAIN s.tools = Tools /\ \A i \in Tools : s.tools[i] \in Nat \cup {Nothing}
    BY DEF FieldsOK, StreamOK
  <2>3. n.begun \in Nat /\ n.ended \in Nat
    BY <1>2, <1>4, <1>5, <1>7
  <2>4. DOMAIN n = DOMAIN NewStream /\ n.tools = s.tools /\ n.kind \in Kinds \cup {Nothing} /\ n.index \in Nat \cup {-1}
    BY <1>4, <1>6, <1>7
  <2> QED BY <2>1, <2>2, <2>3, <2>4 DEF FieldsOK
<1>9. OpenOK(n)
  <2>1. n.begun = n.index + 1
    BY <1>2, <1>4, <1>5
  <2>2. n.open = n.index
    BY <1>2, <1>4, <1>5, <1>6
  <2> QED BY <1>4, <1>6, <1>7, <2>1, <2>2 DEF OpenOK
<1>a. ToolsOK(s)
  BY DEF StreamOK
<1>b. ASSUME NEW i \in Tools PROVE s.tools[i] # n.index
  <2>1. SUFFICES ASSUME s.tools[i] = n.index PROVE FALSE
    OBVIOUS
  <2>2. s.tools[i] <= s.index
    BY <1>7, <1>a, <2>1, NothingApart DEF ToolsOK
  <2>3. n.index = s.index
    BY <1>5, <1>7, <2>1, <2>2
  <2> QED BY <1>6, <1>7, <1>a, <2>1, <2>3 DEF ToolsOK
<1>10. ToolsOK(n)
  <2>1. \A i \in Tools : n.tools[i] # Nothing => n.tools[i] \in Nat /\ n.tools[i] <= n.index
    BY <1>4, <1>5, <1>7, <1>a DEF ToolsOK
  <2>2. \A i, j \in Tools : n.tools[i] # Nothing /\ n.tools[i] = n.tools[j] => i = j
    BY <1>4, <1>a DEF ToolsOK
  <2>3. \A i \in Tools : n.tools[i] # n.index
    BY <1>4, <1>b
  <2> QED BY <2>1, <2>2, <2>3 DEF ToolsOK
<1>11. SourceOK(n)
  <2>1. n.source \in Kinds /\ n.source \notin Tools
    BY <1>4, <1>6
  <2> QED BY <2>1 DEF SourceOK
<1>12. HoldsOK(n)
  <2>1. HoldsOK(s) /\ ToolsOK(s)
    BY DEF StreamOK
  <2>2. ASSUME NEW x \in n.holds
        PROVE  x = <<n.index, kind>> \/ (x \in s.holds /\ x[1] \in Nat /\ x[1] <= s.index)
    BY <1>4, <2>1 DEF HoldsOK
  <2>3. \A i \in Tools : s.tools[i] # n.index
    BY <1>b
  <2>4. ASSUME NEW x \in s.holds, x[1] = n.index PROVE x[2] = kind
    BY <1>5, <1>6, <1>7, <2>1, <2>3, <2>4 DEF HoldsOK
  <2>5. ASSUME NEW x \in n.holds
        PROVE  /\ x[1] \in Nat /\ x[1] <= n.index /\ x[2] \in {"thinking", "text"} \cup Tools
               /\ x[2] \in Tools => n.tools[x[2]] = x[1]
               /\ x[2] \notin Tools => \A i \in Tools : n.tools[i] # x[1]
               /\ x[2] \notin Tools /\ x[1] = n.index /\ n.kind # Nothing => n.kind = x[2]
    <3>1. CASE x = <<n.index, kind>>
      BY <1>4, <1>6, <1>7, <2>3, <3>1
    <3>2. CASE x \in s.holds /\ x[1] \in Nat /\ x[1] <= s.index
      BY <1>4, <1>5, <1>7, <2>1, <2>4, <3>2 DEF HoldsOK
    <3> QED BY <2>2, <3>1, <3>2
  <2>6. ASSUME NEW x \in n.holds, NEW y \in n.holds, x[1] = y[1] PROVE x[2] = y[2]
    BY <2>1, <2>2, <2>4, <2>6 DEF HoldsOK
  <2> QED BY <2>5, <2>6 DEF HoldsOK
<1>13. Speaks(s, n)
  <2>1. SameBlocks(s, n) \/ BeginsBlock(s, n)
    <3>1. s.open = Nothing <=> s.kind = Nothing
      BY NothingApart, <1>5 DEF StreamOK, OpenOK
    <3>2. CASE o.index = s.index /\ o.begun = s.begun /\ o.ended = s.ended /\ o.open = s.open
      BY <1>4, <3>2 DEF SameBlocks
    <3>3. CASE /\ o.index = s.index + 1 /\ o.begun = s.begun + 1 /\ o.open = s.index + 1
               /\ o.ended = (IF s.kind = Nothing THEN s.ended ELSE s.ended + 1)
      BY <1>4, <1>5, <3>1, <3>3 DEF BeginsBlock
    <3> QED BY <1>2, <3>2, <3>3
  <2>2. n.told = n.open /\ n.told \in 0..(n.begun - 1)
    BY <1>4, <1>7, <1>9, <1>6 DEF OpenOK
  <2>3. n.orderly => s.orderly
    BY <1>4
  <2> QED BY <1>4, <2>1, <2>2, <2>3 DEF Speaks, ToldRightly
<1> QED BY <1>8, <1>9, <1>10, <1>11, <1>12, <1>13 DEF StreamOK

\* _close.
LEMMA CloseIs ==
  ASSUME NEW s, DOMAIN s = DOMAIN NewStream
  PROVE  ClosedBy(s, Close(s))
BY DEF Close, NewStream, ClosedBy

\* A tool call's piece, the first: a block of its own is opened.
LEMMA FirstPieceOK ==
  ASSUME NEW s, StreamOK(s), NEW i \in Tools, s.tools[i] = Nothing,
         NEW orderly \in BOOLEAN, orderly => s.orderly,
         NEW n, DOMAIN n = DOMAIN NewStream,
         n.index = s.index + 1, n.kind = "tool_use", n.open = s.index + 1, n.begun = s.begun + 1,
         n.ended = (IF s.kind = Nothing THEN s.ended ELSE s.ended + 1),
         n.tools = [s.tools EXCEPT ![i] = s.index + 1],
         n.phase = "going", n.source = i, n.orderly = orderly,
         \/ n.told = s.told /\ n.holds = s.holds
         \/ n.told = s.index + 1 /\ n.holds = s.holds \cup {<<s.index + 1, i>>}
  PROVE  StreamOK(n) /\ Speaks(s, n)
<1>1. FieldsOK(s) /\ OpenOK(s) /\ ToolsOK(s) /\ SourceOK(s) /\ HoldsOK(s)
  BY DEF StreamOK
<1>2. /\ s.index \in Nat \cup {-1} /\ s.begun = s.index + 1 /\ s.begun \in Nat /\ s.ended \in Nat
      /\ DOMAIN s.tools = Tools /\ \A j \in Tools : s.tools[j] \in Nat \cup {Nothing}
  BY <1>1 DEF FieldsOK, OpenOK
<1>3. n.index \in Nat /\ s.index < n.index /\ n.index = s.begun
  BY <1>2
<1>4. /\ DOMAIN n.tools = Tools /\ n.tools[i] = n.index
      /\ \A j \in Tools \ {i} : n.tools[j] = s.tools[j]
  BY <1>2
<1>5. \A j \in Tools : s.tools[j] # Nothing => s.tools[j] \in Nat /\ s.tools[j] < n.index
  BY <1>1, <1>2, <1>3 DEF ToolsOK
<1>6. FieldsOK(n)
  <2>1. n.orderly \in BOOLEAN
    OBVIOUS
  <2>2. \A j \in Tools : n.tools[j] \in Nat \cup {Nothing}
    BY <1>2, <1>3, <1>4
  <2>3. n.begun \in Nat /\ n.ended \in Nat
    BY <1>2
  <2>4. n.kind \in Kinds \cup {Nothing} /\ n.index \in Nat \cup {-1}
    BY <1>3 DEF Kinds
  <2> QED BY <1>4, <2>1, <2>2, <2>3, <2>4 DEF FieldsOK
<1>7. n.kind # Nothing
  BY NothingApart DEF Kinds
<1>8. OpenOK(n)
  BY <1>2, <1>3, <1>7 DEF OpenOK
<1>9. ToolsOK(n)
  <2>1. \A j \in Tools : n.tools[j] # Nothing => n.tools[j] \in Nat /\ n.tools[j] <= n.index
    BY <1>3, <1>4, <1>5
  <2>2. ASSUME NEW j \in Tools, NEW k \in Tools, n.tools[j] # Nothing, n.tools[j] = n.tools[k] PROVE j = k
    <3>1. CASE j = i \/ k = i
      BY <1>3, <1>4, <1>5, <2>2, <3>1
    <3>2. CASE j # i /\ k # i
      BY <1>1, <1>4, <2>2, <3>2 DEF ToolsOK
    <3> QED BY <3>1, <3>2
  <2> QED BY <2>1, <2>2 DEF ToolsOK
<1>10. SourceOK(n)
  BY <1>4 DEF SourceOK
<1>11. HoldsOK(n)
  <2>1. ASSUME NEW x \in s.holds
        PROVE  /\ x[1] \in Nat /\ x[1] < n.index /\ x[2] \in {"thinking", "text"} \cup Tools
               /\ x[2] \in Tools => x[2] # i /\ s.tools[x[2]] = x[1]
               /\ x[2] \notin Tools => \A j \in Tools : s.tools[j] # x[1]
    BY <1>1, <1>2, <1>3, NothingApart DEF HoldsOK
  <2>2. i \in Tools /\ n.index \in Nat /\ n.index <= n.index
    BY <1>3
  <2>3. ASSUME NEW x \in n.holds PROVE x \in s.holds \/ x = <<n.index, i>>
    OBVIOUS
  <2>4. ASSUME NEW x \in n.holds
        PROVE  /\ x[1] \in Nat /\ x[1] <= n.index /\ x[2] \in {"thinking", "text"} \cup Tools
               /\ x[2] \in Tools => n.tools[x[2]] = x[1]
               /\ x[2] \notin Tools => \A j \in Tools : n.tools[j] # x[1]
               /\ x[2] \notin Tools /\ x[1] = n.index /\ n.kind # Nothing => n.kind = x[2]
    <3>1. CASE x = <<n.index, i>>
      BY <1>4, <2>2, <3>1
    <3>2. CASE x \in s.holds
      <4>1. x[2] \notin Tools => \A j \in Tools : n.tools[j] # x[1]
        BY <1>3, <1>4, <2>1, <3>2
      <4> QED BY <1>3, <1>4, <2>1, <3>2, <4>1
    <3> QED BY <2>3, <3>1, <3>2
  <2>5. ASSUME NEW x \in n.holds, NEW y \in n.holds, x[1] = y[1] PROVE x[2] = y[2]
    <3>1. CASE x \in s.holds /\ y \in s.holds
      BY <1>1, <2>5, <3>1 DEF HoldsOK
    <3>2. CASE x = <<n.index, i>> \/ y = <<n.index, i>>
      BY <1>3, <2>1, <2>3, <2>5, <3>2
    <3> QED BY <2>3, <3>1, <3>2
  <2> QED BY <2>4, <2>5 DEF HoldsOK
<1>12. Speaks(s, n)
  <2>1. BeginsBlock(s, n)
    <3>1. s.open = Nothing <=> s.kind = Nothing
      BY NothingApart, <1>1 DEF OpenOK
    <3> QED BY <1>2, <3>1 DEF BeginsBlock
  <2>2. n.told # s.told => n.told = n.open /\ n.told \in 0..(n.begun - 1)
    BY <1>2
  <2> QED BY <2>1, <2>2 DEF Speaks, ToldRightly
<1> QED BY <1>6, <1>8, <1>9, <1>10, <1>11, <1>12 DEF StreamOK

\* A later piece: it goes to the call's block.
LEMMA LaterPieceOK ==
  ASSUME NEW s, StreamOK(s), s.phase # "over", NEW i \in Tools, s.tools[i] # Nothing,
         NEW orderly \in BOOLEAN, orderly => s.orderly /\ s.source = i,
         NEW n, DOMAIN n = DOMAIN NewStream,
         n.index = s.index, n.kind = s.kind, n.open = s.open, n.begun = s.begun, n.ended = s.ended,
         n.tools = s.tools, n.phase = "going", n.source = i, n.orderly = orderly,
         \/ n.told = s.told /\ n.holds = s.holds
         \/ n.told = s.tools[i] /\ n.holds = s.holds \cup {<<s.tools[i], i>>}
  PROVE  StreamOK(n) /\ Speaks(s, n)
<1>1. FieldsOK(s) /\ OpenOK(s) /\ ToolsOK(s) /\ SourceOK(s) /\ HoldsOK(s)
  BY DEF StreamOK
<1>2. FieldsOK(n)
  <2>1. n.orderly \in BOOLEAN
    OBVIOUS
  <2> QED BY <1>1, <2>1 DEF FieldsOK
<1>3. OpenOK(n) /\ ToolsOK(n)
  BY <1>1 DEF OpenOK, ToolsOK
<1>4. orderly => s.tools[i] = s.index /\ s.kind = "tool_use"
  BY <1>1 DEF SourceOK
<1>5. SourceOK(n)
  BY <1>4 DEF SourceOK
<1>6. s.tools[i] \in Nat /\ s.tools[i] <= s.index
  BY <1>1 DEF ToolsOK
<1>7. HoldsOK(n)
  <2>1. CASE n.holds = s.holds
    BY <1>1, <2>1 DEF HoldsOK
  <2>2. CASE n.holds = s.holds \cup {<<s.tools[i], i>>}
    <3>1. ASSUME NEW x \in s.holds, x[1] = s.tools[i] PROVE x[2] = i
      BY <1>1, <1>6, <3>1 DEF HoldsOK, ToolsOK
    <3>2. ASSUME NEW x \in n.holds PROVE x \in s.holds \/ x = <<s.tools[i], i>>
      BY <2>2
    <3>3. ASSUME NEW x \in n.holds
          PROVE  /\ x[1] \in Nat /\ x[1] <= n.index /\ x[2] \in {"thinking", "text"} \cup Tools
                 /\ x[2] \in Tools => n.tools[x[2]] = x[1]
                 /\ x[2] \notin Tools => \A j \in Tools : n.tools[j] # x[1]
                 /\ x[2] \notin Tools /\ x[1] = n.index /\ n.kind # Nothing => n.kind = x[2]
      <4>1. CASE x = <<s.tools[i], i>>
        BY <1>6, <4>1
      <4>2. CASE x \in s.holds
        BY <1>1, <4>2 DEF HoldsOK
      <4> QED BY <3>2, <4>1, <4>2
    <3>4. ASSUME NEW x \in n.holds, NEW y \in n.holds, x[1] = y[1] PROVE x[2] = y[2]
      <4>1. CASE x \in s.holds /\ y \in s.holds
        BY <1>1, <3>4, <4>1 DEF HoldsOK
      <4>2. CASE x = <<s.tools[i], i>> \/ y = <<s.tools[i], i>>
        BY <3>1, <3>2, <3>4, <4>2
      <4> QED BY <3>2, <4>1, <4>2
    <3> QED BY <3>3, <3>4 DEF HoldsOK
  <2> QED BY <2>1, <2>2
<1>8. Speaks(s, n)
  <2>1. SameBlocks(s, n)
    BY DEF SameBlocks
  <2>2. n.told # s.told => n.told \in 0..(n.begun - 1)
    BY <1>1, <1>6 DEF OpenOK, FieldsOK
  <2>3. orderly => n.told = s.told \/ n.told = n.open
    <3>1. orderly => s.kind # Nothing
      BY <1>4, NothingApart DEF Kinds
    <3> QED BY <1>1, <1>4, <3>1 DEF OpenOK
  <2> QED BY <2>1, <2>2, <2>3 DEF Speaks, ToldRightly
<1> QED BY <1>2, <1>3, <1>5, <1>7, <1>8 DEF StreamOK

\* Any piece of a tool call.
LEMMA CallOK ==
  ASSUME NEW s, StreamOK(s), s.phase \in {"none", "going"}, NEW i \in Tools, NEW args \in BOOLEAN,
         NEW orderly \in BOOLEAN, orderly => s.orderly /\ (s.tools[i] = Nothing \/ s.source = i),
         NEW n, n = Call(SaidTo(s, i, orderly), i, args)
  PROVE  StreamOK(n) /\ Speaks(s, n)
<1> DEFINE m == SaidTo(s, i, orderly)
           b == Open(m, "tool_use")
           o == IF m.tools[i] = Nothing THEN [b EXCEPT !.used = TRUE, !.tools[i] = b.index] ELSE m
<1>1. SaidBy(s, m, i, orderly)
  BY SaidIs
<1>2. n = IF args THEN Delta(o, o.tools[i], i) ELSE o
  BY DEF Call
<1> HIDE DEF m
<1>3. OpenedBy(m, b, "tool_use")
  BY <1>1, OpenIs DEF SaidBy
<1> HIDE DEF b
<1>4. DOMAIN s.tools = Tools
  BY DEF StreamOK, FieldsOK
<1>5. CASE s.tools[i] = Nothing
  <2>1. /\ DOMAIN o = DOMAIN NewStream
        /\ o.index = s.index + 1 /\ o.kind = "tool_use" /\ o.open = s.index + 1 /\ o.begun = s.begun + 1
        /\ o.ended = (IF s.kind = Nothing THEN s.ended ELSE s.ended + 1)
        /\ o.tools = [s.tools EXCEPT ![i] = s.index + 1] /\ o.tools[i] = s.index + 1
        /\ o.phase = "going" /\ o.source = i /\ o.orderly = orderly /\ o.told = s.told /\ o.holds = s.holds
    BY <1>1, <1>3, <1>4, <1>5 DEF SaidBy, OpenedBy, NewStream
  <2> HIDE DEF o
  <2>2. CASE args
    <3>1. DeltaBy(o, n, s.index + 1, i)
      BY <1>2, <2>1, <2>2, DeltaIs
    <3> QED BY <1>5, <2>1, <3>1, FirstPieceOK DEF DeltaBy
  <2>3. CASE ~args
    <3>1. n = o
      BY <1>2, <2>3
    <3> QED BY <1>5, <2>1, <3>1, FirstPieceOK
  <2> QED BY <2>2, <2>3
<1>6. CASE s.tools[i] # Nothing
  <2>1. o = m
    BY <1>1, <1>6 DEF SaidBy
  <2> HIDE DEF o
  <2>2. CASE args
    <3>1. n = Delta(m, s.tools[i], i)
      BY <1>1, <1>2, <2>1, <2>2 DEF SaidBy
    <3>2. DeltaBy(m, n, s.tools[i], i)
      BY <1>1, <3>1, DeltaIs DEF SaidBy
    <3> QED BY <1>1, <1>6, <3>2, LaterPieceOK DEF DeltaBy, SaidBy
  <2>3. CASE ~args
    <3>1. n = m
      BY <1>2, <2>1, <2>3
    <3> QED BY <1>1, <1>6, <3>1, LaterPieceOK DEF SaidBy
  <2> QED BY <2>2, <2>3
<1> QED BY <1>5, <1>6

\* What says nothing: the role, the usage, a finish reason.
LEMMA SilentOK ==
  ASSUME NEW s, StreamOK(s), s.phase \in {"none", "going"}, NEW n, SaidBy(s, n, s.source, s.orderly)
  PROVE  StreamOK(n) /\ Speaks(s, n)
<1>1. FieldsOK(s) /\ OpenOK(s) /\ ToolsOK(s) /\ SourceOK(s) /\ HoldsOK(s)
  BY DEF StreamOK
<1>2. FieldsOK(n)
  <2>1. n.orderly \in BOOLEAN
    BY <1>1 DEF SaidBy, FieldsOK
  <2> QED BY <1>1, <2>1 DEF FieldsOK, SaidBy
<1>3. OpenOK(n) /\ ToolsOK(n) /\ HoldsOK(n)
  BY <1>1 DEF SaidBy, OpenOK, ToolsOK, HoldsOK
<1>4. SourceOK(n)
  <2>1. n.orderly => s.orderly
    BY DEF SaidBy
  <2> QED BY <1>1, <2>1 DEF SaidBy, SourceOK
<1>5. SameBlocks(s, n) /\ ToldRightly(s, n)
  <2>1. n.orderly => s.orderly
    BY DEF SaidBy
  <2> QED BY <2>1 DEF SaidBy, SameBlocks, ToldRightly
<1> QED BY <1>2, <1>3, <1>4, <1>5 DEF StreamOK, Speaks, SaidBy

\* feed(): any part of a chunk.
LEMMA FeedOK ==
  ASSUME NEW s, StreamOK(s), s.phase \in {"none", "going"}, NEW p \in Parts
  PROVE  StreamOK(Feed(s, p)) /\ Speaks(s, Feed(s, p))
<1> DEFINE b == Start(s)
           back(src) == src \in Tools /\ b.source # src /\ b.tools[src] # Nothing
           kept(src) == b.orderly /\ ~back(src)
<1>1. SaidBy(s, b, s.source, s.orderly)
  BY StartIs DEF SaidBy
<1>2. s.orderly \in BOOLEAN
  BY DEF StreamOK, FieldsOK
<1>3. CASE p.is \in {"thinking", "text"}
  <2>1. Feed(s, p) = Say(SaidTo(s, p.is, kept(p.is)), p.is)
    BY <1>3 DEF Feed, SaidTo
  <2>2. kept(p.is) \in BOOLEAN /\ (kept(p.is) => s.orderly)
    BY <1>1, <1>2 DEF SaidBy
  <2> HIDE DEF kept
  <2> QED BY <1>3, <2>1, <2>2, SayOK
<1>4. CASE p.is = "tool"
  <2>1. Feed(s, p) = Call(SaidTo(s, p.tool, kept(p.tool)), p.tool, p.args)
    BY <1>4 DEF Feed, SaidTo
  <2>2. p.tool \in Tools /\ p.args \in BOOLEAN
    BY <1>4 DEF Parts
  <2>3. kept(p.tool) \in BOOLEAN
    BY <1>1, <1>2 DEF SaidBy
  <2>4. kept(p.tool) => s.orderly /\ (s.tools[p.tool] = Nothing \/ s.source = p.tool)
    BY <1>1, <2>2 DEF SaidBy
  <2> HIDE DEF kept
  <2> QED BY <2>1, <2>2, <2>3, <2>4, CallOK
<1>5. CASE p.is = "finish"
  <2>1. SaidBy(s, Feed(s, p), s.source, s.orderly)
    BY <1>1, <1>5 DEF Feed, SaidBy, NewStream
  <2> QED BY <2>1, SilentOK
<1>6. CASE p.is = "empty"
  <2>1. Feed(s, p) = b
    BY <1>6 DEF Feed
  <2> QED BY <1>1, <2>1, SilentOK
<1>7. p.is \in {"thinking", "text", "tool", "finish", "empty"}
  BY DEF Parts
<1> QED BY <1>3, <1>4, <1>5, <1>6, <1>7

\* What end() tells the client.
Finished(s, n) ==
  /\ n.phase = "over" /\ n.open = Nothing
  /\ n.ended = IF s.open = Nothing THEN s.ended ELSE s.ended + 1
  /\ n.begun = s.begun /\ n.told = s.told /\ n.orderly = s.orderly

LEMMA EndOK ==
  ASSUME NEW s, StreamOK(s), s.phase \in {"none", "going"}
  PROVE  StreamOK(End(s)) /\ Finished(s, End(s))
<1> DEFINE b == Start(s)
           c == Close(b)
           n == End(s)
<1>1. SaidBy(s, b, s.source, s.orderly)
  BY StartIs DEF SaidBy
<1>2. n = [c EXCEPT !.phase = "over", !.reason = StopReason(s)]
  BY DEF End
<1> HIDE DEF b, n
<1>3. ClosedBy(b, c)
  BY <1>1, CloseIs DEF SaidBy
<1> HIDE DEF c
<1>4. /\ DOMAIN n = DOMAIN NewStream
      /\ n.kind = Nothing /\ n.open = (IF s.kind = Nothing THEN s.open ELSE Nothing)
      /\ n.ended = (IF s.kind = Nothing THEN s.ended ELSE s.ended + 1)
      /\ n.index = s.index /\ n.begun = s.begun /\ n.tools = s.tools /\ n.told = s.told /\ n.holds = s.holds
      /\ n.phase = "over" /\ n.source = s.source /\ n.orderly = s.orderly
  BY <1>1, <1>2, <1>3 DEF SaidBy, ClosedBy, NewStream
<1>5. FieldsOK(s) /\ OpenOK(s) /\ ToolsOK(s) /\ SourceOK(s) /\ HoldsOK(s)
  BY DEF StreamOK
<1>6. FieldsOK(n)
  <2>1. n.orderly \in BOOLEAN
    BY <1>4, <1>5 DEF FieldsOK
  <2>2. n.ended \in Nat
    BY <1>4, <1>5 DEF FieldsOK
  <2> QED BY <1>4, <1>5, <2>1, <2>2 DEF FieldsOK
<1>7. OpenOK(n)
  BY <1>4, <1>5 DEF OpenOK
<1>8. ToolsOK(n) /\ SourceOK(n)
  BY <1>4, <1>5 DEF ToolsOK, SourceOK
<1>9. HoldsOK(n)
  BY <1>4, <1>5 DEF HoldsOK
<1>10. Finished(s, n)
  <2>1. s.open = Nothing <=> s.kind = Nothing
    BY NothingApart, <1>5 DEF OpenOK
  <2> QED BY <1>4, <2>1 DEF Finished
<1> QED BY <1>6, <1>7, <1>8, <1>9, <1>10 DEF StreamOK, n

-----------------------------------------------------------------------------
(***************************************************************************)
(* The gate.  A stream that has said anything belongs to a request that is *)
(* being streamed, or whose handler is over.                               *)
(***************************************************************************)
Whole(q) == DOMAIN q = DOMAIN NoRequest

Streamed(r) ==
  \/ st[r] = NewStream
  \/ /\ req[r].pc \in {"stream", "done", "killed"}
     /\ req[r].pc = "stream" => st[r].phase \in {"none", "going"}

StreamsInv ==
  /\ DOMAIN req = Requests /\ DOMAIN st = Requests
  /\ \A r \in Requests : Whole(req[r]) /\ StreamOK(st[r]) /\ Streamed(r)

\* What a handler does to its request and its stream.
Moves(r) ==
  /\ DOMAIN req' = Requests /\ DOMAIN st' = Requests
  /\ \A u \in Requests \ {r} : req'[u] = req[u] /\ st'[u] = st[u]
  /\ Whole(req'[r])
  /\ \/ st[r] = NewStream /\ st'[r] = st[r]
     \/ st'[r] = st[r] /\ req[r].pc = "stream" /\ req'[r].pc = "done"
     \/ req[r].pc = "stream" /\ req'[r] = req[r] /\ \E p \in Parts : st'[r] = Feed(st[r], p)
     \/ req[r].pc = "stream" /\ req'[r].pc = "done" /\ st'[r] = End(st[r])

\* What everything else in the gate does to them.
Stays ==
  /\ DOMAIN req' = Requests /\ st' = st
  /\ \A r \in Requests : Whole(req'[r]) /\ (req'[r].pc = req[r].pc \/ req'[r].pc = "killed")

LEMMA SendsIs ==
  ASSUME NEW q, Whole(q), NEW code
  PROVE  Whole(Sends(q, code)) /\ Sends(q, code).pc = "done"
BY DEF Whole, Sends, NoRequest

LEMMA RefusesIs ==
  ASSUME NEW q, Whole(q), NEW code
  PROVE  Whole(Refuses(q, code)) /\ Refuses(q, code).pc = "done"
BY SendsIs DEF Whole, Refuses, NoRequest

LEMMA RowIs ==
  ASSUME NEW q, Whole(q), NEW status
  PROVE  Whole(Row(q, status)) /\ Row(q, status).pc = "done"
BY DEF Whole, Row, Record, NoRequest

LEMMA ExceptsIs ==
  ASSUME NEW q, Whole(q), NEW e \in Trouble \cup {Broken}
  PROVE  Whole(Excepts(q, e)) /\ Excepts(q, e).pc = "done"
<1> DEFINE t == [q EXCEPT !.trouble = e.is]
<1>1. Whole(t)
  BY DEF Whole, NoRequest
<1>2. e.is \in {"http", "refused", "timeout", "reset", "left", "odd"}
  BY DEF Trouble, Broken
<1>3. Excepts(q, e) = CASE e.is = "http" -> Row(Refuses(t, IF e.code \in Told THEN e.code ELSE 502), e.code)
                       [] e.is \in {"refused", "timeout"} -> Row(Refuses(t, 502), 502)
                       [] e.is \in {"reset", "left"} -> Row(t, 499)
                       [] e.is = "odd" -> Row(t, 200)
  BY DEF Excepts
<1> HIDE DEF t
<1>4. CASE e.is = "http"
  BY <1>1, <1>3, <1>4, RefusesIs, RowIs
<1>5. CASE e.is \in {"refused", "timeout"}
  BY <1>1, <1>3, <1>5, RefusesIs, RowIs
<1>6. CASE e.is \in {"reset", "left"}
  BY <1>1, <1>3, <1>6, RowIs
<1>7. CASE e.is = "odd"
  BY <1>1, <1>3, <1>7, RowIs
<1> QED BY <1>2, <1>4, <1>5, <1>6, <1>7

LEMMA TakesIs ==
  ASSUME NEW q, Whole(q), NEW ids, NEW said
  PROVE  Whole(Takes(q, ids, said))
BY DEF Whole, Takes, NoRequest

\* A step of a request that has no stream yet, and leaves it so.
LEMMA BeforeStream ==
  ASSUME StreamsInv, NEW r \in Requests, st[r] = NewStream, st' = st \/ st' = [st EXCEPT ![r] = NewStream],
         NEW rec, Becomes(r, rec), Whole(rec)
  PROVE  Moves(r)
BY DEF StreamsInv, Becomes, Moves

LEMMA NotYet ==
  ASSUME StreamsInv, NEW r \in Requests, req[r].pc \notin {"stream", "done", "killed"}
  PROVE  st[r] = NewStream /\ Whole(req[r])
BY DEF StreamsInv, Streamed

\* do_GET's steps, and do_POST's until an engine is asked.
LEMMA EarlyMoves ==
  ASSUME StreamsInv, NEW r \in Requests,
         \/ Arrive(r) \/ Stat(r) \/ Load(r) \/ Resolve(r) \/ Reply(r) \/ CountTokens(r)
         \/ Routes(r) \/ Kept(r) \/ Asked(r) \/ Store(r) \/ Listed(r)
  PROVE  Moves(r)
<1>1. /\ req[r].pc \notin {"stream", "done", "killed"}
      /\ st' = st
  BY DEF Arrive, Stat, Load, Resolve, Reply, CountTokens, Routes, Kept, Asked, Store, Listed, Is
<1>2. st[r] = NewStream /\ Whole(req[r])
  BY <1>1, NotYet
<1>3. CASE Arrive(r)
  <2> DEFINE a == budget.asks[r]
             q == [NoRequest EXCEPT !.ask = a, !.want = a.want, !.ever = KeysFile, !.through = KeysFile,
                                    !.torn = (KeysRows = NotJson)]
  <2>1. Whole(q)
    BY DEF Whole, NoRequest
  <2>2. Becomes(r, CASE a.path = "other" -> Sends(q, 404)
                     [] a.path # "other" /\ a.key = None -> Sends(q, 401)
                     [] OTHER            -> [q EXCEPT !.pc = "stat"])
    BY <1>3 DEF Arrive
  <2> HIDE DEF q, a
  <2>3. Whole([q EXCEPT !.pc = "stat"])
    BY <2>1 DEF Whole, NoRequest
  <2> QED BY <1>1, <1>2, <2>1, <2>2, <2>3, SendsIs, BeforeStream
<1>4. CASE Stat(r)
  <2>1. Whole([req[r] EXCEPT !.pc = "load", !.stamp = disk.data[disk.keys].stamp])
    BY <1>2 DEF Whole, NoRequest
  <2> QED BY <1>1, <1>2, <1>4, <2>1, BeforeStream DEF Stat
<1>5. CASE Load(r)
  <2>1. Whole(Sends(req[r], 401)) /\ \A pc : Whole([req[r] EXCEPT !.who = req[r].ask.key, !.pc = pc])
    BY <1>2, SendsIs DEF Whole, NoRequest
  <2>2. PICK rec : Becomes(r, rec) /\ (rec = Sends(req[r], 401) \/ \E pc : rec = [req[r] EXCEPT !.who = req[r].ask.key, !.pc = pc])
    BY <1>5 DEF Load
  <2>3. Whole(rec)
    BY <2>1, <2>2
  <2> QED BY <1>1, <1>2, <2>2, <2>3, BeforeStream
<1>6. CASE Resolve(r)
  <2> DEFINE q == req[r]
             name == Resolved(q.ask.asked)
             called(logged) == [q EXCEPT !.route = AllRoutes[name], !.pc = "call", !.logged = logged]
  <2>1. Whole(Sends(q, 400)) /\ Whole(Sends(q, 404)) /\ \A logged : Whole(called(logged))
    BY <1>2, SendsIs DEF Whole, NoRequest
  <2>2. PICK logged \in BOOLEAN :
          Becomes(r, CASE ~q.ask.body -> Sends(q, 400)
                       [] q.ask.body /\ (name = None \/ name \notin MayUse[q.who]) -> Sends(q, 404)
                       [] OTHER -> called(logged))
    BY <1>6 DEF Resolve
  <2> HIDE DEF q, name, called
  <2>3. Becomes(r, Sends(q, 400)) \/ Becomes(r, Sends(q, 404)) \/ Becomes(r, called(logged))
    BY <2>2
  <2> QED BY <1>1, <1>2, <2>1, <2>3, BeforeStream
<1>7. CASE Reply(r) \/ CountTokens(r)
  <2> DEFINE q == req[r]
             half == [q EXCEPT !.sent = Append(q.sent, 200), !.got = "part"]
  <2>1. Whole(q) /\ Whole(half)
    BY <1>2 DEF Whole, NoRequest
  <2>2. PICK rec : Becomes(r, rec) /\ \E tried \in {q, half} :
                     \/ rec = Row(Sends(tried, 200), 200)
                     \/ \E e \in Trouble \cup {Broken} : rec = Excepts(tried, e)
    <3>1. CASE Reply(r)
      BY <3>1 DEF Reply, WritesOr
    <3>2. CASE CountTokens(r)
      BY <3>2 DEF CountTokens
    <3> QED BY <1>7, <3>1, <3>2
  <2> HIDE DEF q, half
  <2>3. Whole(rec)
    BY <2>1, <2>2, SendsIs, RowIs, ExceptsIs
  <2> QED BY <1>1, <1>2, <2>2, <2>3, BeforeStream
<1>8. CASE Routes(r)
  <2>1. Whole([req[r] EXCEPT !.pc = "list", !.left = {<<n, AllRoutes[n]>> : n \in DOMAIN AllRoutes}, !.oldest = now])
    BY <1>2 DEF Whole, NoRequest
  <2> QED BY <1>1, <1>2, <1>8, <2>1, BeforeStream DEF Routes
<1>9. CASE Kept(r) \/ Store(r)
  <2> DEFINE asking == [req[r] EXCEPT !.pc = "ask", !.since = now, !.waits = req[r].waits + 1]
  <2>1. Whole(asking) /\ \A ids, said : Whole(Takes(req[r], ids, said))
    <3>1. Whole(asking)
      BY <1>2 DEF Whole, NoRequest
    <3> QED BY <1>2, <3>1, TakesIs
  <2>2. PICK rec : Becomes(r, rec) /\ (rec = asking \/ \E ids, said : rec = Takes(req[r], ids, said))
    BY <1>9 DEF Kept, Store
  <2> HIDE DEF asking
  <2>3. Whole(rec)
    BY <2>1, <2>2
  <2> QED BY <1>1, <1>2, <2>2, <2>3, BeforeStream
<1>10. CASE Asked(r)
  <2>1. \A x : Whole([req[r] EXCEPT !.pc = "store", !.answer = x])
    BY <1>2 DEF Whole, NoRequest
  <2>2. PICK x : Becomes(r, [req[r] EXCEPT !.pc = "store", !.answer = x])
    BY <1>10 DEF Asked
  <2> QED BY <1>1, <1>2, <2>1, <2>2, BeforeStream
<1>11. CASE Listed(r)
  <2>1. Whole([Sends(req[r], 200) EXCEPT !.ids = req[r].ids \cap MayUse[req[r].who], !.age = now - req[r].oldest])
    BY <1>2, SendsIs DEF Whole, NoRequest
  <2> QED BY <1>1, <1>2, <1>11, <2>1, BeforeStream DEF Listed
<1> QED BY <1>3, <1>4, <1>5, <1>6, <1>7, <1>8, <1>9, <1>10, <1>11

\* upstream(): the stream is a new one, as it was.
LEMMA UpstreamMoves ==
  ASSUME StreamsInv, NEW r \in Requests, Upstream(r)
  PROVE  Moves(r)
<1>1. st[r] = NewStream /\ Whole(req[r])
  BY NotYet DEF Upstream, Is
<1>2. st' = st \/ st' = [st EXCEPT ![r] = NewStream]
  BY DEF Upstream
<1>3. /\ \A e \in Trouble \cup {Broken} : Whole(Excepts(req[r], e))
      /\ Whole([req[r] EXCEPT !.sent = Append(req[r].sent, 200), !.got = "part", !.pc = "stream"])
      /\ Whole([req[r] EXCEPT !.pc = "reply"])
      /\ \A room : Whole([req[r] EXCEPT !.want = room, !.tries = 1])
  <2>1. \A e \in Trouble \cup {Broken} : Whole(Excepts(req[r], e))
    BY <1>1, ExceptsIs
  <2> QED BY <1>1, <2>1 DEF Whole, NoRequest
<1>4. [is |-> "http", code |-> 400] \in Trouble
  BY DEF Trouble
<1>5. \/ \E e \in Trouble \cup {Broken} : Becomes(r, Excepts(req[r], e))
      \/ Becomes(r, [req[r] EXCEPT !.sent = Append(req[r].sent, 200), !.got = "part", !.pc = "stream"])
      \/ Becomes(r, [req[r] EXCEPT !.pc = "reply"])
      \/ \E room : Becomes(r, [req[r] EXCEPT !.want = room, !.tries = 1])
  BY <1>4 DEF Upstream, WritesOr
<1> QED BY <1>1, <1>2, <1>3, <1>5, BeforeStream

\* A stream that goes on, ends or breaks.
LEMMA StreamMoves ==
  ASSUME StreamsInv, NEW r \in Requests,
         StreamEnds(r) \/ StreamBreaks(r) \/ \E p \in Parts : Chunk(r, p)
  PROVE  Moves(r)
<1>1. req[r].pc = "stream" /\ Whole(req[r]) /\ DOMAIN req = Requests /\ DOMAIN st = Requests
  BY DEF StreamEnds, StreamBreaks, Chunk, Is, StreamsInv
<1>2. \A e \in Trouble \cup {Broken} : Whole(Excepts(req[r], e)) /\ Excepts(req[r], e).pc = "done"
  BY <1>1, ExceptsIs
<1>3. ASSUME NEW rec, Becomes(r, rec), Whole(rec), rec.pc = "done",
             st' = st \/ st' = [st EXCEPT ![r] = End(st[r])]
      PROVE  Moves(r)
  BY <1>1, <1>3 DEF Becomes, Moves
<1>4. CASE StreamBreaks(r)
  BY <1>2, <1>3, <1>4 DEF StreamBreaks
<1>5. CASE StreamEnds(r)
  <2>1. Whole([req[r] EXCEPT !.got = "whole"])
    BY <1>1 DEF Whole, NoRequest
  <2>2. Whole(Row([req[r] EXCEPT !.got = "whole"], 200)) /\ Row([req[r] EXCEPT !.got = "whole"], 200).pc = "done"
    BY <2>1, RowIs
  <2> QED BY <1>2, <1>3, <1>5, <2>2 DEF StreamEnds
<1>6. ASSUME NEW p \in Parts, Chunk(r, p) PROVE Moves(r)
  <2>1. CASE st' = [st EXCEPT ![r] = Feed(st[r], p)] /\ UNCHANGED req
    BY <1>1, <2>1 DEF Moves
  <2> QED BY <1>2, <1>3, <1>6, <2>1 DEF Chunk
<1> QED BY <1>4, <1>5, <1>6

LEMMA HandlerMoves ==
  ASSUME StreamsInv, NEW r \in Requests, Handler(r)
  PROVE  Moves(r)
BY EarlyMoves, UpstreamMoves, StreamMoves DEF Handler

\* Key commands, engines, edits, clients that leave, the gate's restart.
LEMMA TheRestStays ==
  ASSUME StreamsInv, Around \/ \E t \in Terminals : KeyCommand(t)
  PROVE  Stays
<1>1. DOMAIN req = Requests /\ \A r \in Requests : Whole(req[r])
  BY DEF StreamsInv
<1>2. CASE UNCHANGED <<req, st>>
  BY <1>1, <1>2 DEF Stays
<1>3. ASSUME NEW rows, req' = Watch(rows), st' = st PROVE Stays
  BY <1>1, <1>3 DEF Watch, Whole, Stays, NoRequest
<1>4. ASSUME NEW t \in Terminals, KeyCommand(t) PROVE Stays
  BY <1>2, <1>3, <1>4 DEF KeyCommand, KeyRead, KeyOpen, KeyWrite, KeyReplace
<1>5. CASE Restart
  BY <1>1, <1>5 DEF Restart, Whole, Stays, NoRequest
<1>6. ASSUME NEW r \in Requests, Leave(r) PROVE Stays
  BY <1>1, <1>6 DEF Leave, Becomes, Whole, Stays, NoRequest
<1>7. CASE Around
  BY <1>2, <1>5, <1>6, <1>7 DEF Around, EngineChanges, Edit
<1> QED BY <1>4, <1>7

LEMMA GateApart ==
  ASSUME [Next]_vars
  PROVE  UNCHANGED gateVars \/ (\E r \in Requests : Handler(r)) \/ Around \/ (\E t \in Terminals : KeyCommand(t))
BY DEF Next, vars, Tick, GateStep, Commanded

LEMMA StreamsInitially == Init => StreamsInv
<1>1. SUFFICES ASSUME Init PROVE StreamsInv
  OBVIOUS
<1>2. req = [r \in Requests |-> NoRequest] /\ st = [r \in Requests |-> NewStream]
  BY <1>1 DEF Init, GateInit
<1> QED BY <1>2, NewStreamOK DEF StreamsInv, Whole, Streamed

\* Each stream's step, and the invariant, at once.
LEMMA StreamsStep ==
  ASSUME StreamsInv, [Next]_vars
  PROVE  /\ StreamsInv'
         /\ \A r \in Requests : \/ st'[r] = st[r]
                                \/ st[r].phase # "over" /\ Speaks(st[r], st'[r])
                                \/ st[r].phase # "over" /\ Finished(st[r], st'[r])
<1>1. CASE UNCHANGED gateVars
  BY <1>1 DEF gateVars, StreamsInv, Whole, Streamed
<1>2. CASE Around \/ \E t \in Terminals : KeyCommand(t)
  <2>1. Stays
    BY <1>2, TheRestStays
  <2> QED BY <2>1 DEF Stays, StreamsInv, Streamed
<1>3. ASSUME NEW r \in Requests, Handler(r)
      PROVE  /\ StreamsInv'
             /\ \A u \in Requests : \/ st'[u] = st[u]
                                    \/ st[u].phase # "over" /\ Speaks(st[u], st'[u])
                                    \/ st[u].phase # "over" /\ Finished(st[u], st'[u])
  <2>1. Moves(r)
    BY <1>3, HandlerMoves
  <2>2. StreamOK(st[r]) /\ (req[r].pc = "stream" => st[r].phase \in {"none", "going"})
    BY NewStreamOK DEF StreamsInv, Streamed
  <2>3. \/ st'[r] = st[r]
        \/ st[r].phase # "over" /\ Speaks(st[r], st'[r])
        \/ st[r].phase # "over" /\ Finished(st[r], st'[r])
    BY <2>1, <2>2, FeedOK, EndOK DEF Moves
  <2>4. StreamOK(st'[r])
    BY <2>1, <2>2, FeedOK, EndOK DEF Moves
  <2>5. Streamed(r)'
    <3>1. CASE st[r] = NewStream /\ st'[r] = st[r]
      BY <3>1 DEF Streamed
    <3>2. CASE st'[r] = st[r] /\ req[r].pc = "stream" /\ req'[r].pc = "done"
      BY <3>2 DEF Streamed
    <3>3. CASE req[r].pc = "stream" /\ req'[r] = req[r] /\ \E p \in Parts : st'[r] = Feed(st[r], p)
      BY <2>2, <3>3, FeedOK DEF Streamed, Speaks
    <3>4. CASE req[r].pc = "stream" /\ req'[r].pc = "done" /\ st'[r] = End(st[r])
      BY <3>4 DEF Streamed
    <3> QED BY <2>1, <3>1, <3>2, <3>3, <3>4 DEF Moves
  <2>6. \A u \in Requests \ {r} : Whole(req'[u]) /\ StreamOK(st'[u]) /\ Streamed(u)'
    BY <2>1 DEF Moves, StreamsInv, Streamed
  <2> QED BY <2>1, <2>3, <2>4, <2>5, <2>6 DEF Moves, StreamsInv
<1> QED BY <1>1, <1>2, <1>3, GateApart

\* Streams are as the translator leaves them, and belong to requests that are
\* being streamed or are over.
THEOREM StreamsInvariant == Spec => []StreamsInv
<1>1. StreamsInv /\ [Next]_vars => StreamsInv'
  BY StreamsStep
<1> QED BY <1>1, StreamsInitially, PTL DEF Spec

\* A client that puts a streamed answer together by index gets what the engine
\* said (StreamTranslator.feed): no block holds pieces of two things, and no
\* tool call is in two blocks.
THEOREM BlocksAreHeldTogether == Spec => []BlocksHoldTogether
<1>1. StreamsInv => BlocksHoldTogether
  BY DEF StreamsInv, StreamOK, HoldsOK, BlocksHoldTogether
<1> QED BY <1>1, StreamsInvariant, PTL

\* Every stream that is translated implements Message: blocks begin in the
\* order of their index, one at a time, each is ended before the next begins
\* and before the answer is over, and an orderly engine's pieces go to the
\* block that is open (StreamTranslator, App.messages).
THEOREM StreamsAreMessages == Spec => Messages
<1>1. Init => \A r \in Requests : AsMessage(r)!MessageInit
  <2>1. SUFFICES ASSUME Init PROVE \A r \in Requests : AsMessage(r)!MessageInit
    OBVIOUS
  <2>2. \A r \in Requests : st[r] = NewStream
    BY <2>1 DEF Init, GateInit
  <2> QED BY <2>2 DEF AsMessage!MessageInit, NewStream
<1>2. StreamsInv /\ [Next]_vars =>
        [\A r \in Requests : [AsMessage(r)!MessageNext]_(AsMessage(r)!messageVars)]_gateVars
  <2>1. SUFFICES ASSUME StreamsInv, [Next]_vars, NEW r \in Requests
                 PROVE  [AsMessage(r)!MessageNext]_(AsMessage(r)!messageVars)
    OBVIOUS
  <2>2. CASE st'[r] = st[r]
    BY <2>2 DEF AsMessage!messageVars
  <2>3. CASE st[r].phase # "over" /\ Speaks(st[r], st'[r])
    BY <2>3 DEF Speaks, SameBlocks, BeginsBlock, ToldRightly, AsMessage!MessageNext, AsMessage!Speak, AsMessage!SameBlock, AsMessage!NextBlock
  <2>4. CASE st[r].phase # "over" /\ Finished(st[r], st'[r])
    BY <2>4 DEF Finished, AsMessage!MessageNext, AsMessage!Finish
  <2> QED BY <2>1, <2>2, <2>3, <2>4, StreamsStep
<1> QED BY <1>1, <1>2, StreamsInvariant, PTL DEF Spec, Messages
=============================================================================
