------------------------------- MODULE Stream -------------------------------
(***************************************************************************)
(* StreamTranslator (gate/rackgate.py): chat completions chunks in,        *)
(* Messages events out.  A chunk's delta holds reasoning, content and tool *)
(* call pieces, and feed() takes them one after the other, so a chunk with *)
(* several of them is here several parts in a row.  The state is the       *)
(* translator's and, beside it, what the events sent so far have told the  *)
(* client; texts, ids and token counts are left out.                       *)
(***************************************************************************)
EXTENDS Integers

CONSTANTS
  Tools,   \* the engine's tool call indices
  Nothing

Kinds == {"thinking", "text", "tool_use"}

\* "matched" is a "stop" at one of the request's own stop sequences.
Finishes == {"stop", "length", "tool_calls", "matched"}

ASSUME StreamAssumption ==
  /\ Nothing \notin Nat \cup Tools \cup Kinds
  /\ Tools \cap Kinds = {}

StreamState == [
  index   : Nat \cup {-1},                 \* self.index, self.kind: the open block
  kind    : Kinds \cup {Nothing},
  tools   : [Tools -> Nat \cup {Nothing}],    \* the engine's tool index -> our block
  used    : BOOLEAN,                       \* self.used_tools
  finish  : Finishes \cup {Nothing},
  phase   : {"none", "going", "over"},     \* self.started, and end()
  begun   : Nat,                           \* what the client has been told
  ended   : Nat,
  open    : Nat \cup {Nothing},
  told    : Nat \cup {Nothing},
  reason  : {"end_turn", "max_tokens", "tool_use", "stop_sequence", Nothing},
  holds   : SUBSET (Nat \X (Kinds \cup Tools)),   \* which block has got pieces of what
  orderly : BOOLEAN,                       \* the engine has kept to one thing at a time
  source  : Kinds \cup Tools \cup {Nothing}]  \* what it said last

NewStream == [
  index |-> -1, kind |-> Nothing, tools |-> [i \in Tools |-> Nothing], used |-> FALSE, finish |-> Nothing,
  phase |-> "none", begun |-> 0, ended |-> 0, open |-> Nothing, told |-> Nothing, reason |-> Nothing,
  holds |-> {}, orderly |-> TRUE, source |-> Nothing]

\* _start: message_start, before anything else is sent.
Start(s) == IF s.phase = "none" THEN [s EXCEPT !.phase = "going"] ELSE s

\* _close: content_block_stop for the open block, if any.
Close(s) ==
  IF s.kind = Nothing THEN s
  ELSE [s EXCEPT !.kind = Nothing, !.open = Nothing, !.ended = s.ended + 1]

\* Mutant of Open: the open block is not ended.
OpenOnly(s, kind) ==
  [s EXCEPT !.index = s.index + 1, !.kind = kind, !.begun = s.begun + 1, !.open = s.index + 1]

\* _open: the open block is ended, the next one begins.
Open(s, kind) ==
  LET c == Close(s)
  IN [c EXCEPT !.index = c.index + 1, !.kind = kind, !.begun = c.begun + 1, !.open = c.index + 1]

\* content_block_delta.
Delta(s, block, source) == [s EXCEPT !.told = block, !.holds = s.holds \cup {<<block, source>>}]

\* Reasoning and content: another kind of block is opened when it is not open.
Say(s, kind) ==
  LET o == IF s.kind = kind THEN s ELSE Open(s, kind)
  IN Delta(o, o.index, kind)

\* Mutant of Call: arguments go to the last block.
CallToLast(s, i, args) ==
  LET o == IF s.tools[i] = Nothing
           THEN LET b == Open(s, "tool_use") IN [b EXCEPT !.used = TRUE, !.tools[i] = b.index]
           ELSE s
  IN IF args THEN Delta(o, o.index, i) ELSE o

\* A tool call's piece: a block the first time its index is seen; its
\* arguments go to that block, whatever is open.
Call(s, i, args) ==
  LET o == IF s.tools[i] = Nothing
           THEN LET b == Open(s, "tool_use") IN [b EXCEPT !.used = TRUE, !.tools[i] = b.index]
           ELSE s
  IN IF args THEN Delta(o, o.tools[i], i) ELSE o

\* The parts of a chunk: a kind of text, a tool call's piece with or without
\* arguments, nothing at all (the role, the usage), a finish reason.
Parts ==
  [is : {"thinking", "text"}] \cup [is : {"tool"}, tool : Tools, args : BOOLEAN]
    \cup [is : {"empty"}] \cup [is : {"finish"}, why : Finishes]

\* feed().  History: the engine is orderly until it comes back to a tool call
\* after it has said something else.
Feed(s, p) ==
  LET b == Start(s)
      back(src) == src \in Tools /\ b.source # src /\ b.tools[src] # Nothing
      said(src) == [b EXCEPT !.source = src, !.orderly = b.orderly /\ ~back(src)]
  IN CASE p.is \in {"thinking", "text"} -> Say(said(p.is), p.is)
       [] p.is = "tool"   -> Call(said(p.tool), p.tool, p.args)
       [] p.is = "finish" -> [b EXCEPT !.finish = p.why]
       [] OTHER           -> b

\* stop_reason(), and end()'s own rule: an engine that says "stop" after tool
\* calls means them to be used.
StopReason(s) ==
  CASE s.finish = "length"     -> "max_tokens"
    [] s.finish = "tool_calls" -> "tool_use"
    [] s.finish = "matched"    -> "stop_sequence"
    [] OTHER -> IF s.used THEN "tool_use" ELSE "end_turn"

\* end(): the open block is ended, then message_delta and message_stop.
End(s) ==
  LET c == Close(Start(s))
  IN [c EXCEPT !.phase = "over", !.reason = StopReason(s)]
=============================================================================
