---------------------------- MODULE RequestProofs ----------------------------
(***************************************************************************)
(* rack gate's requests, its keys and its cache, for any requests, keys,   *)
(* routes, engines and key commands, on the whole head (HeadNode): every   *)
(* client is answered once (OneAnswer), its usage row says so              *)
(* (UsageTells), it is let in or refused by what keys.json has held since  *)
(* it came (KeysDecide), and a list of models says nothing old (Recent).   *)
(***************************************************************************)
EXTENDS GateProofs, MonitorProofs, FiniteSetTheorems

-----------------------------------------------------------------------------
(***************************************************************************)
(* The inductive invariant, first of a request by itself, then of the      *)
(* files and what the gate knows of them.                                  *)
(***************************************************************************)
Waiting == {"idle", "stat", "load", "resolve", "routes", "list", "ask", "store"}

\* How old a list may be that has asked so often.
Slack(waits) == LiveEvery + AskMax * waits
AgeOK(q) == q.age < Slack(q.waits)

\* The usage row of do_POST's finally tells the answer the client got.
Tells(q, code) ==
  CASE code = 200 -> (q.sent = << 200 >> /\ q.got = "whole") \/ q.trouble = "odd"
    [] code = 499 -> q.gone \/ q.trouble = "reset"
    [] OTHER -> q.sent \in {<<code>>, << 502 >>} \/ (q.sent = << 200 >> /\ q.got = "part")
RowTells(q) ==
  IF q.route = None \/ q.ask.path = "count" \/ ~q.logged THEN q.rows = << >>
  ELSE Len(q.rows) = 1 /\ Tells(q, q.rows[1])

Decided(q) ==
  ~q.torn =>
    /\ q.who # None => q.who \in q.ever
    /\ q.sent = << 401 >> => q.ask.key \notin q.through

\* What a request has sent, told the usage and decided, by where its handler is.
AnswerOK(q) ==
  /\ q.pc \in Waiting \cup {"call", "reply"} => q.sent = << >>
  /\ q.pc = "stream" => q.sent = << 200 >> /\ q.got = "part"
  /\ Len(q.sent) <= 1 \/ (q.gone /\ q.ask.path = "count")
RowsOK(q) ==
  /\ q.pc # "done" => q.rows = << >>
  /\ q.pc \in Waiting => q.route = None
  /\ q.pc \in {"call", "reply", "stream"} => q.route # None
  /\ q.pc = "done" => RowTells(q)
RequestOK(q) ==
  /\ q \in Request /\ AnswerOK(q) /\ RowsOK(q) /\ Decided(q) /\ AgeOK(q)
  /\ q.pc # "idle" => q.ask \in Asks
  /\ q.pc = "store" => q.answer \in [ids : SUBSET Models, said : Nat]
  /\ q.pc \in {"ask", "store"} => q.left # {}

\* The files: a write has a stamp of its own, and the .tmp is another file.
StampOf(i) == disk.data[i].stamp
FilesOK ==
  /\ \A i \in Inodes : StampOf(i) <= disk.clock
  /\ disk.tmp # None => disk.tmp # disk.keys /\ StampOf(disk.tmp) # StampOf(disk.keys)
  /\ \A t \in Terminals :
       /\ term[t].pc = "read" => term[t].fd = None
       /\ term[t].pc \in {"opened", "torn", "mixed", "written"} => term[t].fd \in Inodes
\* What the gate knows of keys.json, it knows by its stamp.
KnownOK ==
  /\ known.stamp # None =>
       /\ known.stamp <= disk.clock
       /\ disk.tmp # None => StampOf(disk.tmp) # known.stamp
       /\ known.stamp = StampOf(disk.keys) /\ KeysRows # NotJson => known.rows = KeysRows
LoadOK(r) ==
  /\ req[r].pc = "load" =>
       /\ lock = r /\ req[r].stamp # None /\ req[r].stamp <= disk.clock
       /\ disk.tmp # None => StampOf(disk.tmp) # req[r].stamp
       /\ req[r].stamp = known.stamp /\ ~req[r].torn =>
            known.rows \subseteq req[r].ever /\ req[r].through \subseteq known.rows
  /\ req[r].pc \in {"stat", "load"} /\ ~req[r].torn =>
       KeysRows # NotJson /\ KeysRows \subseteq req[r].ever /\ req[r].through \subseteq KeysRows

AsksOK == \A r \in Requests : budget.asks[r] \in Asks \cup {None}
KeysInv == FilesOK /\ KnownOK /\ \A r \in Requests : LoadOK(r)

-----------------------------------------------------------------------------
(***************************************************************************)
(* Types: a request with a field replaced.                                 *)
(***************************************************************************)
Pcs == {"idle", "stat", "load", "resolve", "call", "reply", "stream", "routes", "list", "ask",
        "store", "done", "killed"}
Troubles == {"none", "http", "refused", "timeout", "reset", "left", "odd"}
Fields == {"pc", "ask", "stamp", "who", "route", "left", "ids", "since", "answer", "want", "tries", "sent",
           "got", "rows", "logged",
           "gone", "ever", "through", "torn", "oldest", "waits", "age", "trouble"}
Types == [pc |-> Pcs,
  ask |-> Asks \cup {None},
  stamp |-> Nat \cup {None},
  who |-> Keys \cup {None},
  route |-> Route \cup {None},
  left |-> SUBSET (Names \X Route),
  ids |-> SUBSET Names,
  since |-> Nat,
  answer |-> [ids : SUBSET Models, said : Nat] \cup {None},
  want |-> Nat,
  tries |-> 0..1,
  sent |-> Seq(Statuses),
  got |-> {"nothing", "part", "whole"},
  rows |-> Seq(Statuses),
  logged |-> BOOLEAN,
  gone |-> BOOLEAN,
  ever |-> SUBSET Keys,
  through |-> SUBSET Keys,
  torn |-> BOOLEAN,
  oldest |-> Nat,
  waits |-> Nat,
  age |-> Nat,
  trouble |-> Troubles]

LEMMA RequestIs ==
  ASSUME NEW q
  PROVE  q \in Request <=> q = [f \in Fields |-> q[f]] /\ \A f \in Fields : q[f] \in Types[f]
BY DEF Request, Fields, Types, Pcs, Troubles

LEMMA RequestExcept ==
  ASSUME NEW q \in Request, NEW f \in Fields, NEW v \in Types[f]
  PROVE  [q EXCEPT ![f] = v] \in Request
BY RequestIs

LEMMA RequestFields ==
  ASSUME NEW q \in Request
  PROVE  /\ DOMAIN q = DOMAIN NoRequest
         /\ q.pc \in Pcs
         /\ q.ask \in Asks \cup {None}
         /\ q.stamp \in Nat \cup {None}
         /\ q.who \in Keys \cup {None}
         /\ q.route \in Route \cup {None}
         /\ q.left \in SUBSET (Names \X Route)
         /\ q.ids \in SUBSET Names
         /\ q.since \in Nat
         /\ q.answer \in [ids : SUBSET Models, said : Nat] \cup {None}
         /\ q.want \in Nat
         /\ q.tries \in 0..1
         /\ q.sent \in Seq(Statuses)
         /\ q.got \in {"nothing", "part", "whole"}
         /\ q.rows \in Seq(Statuses)
         /\ q.logged \in BOOLEAN
         /\ q.gone \in BOOLEAN
         /\ q.ever \in SUBSET Keys
         /\ q.through \in SUBSET Keys
         /\ q.torn \in BOOLEAN
         /\ q.oldest \in Nat
         /\ q.waits \in Nat
         /\ q.age \in Nat
         /\ q.trouble \in Troubles
<1>1. DOMAIN q = Fields /\ \A f \in Fields : q[f] \in Types[f]
  BY RequestIs
<1>2. DOMAIN NoRequest = Fields
  BY DEF NoRequest, Fields
<1> QED BY <1>1, <1>2 DEF Fields, Types

LEMMA RequestWith ==
  ASSUME NEW q \in Request
  PROVE  /\ \A v \in Pcs : [q EXCEPT !.pc = v] \in Request
         /\ \A v \in Asks \cup {None} : [q EXCEPT !.ask = v] \in Request
         /\ \A v \in Nat \cup {None} : [q EXCEPT !.stamp = v] \in Request
         /\ \A v \in Keys \cup {None} : [q EXCEPT !.who = v] \in Request
         /\ \A v \in Route \cup {None} : [q EXCEPT !.route = v] \in Request
         /\ \A v \in SUBSET (Names \X Route) : [q EXCEPT !.left = v] \in Request
         /\ \A v \in SUBSET Names : [q EXCEPT !.ids = v] \in Request
         /\ \A v \in Nat : [q EXCEPT !.since = v] \in Request
         /\ \A v \in [ids : SUBSET Models, said : Nat] \cup {None} : [q EXCEPT !.answer = v] \in Request
         /\ \A v \in Nat : [q EXCEPT !.want = v] \in Request
         /\ \A v \in 0..1 : [q EXCEPT !.tries = v] \in Request
         /\ \A v \in Seq(Statuses) : [q EXCEPT !.sent = v] \in Request
         /\ \A v \in {"nothing", "part", "whole"} : [q EXCEPT !.got = v] \in Request
         /\ \A v \in Seq(Statuses) : [q EXCEPT !.rows = v] \in Request
         /\ \A v \in BOOLEAN : [q EXCEPT !.logged = v] \in Request
         /\ \A v \in BOOLEAN : [q EXCEPT !.gone = v] \in Request
         /\ \A v \in SUBSET Keys : [q EXCEPT !.ever = v] \in Request
         /\ \A v \in SUBSET Keys : [q EXCEPT !.through = v] \in Request
         /\ \A v \in BOOLEAN : [q EXCEPT !.torn = v] \in Request
         /\ \A v \in Nat : [q EXCEPT !.oldest = v] \in Request
         /\ \A v \in Nat : [q EXCEPT !.waits = v] \in Request
         /\ \A v \in Nat : [q EXCEPT !.age = v] \in Request
         /\ \A v \in Troubles : [q EXCEPT !.trouble = v] \in Request
<1>1. ASSUME NEW v \in Pcs PROVE [q EXCEPT !.pc = v] \in Request
  BY RequestExcept DEF Fields, Types
<1>2. ASSUME NEW v \in Asks \cup {None} PROVE [q EXCEPT !.ask = v] \in Request
  BY RequestExcept DEF Fields, Types
<1>3. ASSUME NEW v \in Nat \cup {None} PROVE [q EXCEPT !.stamp = v] \in Request
  BY RequestExcept DEF Fields, Types
<1>4. ASSUME NEW v \in Keys \cup {None} PROVE [q EXCEPT !.who = v] \in Request
  BY RequestExcept DEF Fields, Types
<1>5. ASSUME NEW v \in Route \cup {None} PROVE [q EXCEPT !.route = v] \in Request
  BY RequestExcept DEF Fields, Types
<1>6. ASSUME NEW v \in SUBSET (Names \X Route) PROVE [q EXCEPT !.left = v] \in Request
  BY RequestExcept DEF Fields, Types
<1>7. ASSUME NEW v \in SUBSET Names PROVE [q EXCEPT !.ids = v] \in Request
  BY RequestExcept DEF Fields, Types
<1>8. ASSUME NEW v \in Nat PROVE [q EXCEPT !.since = v] \in Request
  BY RequestExcept DEF Fields, Types
<1>9. ASSUME NEW v \in [ids : SUBSET Models, said : Nat] \cup {None} PROVE [q EXCEPT !.answer = v] \in Request
  BY RequestExcept DEF Fields, Types
<1>10. ASSUME NEW v \in Nat PROVE [q EXCEPT !.want = v] \in Request
  BY RequestExcept DEF Fields, Types
<1>11. ASSUME NEW v \in 0..1 PROVE [q EXCEPT !.tries = v] \in Request
  BY RequestExcept DEF Fields, Types
<1>12. ASSUME NEW v \in Seq(Statuses) PROVE [q EXCEPT !.sent = v] \in Request
  BY RequestExcept DEF Fields, Types
<1>13. ASSUME NEW v \in {"nothing", "part", "whole"} PROVE [q EXCEPT !.got = v] \in Request
  BY RequestExcept DEF Fields, Types
<1>14. ASSUME NEW v \in Seq(Statuses) PROVE [q EXCEPT !.rows = v] \in Request
  BY RequestExcept DEF Fields, Types
<1>15. ASSUME NEW v \in BOOLEAN PROVE [q EXCEPT !.gone = v] \in Request
  BY RequestExcept DEF Fields, Types
<1>16. ASSUME NEW v \in SUBSET Keys PROVE [q EXCEPT !.ever = v] \in Request
  BY RequestExcept DEF Fields, Types
<1>17. ASSUME NEW v \in SUBSET Keys PROVE [q EXCEPT !.through = v] \in Request
  BY RequestExcept DEF Fields, Types
<1>18. ASSUME NEW v \in BOOLEAN PROVE [q EXCEPT !.torn = v] \in Request
  BY RequestExcept DEF Fields, Types
<1>19. ASSUME NEW v \in Nat PROVE [q EXCEPT !.age = v] \in Request
  BY RequestExcept DEF Fields, Types
<1>20. ASSUME NEW v \in Troubles PROVE [q EXCEPT !.trouble = v] \in Request
  BY RequestExcept DEF Fields, Types
<1>21. ASSUME NEW v \in BOOLEAN PROVE [q EXCEPT !.logged = v] \in Request
  BY RequestExcept DEF Fields, Types
<1>22. ASSUME NEW v \in Nat PROVE [q EXCEPT !.oldest = v] \in Request
  BY RequestExcept DEF Fields, Types
<1>23. ASSUME NEW v \in Nat PROVE [q EXCEPT !.waits = v] \in Request
  BY RequestExcept DEF Fields, Types
<1> QED BY <1>1, <1>2, <1>3, <1>4, <1>5, <1>6, <1>7, <1>8, <1>9, <1>10, <1>11, <1>12, <1>13, <1>14, <1>15,
           <1>16, <1>17, <1>18, <1>19, <1>20, <1>21, <1>22, <1>23

LEMMA SlackGrows ==
  ASSUME NEW w \in Nat
  PROVE  Slack(w) \in Nat /\ Slack(w) >= LiveEvery /\ Slack(w + 1) = Slack(w) + AskMax
<1>1. AskMax \in Nat /\ LiveEvery \in Nat
  BY GateAssumption
<1>2. AskMax * w \in Nat /\ AskMax * (w + 1) = AskMax * w + AskMax
  BY <1>1
<1> QED BY <1>1, <1>2 DEF Slack

LEMMA SendsTyped ==
  ASSUME NEW q \in Request, NEW code \in Statuses
  PROVE  Sends(q, code) \in Request
<1>1. Append(q.sent, code) \in Seq(Statuses) /\ "whole" \in {"nothing", "part", "whole"} /\ "done" \in Pcs
  BY RequestFields DEF Pcs
<1> QED BY <1>1, RequestWith DEF Sends

LEMMA RowTyped ==
  ASSUME NEW q \in Request, NEW code \in Statuses
  PROVE  Row(q, code) \in Request
<1> DEFINE d == [q EXCEPT !.pc = "done"]
<1>1. d \in Request
  BY RequestWith DEF Pcs
<1>2. Append(d.rows, code) \in Seq(Statuses)
  BY <1>1, RequestFields
<1>3. Row(q, code) = IF q.ask.path = "count" \/ ~d.logged THEN d ELSE [d EXCEPT !.rows = Append(d.rows, code)]
  BY DEF Row, Record
<1> HIDE DEF d
<1> QED BY <1>1, <1>2, <1>3, RequestWith

\* What an operator changes of a request, for the parts of RequestOK.
LEMMA SendsIsOK ==
  ASSUME NEW q, RequestOK(q), q.pc \in Waiting, q.ask \in Asks, NEW code \in Statuses,
         code = 401 => q.torn \/ q.ask.key \notin q.through
  PROVE  RequestOK(Sends(q, code))
<1> DEFINE n == Sends(q, code)
<1>1. q \in Request /\ DOMAIN q = DOMAIN NoRequest /\ q.sent = << >> /\ q.rows = << >> /\ q.route = None
  BY RequestFields DEF RequestOK, AnswerOK, RowsOK, Waiting
<1>2. /\ n.sent = <<code>> /\ n.pc = "done" /\ n.rows = << >> /\ n.route = None /\ n.age = q.age /\ n.waits = q.waits
      /\ n.ask = q.ask /\ n.torn = q.torn /\ n.who = q.who /\ n.ever = q.ever /\ n.through = q.through
  BY <1>1 DEF Sends, NoRequest
<1>3. n \in Request
  BY <1>1, SendsTyped
<1> HIDE DEF n
<1>4. AnswerOK(n) /\ RowsOK(n)
  BY <1>2 DEF AnswerOK, RowsOK, RowTells, Waiting
<1>5. Decided(n) /\ AgeOK(n)
  BY <1>2 DEF Decided, AgeOK, RequestOK
<1> QED BY <1>2, <1>3, <1>4, <1>5 DEF RequestOK, n

RowLike(q, n, code) ==
  /\ n.rows = (IF q.ask.path = "count" \/ ~q.logged THEN q.rows ELSE Append(q.rows, code)) /\ n.logged = q.logged
  /\ n.pc = "done" /\ n.sent = q.sent /\ n.got = q.got /\ n.route = q.route /\ n.gone = q.gone
  /\ n.trouble = q.trouble /\ n.ask = q.ask /\ n.age = q.age /\ n.waits = q.waits
  /\ n.torn = q.torn /\ n.who = q.who /\ n.ever = q.ever /\ n.through = q.through

LEMMA RowFields ==
  ASSUME NEW q \in Request, NEW code
  PROVE  RowLike(q, Row(q, code), code)
BY RequestFields DEF Row, Record, NoRequest, RowLike

\* The end of do_POST, when what the client got and the row tell the same.
LEMMA RowIsOK ==
  ASSUME NEW q \in Request, Len(q.sent) <= 1, q.rows = << >>, q.route # None, Decided(q), AgeOK(q),
         q.ask \in Asks, NEW code \in Statuses,
         Tells(q, code)
  PROVE  RequestOK(Row(q, code))
<1> DEFINE n == Row(q, code)
<1>1. RowLike(q, n, code)
  BY RowFields
<1>2. n \in Request
  BY RowTyped
<1> HIDE DEF n
<1>3. RowTells(n)
  <2>1. CASE q.ask.path = "count" \/ ~q.logged
    BY <1>1, <2>1 DEF RowTells, RowLike
  <2>2. CASE ~(q.ask.path = "count" \/ ~q.logged)
    <3>1. Len(n.rows) = 1 /\ n.rows[1] = code
      BY <1>1, <2>2 DEF RowLike
    <3>2. Tells(n, code)
      BY <1>1 DEF Tells, RowLike
    <3> QED BY <1>1, <2>2, <3>1, <3>2 DEF RowTells, RowLike
  <2> QED BY <2>1, <2>2
<1>4. AnswerOK(n) /\ RowsOK(n)
  BY <1>1, <1>3 DEF AnswerOK, RowsOK, Waiting, RowLike
<1>5. Decided(n)
  BY <1>1 DEF Decided, RowLike
<1>6. AgeOK(n)
  BY <1>1 DEF AgeOK, RowLike
<1> QED BY <1>1, <1>2, <1>4, <1>5, <1>6 DEF RequestOK, n, RowLike

\* A request that has been sent to its engine.
AtEngine == {"call", "reply", "stream"}

LEMMA CalledIs ==
  ASSUME NEW q, RequestOK(q), q.pc \in AtEngine
  PROVE  /\ q \in Request /\ DOMAIN q = DOMAIN NoRequest /\ q.ask \in Asks
         /\ q.rows = << >> /\ q.route # None /\ Decided(q) /\ AgeOK(q) /\ Len(q.sent) <= 1
         /\ q.pc \in {"call", "reply"} => q.sent = << >>
         /\ q.pc = "stream" => q.sent = << 200 >> /\ q.got = "part"
<1>1. /\ q \in Request /\ DOMAIN q = DOMAIN NoRequest /\ q.ask \in Asks
      /\ q.rows = << >> /\ q.route # None /\ Decided(q) /\ AgeOK(q)
      /\ q.pc \in {"call", "reply"} => q.sent = << >>
      /\ q.pc = "stream" => q.sent = << 200 >> /\ q.got = "part"
  BY RequestFields DEF RequestOK, AnswerOK, RowsOK, AtEngine, Waiting
<1>2. q.sent = << >> \/ q.sent = << 200 >>
  BY <1>1 DEF AtEngine
<1>3. CASE q.sent = << >>
  BY <1>1, <1>3
<1>4. CASE q.sent = << 200 >>
  BY <1>1, <1>4
<1> QED BY <1>2, <1>3, <1>4

LEMMA WholeAnswerOK ==
  ASSUME NEW q, RequestOK(q), q.pc \in AtEngine
  PROVE  /\ q.pc \in {"call", "reply"} => RequestOK(Row(Sends(q, 200), 200))
         /\ q.pc = "stream" => RequestOK(Row([q EXCEPT !.got = "whole"], 200))
<1>1. /\ q \in Request /\ DOMAIN q = DOMAIN NoRequest /\ q.ask \in Asks
      /\ q.rows = << >> /\ q.route # None /\ Decided(q) /\ AgeOK(q)
      /\ q.pc \in {"call", "reply"} => q.sent = << >>
      /\ q.pc = "stream" => q.sent = << 200 >>
  BY CalledIs
<1>2. ASSUME NEW n \in Request, n.sent = << 200 >>, n.got = "whole", n.rows = q.rows, n.route = q.route,
             n.ask = q.ask, n.age = q.age /\ n.waits = q.waits, n.torn = q.torn, n.who = q.who,
             n.ever = q.ever, n.through = q.through
      PROVE  RequestOK(Row(n, 200))
  <2>1. Decided(n) /\ AgeOK(n)
    BY <1>1, <1>2 DEF Decided, AgeOK
  <2>2. Len(n.sent) <= 1 /\ 200 \in Statuses /\ Tells(n, 200)
    BY <1>2 DEF Statuses, Tells
  <2> QED BY <1>1, <1>2, <2>1, <2>2, RowIsOK
<1>3. CASE q.pc \in {"call", "reply"}
  <2> DEFINE n == Sends(q, 200)
  <2>0. q.sent = << >>
    BY <1>1, <1>3
  <2>1. n \in Request
    BY <1>1, SendsTyped DEF Statuses
  <2>2. /\ n.sent = << 200 >> /\ n.got = "whole" /\ n.rows = q.rows /\ n.route = q.route /\ n.ask = q.ask
        /\ n.age = q.age /\ n.waits = q.waits /\ n.torn = q.torn /\ n.who = q.who /\ n.ever = q.ever /\ n.through = q.through
    BY <1>1, <2>0 DEF Sends, NoRequest
  <2> HIDE DEF n
  <2>3. RequestOK(Row(n, 200))
    BY <1>2, <2>1, <2>2
  <2> QED BY <1>3, <2>3 DEF n
<1>4. CASE q.pc = "stream"
  <2> DEFINE n == [q EXCEPT !.got = "whole"]
  <2>1. n \in Request
    BY <1>1, RequestWith
  <2>2. /\ n.sent = << 200 >> /\ n.got = "whole" /\ n.rows = q.rows /\ n.route = q.route /\ n.ask = q.ask
        /\ n.age = q.age /\ n.waits = q.waits /\ n.torn = q.torn /\ n.who = q.who /\ n.ever = q.ever /\ n.through = q.through
    BY <1>1, <1>4 DEF NoRequest
  <2> HIDE DEF n
  <2>3. RequestOK(Row(n, 200))
    BY <1>2, <2>1, <2>2
  <2> QED BY <1>4, <2>3 DEF n
<1> QED BY <1>3, <1>4 DEF AtEngine

\* What error() leaves alone.
AsBefore(q, n) ==
  /\ n \in Request /\ Len(n.sent) <= 1 /\ n.sent # << 401 >>
  /\ n.rows = q.rows /\ n.route = q.route /\ n.ask = q.ask /\ n.age = q.age /\ n.waits = q.waits
  /\ n.torn = q.torn /\ n.who = q.who /\ n.ever = q.ever /\ n.through = q.through

LEMMA AsBeforeOK ==
  ASSUME NEW q, RequestOK(q), q.pc \in AtEngine, NEW n, AsBefore(q, n), NEW code \in Statuses, Tells(n, code)
  PROVE  RequestOK(Row(n, code))
<1>1. /\ q \in Request /\ q.ask \in Asks
      /\ q.rows = << >> /\ q.route # None /\ Decided(q) /\ AgeOK(q)
  BY CalledIs
<1>2. Decided(n) /\ AgeOK(n)
  BY <1>1 DEF Decided, AgeOK, AsBefore
<1> QED BY <1>1, <1>2, RowIsOK DEF AsBefore

\* error(): says it to a client that has been told nothing yet, and nothing to
\* one whose answer has begun.
LEMMA ErrorIs ==
  ASSUME NEW q, RequestOK(q), q.pc \in AtEngine, NEW trouble \in Troubles,
         NEW code \in Statuses \ {401}
  PROVE  /\ AsBefore(q, Refuses([q EXCEPT !.trouble = trouble], code))
         /\ q.sent = << >> => Refuses([q EXCEPT !.trouble = trouble], code).sent = <<code>>
         /\ q.pc = "stream" => /\ Refuses([q EXCEPT !.trouble = trouble], code).sent = << 200 >>
                               /\ Refuses([q EXCEPT !.trouble = trouble], code).got = "part"
<1> DEFINE t == [q EXCEPT !.trouble = trouble]
           n == Refuses(t, code)
<1>1. /\ q \in Request /\ DOMAIN q = DOMAIN NoRequest
      /\ q.pc \in {"call", "reply"} => q.sent = << >>
      /\ q.pc = "stream" => q.sent = << 200 >> /\ q.got = "part"
  BY CalledIs
<1>2. t \in Request /\ DOMAIN t = DOMAIN NoRequest
  BY <1>1, RequestWith, RequestFields
<1>3. /\ t.sent = q.sent /\ t.got = q.got /\ t.rows = q.rows /\ t.route = q.route
      /\ t.ask = q.ask /\ t.age = q.age /\ t.waits = q.waits /\ t.torn = q.torn /\ t.who = q.who /\ t.ever = q.ever
      /\ t.through = q.through
  BY <1>1 DEF NoRequest
<1>4. n = IF t.sent # << >> THEN [t EXCEPT !.pc = "done"] ELSE Sends(t, code)
  BY DEF Refuses
<1> HIDE DEF t, n
<1>5. CASE q.pc \in {"call", "reply"}
  <2>1. t.sent = << >> /\ q.sent = << >>
    BY <1>1, <1>3, <1>5
  <2>2. n = Sends(t, code)
    BY <1>4, <2>1
  <2>3. n \in Request
    BY <1>2, <2>2, SendsTyped
  <2>4. /\ n.sent = <<code>> /\ n.rows = q.rows /\ n.route = q.route /\ n.ask = q.ask
        /\ n.age = q.age /\ n.waits = q.waits /\ n.torn = q.torn /\ n.who = q.who /\ n.ever = q.ever /\ n.through = q.through
    BY <1>2, <1>3, <2>1, <2>2 DEF Sends, NoRequest
  <2>5. Len(n.sent) <= 1 /\ n.sent # << 401 >>
    BY <2>4
  <2>6. AsBefore(q, n)
    BY <2>3, <2>4, <2>5 DEF AsBefore
  <2>7. q.pc # "stream"
    BY <1>5
  <2> QED BY <2>1, <2>4, <2>6, <2>7 DEF n, t
<1>6. CASE q.pc = "stream"
  <2>1. t.sent = << 200 >> /\ t.sent # << >> /\ q.sent # << >> /\ t.got = "part"
    <3>1. << 200 >> # << >>
      OBVIOUS
    <3>2. q.sent = << 200 >> /\ q.got = "part"
      BY <1>1, <1>6
    <3> QED BY <1>3, <3>1, <3>2
  <2>2. n = [t EXCEPT !.pc = "done"]
    BY <1>4, <2>1
  <2>3. n \in Request
    BY <1>2, <2>2, RequestWith DEF Pcs
  <2>4. /\ n.sent = << 200 >> /\ n.got = "part" /\ n.rows = q.rows /\ n.route = q.route /\ n.ask = q.ask
        /\ n.age = q.age /\ n.waits = q.waits /\ n.torn = q.torn /\ n.who = q.who /\ n.ever = q.ever /\ n.through = q.through
    BY <1>2, <1>3, <2>1, <2>2 DEF NoRequest
  <2>5. Len(n.sent) <= 1 /\ n.sent # << 401 >>
    BY <2>4
  <2>6. AsBefore(q, n)
    BY <2>3, <2>4, <2>5 DEF AsBefore
  <2> QED BY <2>1, <2>4, <2>6 DEF n, t
<1>7. q.pc \in {"call", "reply"} \/ q.pc = "stream"
  BY DEF AtEngine
<1> QED BY <1>5, <1>6, <1>7

\* do_POST's except clauses tell the usage what they tell the client.
LEMMA ExceptsIsOK ==
  ASSUME NEW q, RequestOK(q), q.pc \in AtEngine, NEW e \in Trouble \cup {Broken},
         e.is = "left" => q.gone, q.pc = "stream" => e.is # "http"
  PROVE  RequestOK(Excepts(q, e))
<1> DEFINE t == [q EXCEPT !.trouble = e.is]
<1>1. /\ q \in Request /\ DOMAIN q = DOMAIN NoRequest /\ Len(q.sent) <= 1 /\ q.sent # << 401 >>
      /\ q.sent = << >> \/ q.pc = "stream"
  <2>1. /\ q \in Request /\ DOMAIN q = DOMAIN NoRequest /\ Len(q.sent) <= 1
        /\ q.pc \in {"call", "reply"} => q.sent = << >>
        /\ q.pc = "stream" => q.sent = << 200 >>
    BY CalledIs
  <2>2. CASE q.pc \in {"call", "reply"}
    <3>1. q.sent = << >>
      BY <2>1, <2>2
    <3>2. q.sent # << 401 >>
      BY <3>1
    <3> QED BY <2>1, <3>1, <3>2
  <2>3. CASE q.pc = "stream"
    <3>1. q.sent = << 200 >>
      BY <2>1, <2>3
    <3>2. q.sent # << 401 >>
      BY <3>1
    <3> QED BY <2>1, <2>3, <3>2
  <2> QED BY <2>2, <2>3 DEF AtEngine
<1>2. /\ e.is \in {"http", "refused", "timeout", "reset", "left", "odd"} /\ e.is \in Troubles
      /\ e.is = "http" => e.code \in {400, 404, 422, 429}
  BY DEF Trouble, Broken, Troubles
<1>3. t \in Request
  <2>1. \A v \in Troubles : [q EXCEPT !.trouble = v] \in Request
    BY <1>1, RequestWith
  <2> QED BY <1>2, <2>1
<1>4. AsBefore(q, t) /\ t.gone = q.gone /\ t.trouble = e.is
  BY <1>1, <1>3 DEF NoRequest, AsBefore
<1>5. CASE e.is = "http"
  <2> DEFINE code == IF e.code \in Told THEN e.code ELSE 502
             n == Refuses(t, code)
  <2>1. q.sent = << >>
    BY <1>1, <1>5
  <2>2. code \in Statuses \ {401} /\ code \in {e.code, 502} /\ e.code \in Statuses /\ e.code \notin {200, 499}
    BY <1>2, <1>5 DEF Statuses, Told
  <2>3. Excepts(q, e) = Row(n, e.code)
    BY <1>5 DEF Excepts
  <2> HIDE DEF code
  <2>4. AsBefore(q, n) /\ n.sent = <<code>>
    <3>1. /\ AsBefore(q, Refuses([q EXCEPT !.trouble = e.is], code))
          /\ q.sent = << >> => Refuses([q EXCEPT !.trouble = e.is], code).sent = <<code>>
      BY <1>2, <2>2, ErrorIs
    <3> QED BY <2>1, <3>1
  <2> HIDE DEF n
  <2>5. n.sent \in {<<e.code>>, << 502 >>}
    BY <2>2, <2>4
  <2>6. Tells(n, e.code)
    BY <2>2, <2>5 DEF Tells
  <2> QED BY <2>2, <2>3, <2>4, <2>6, AsBeforeOK
<1>6. CASE e.is \in {"refused", "timeout"}
  <2> DEFINE n == Refuses(t, 502)
  <2>1. Excepts(q, e) = Row(n, 502)
    BY <1>6 DEF Excepts
  <2>2. 502 \in Statuses \ {401} /\ 502 \in Statuses
    BY DEF Statuses
  <2>3. AsBefore(q, n) /\ (n.sent = << 502 >> \/ (n.sent = << 200 >> /\ n.got = "part"))
    <3>1. /\ AsBefore(q, Refuses([q EXCEPT !.trouble = e.is], 502))
          /\ q.sent = << >> => Refuses([q EXCEPT !.trouble = e.is], 502).sent = << 502 >>
          /\ q.pc = "stream" => /\ Refuses([q EXCEPT !.trouble = e.is], 502).sent = << 200 >>
                                /\ Refuses([q EXCEPT !.trouble = e.is], 502).got = "part"
      BY <1>2, <2>2, ErrorIs
    <3> QED BY <1>1, <3>1
  <2> HIDE DEF n
  <2>4. Tells(n, 502)
    BY <2>3 DEF Tells
  <2> QED BY <2>1, <2>2, <2>3, <2>4, AsBeforeOK
<1>7. CASE e.is \in {"reset", "left"}
  <2>1. Excepts(q, e) = Row(t, 499) /\ 499 \in Statuses
    BY <1>7 DEF Excepts, Statuses
  <2>2. Tells(t, 499)
    BY <1>4, <1>7 DEF Tells
  <2> QED BY <1>4, <2>1, <2>2, AsBeforeOK
<1>8. CASE e.is = "odd"
  <2>1. Excepts(q, e) = Row(t, 200) /\ 200 \in Statuses
    BY <1>8 DEF Excepts, Statuses
  <2>2. Tells(t, 200)
    BY <1>4, <1>8 DEF Tells
  <2> QED BY <1>4, <2>1, <2>2, AsBeforeOK
<1> QED BY <1>2, <1>5, <1>6, <1>7, <1>8

-----------------------------------------------------------------------------
(***************************************************************************)
(* The invariant of all requests, and of what is kept for them.            *)
(***************************************************************************)
\* What the gate's parts and what it reads are.
Typed ==
  /\ now \in Nat /\ recipe \in Recipes \cup {None}
  /\ live \in [Engines -> {None} \cup [at : Nat, ids : SUBSET Models, said : Nat]]
  /\ known \in [rows : SUBSET Keys, stamp : Nat \cup {None}]
  /\ lock \in Requests \cup {None}
  /\ config \in Configs
  /\ names \in [Engines -> SUBSET Models]
  /\ disk \in [keys : Inodes, tmp : Inodes \cup {None}, clock : Nat, data : [Inodes -> FileData]]
  /\ term \in [Terminals -> Terminal]

\* A request, what it is about to keep, and how old what it lists is by now.
Fine(q) ==
  /\ RequestOK(q)
  /\ q.pc \in {"ask", "store"} => q.since <= now
  /\ q.pc = "store" => q.answer.said = now
  /\ q.pc \in {"list", "ask", "store"} => q.oldest <= now
  /\ q.pc \in {"list", "store"} => now - q.oldest < Slack(q.waits)
  /\ q.pc = "ask" => (q.since - q.oldest) + AskMax < Slack(q.waits) /\ now - q.since <= AskMax

Kepts == \A e \in Engines : live[e] # None => live[e].at <= live[e].said

GateInv ==
  /\ Typed /\ AsksOK /\ Kepts
  /\ req \in [Requests -> Request] /\ \A r \in Requests : Fine(req[r])

LEMMA KeysTyped ==
  ASSUME Typed
  PROVE  /\ KeysRows \in (SUBSET Keys) \cup {NotJson} /\ KeysFile \in SUBSET Keys
         /\ KeysRows # NotJson => KeysFile = KeysRows
         /\ disk.data[disk.keys].stamp \in Nat
<1>1. disk.data[disk.keys] \in FileData
  BY DEF Typed
<1>2. KeysRows \in (SUBSET Keys) \cup {NotJson} /\ disk.data[disk.keys].stamp \in Nat
  BY <1>1 DEF FileData, KeysRows
<1> QED BY <1>2 DEF KeysFile

LEMMA NoRequestTyped == NoRequest \in Request /\ RequestOK(NoRequest)
<1>1. DOMAIN NoRequest = Fields /\ NoRequest = [f \in Fields |-> NoRequest[f]]
  BY DEF NoRequest, Fields
<1>2. ASSUME NEW f \in Fields PROVE NoRequest[f] \in Types[f]
  <2>1. << >> \in Seq(Statuses) /\ {} \in SUBSET (Names \X Route) /\ 0 \in Nat /\ 0 \in 0..1
    OBVIOUS
  <2>2. /\ NoRequest["pc"] \in Pcs /\ NoRequest["ask"] = None /\ NoRequest["stamp"] = None /\ NoRequest["who"] = None
        /\ NoRequest["route"] = None /\ NoRequest["left"] = {} /\ NoRequest["ids"] = {}
        /\ NoRequest["since"] = 0 /\ NoRequest["answer"] = None /\ NoRequest["want"] = 0
        /\ NoRequest["tries"] = 0 /\ NoRequest["sent"] = << >> /\ NoRequest["got"] = "nothing"
        /\ NoRequest["rows"] = << >> /\ NoRequest["logged"] = TRUE /\ NoRequest["gone"] = FALSE /\ NoRequest["ever"] = {}
        /\ NoRequest["through"] = {} /\ NoRequest["torn"] = FALSE
        /\ NoRequest["oldest"] = 0 /\ NoRequest["waits"] = 0 /\ NoRequest["age"] = 0
        /\ NoRequest["trouble"] \in Troubles
    BY DEF NoRequest, Pcs, Troubles
  <2>3. /\ Types["pc"] = Pcs /\ Types["ask"] = Asks \cup {None} /\ Types["stamp"] = Nat \cup {None}
        /\ Types["who"] = Keys \cup {None} /\ Types["route"] = Route \cup {None}
        /\ Types["left"] = SUBSET (Names \X Route) /\ Types["ids"] = SUBSET Names /\ Types["since"] = Nat
        /\ Types["answer"] = [ids : SUBSET Models, said : Nat] \cup {None} /\ Types["want"] = Nat
        /\ Types["tries"] = 0..1 /\ Types["sent"] = Seq(Statuses) /\ Types["got"] = {"nothing", "part", "whole"}
        /\ Types["rows"] = Seq(Statuses) /\ Types["logged"] = BOOLEAN /\ Types["gone"] = BOOLEAN /\ Types["ever"] = SUBSET Keys
        /\ Types["through"] = SUBSET Keys /\ Types["torn"] = BOOLEAN
        /\ Types["oldest"] = Nat /\ Types["waits"] = Nat /\ Types["age"] = Nat
        /\ Types["trouble"] = Troubles
    BY DEF Types
  <2>4. /\ NoRequest["pc"] \in Types["pc"] /\ NoRequest["ask"] \in Types["ask"]
        /\ NoRequest["stamp"] \in Types["stamp"] /\ NoRequest["who"] \in Types["who"]
        /\ NoRequest["route"] \in Types["route"] /\ NoRequest["left"] \in Types["left"]
        /\ NoRequest["ids"] \in Types["ids"] /\ NoRequest["since"] \in Types["since"]
        /\ NoRequest["answer"] \in Types["answer"] /\ NoRequest["want"] \in Types["want"]
        /\ NoRequest["tries"] \in Types["tries"] /\ NoRequest["sent"] \in Types["sent"]
        /\ NoRequest["got"] \in Types["got"] /\ NoRequest["rows"] \in Types["rows"]
        /\ NoRequest["gone"] \in Types["gone"] /\ NoRequest["ever"] \in Types["ever"]
        /\ NoRequest["through"] \in Types["through"] /\ NoRequest["torn"] \in Types["torn"]
        /\ NoRequest["logged"] \in Types["logged"] /\ NoRequest["oldest"] \in Types["oldest"]
        /\ NoRequest["waits"] \in Types["waits"] /\ NoRequest["age"] \in Types["age"] /\ NoRequest["trouble"] \in Types["trouble"]
    BY <2>1, <2>2, <2>3
  <2> QED BY <2>4 DEF Fields
<1>3. NoRequest \in Request
  BY <1>1, <1>2, RequestIs
<1>4. LiveEvery \in Nat \ {0}
  BY GateAssumption
<1>5. AnswerOK(NoRequest) /\ RowsOK(NoRequest)
  <2>1. NoRequest.pc = "idle" /\ NoRequest.sent = << >> /\ NoRequest.rows = << >> /\ NoRequest.route = None
    BY DEF NoRequest
  <2>2. Len(NoRequest.sent) <= 1
    BY <2>1
  <2> QED BY <2>1, <2>2 DEF AnswerOK, RowsOK, Waiting
<1>6. Decided(NoRequest)
  <2>1. NoRequest.who = None /\ NoRequest.sent = << >>
    BY DEF NoRequest
  <2>2. NoRequest.sent # << 401 >>
    BY <2>1
  <2> QED BY <2>1, <2>2 DEF Decided
<1>7. NoRequest.pc = "idle" /\ AgeOK(NoRequest)
  <2>1. NoRequest.age = 0 /\ NoRequest.waits = 0 /\ NoRequest.pc = "idle"
    BY DEF NoRequest
  <2> QED BY <1>4, <2>1, SlackGrows DEF AgeOK
<1> QED BY <1>3, <1>4, <1>5, <1>6, <1>7 DEF RequestOK

\* A request that goes on, to another place before an engine is asked for it.
Same(q, n) ==
  /\ n.sent = q.sent /\ n.rows = q.rows /\ n.route = q.route /\ n.ask = q.ask
  /\ n.torn = q.torn /\ n.ever = q.ever /\ n.through = q.through

LEMMA OnwardOK ==
  ASSUME NEW q, RequestOK(q), q.pc \in Waiting \ {"idle"}, NEW n \in Request, n.pc \in Waiting \ {"idle"},
         Same(q, n), AgeOK(n), n.who = q.who \/ (~n.torn => n.who \in n.ever),
         n.pc = "store" => n.answer \in [ids : SUBSET Models, said : Nat],
         n.pc \in {"ask", "store"} => n.left # {}
  PROVE  RequestOK(n)
<1>1. q.sent = << >> /\ q.rows = << >> /\ q.route = None /\ q.ask \in Asks /\ Decided(q)
  BY DEF RequestOK, AnswerOK, RowsOK, Waiting
<1>2. AnswerOK(n) /\ RowsOK(n)
  <2>1. n.sent = << >> /\ n.rows = << >> /\ n.route = None
    BY <1>1 DEF Same
  <2>2. Len(n.sent) <= 1
    BY <2>1
  <2>3. n.pc \notin {"done", "call", "reply", "stream"}
    BY DEF Waiting
  <2> QED BY <2>1, <2>2, <2>3 DEF AnswerOK, RowsOK
<1>3. Decided(n)
  <2>1. n.sent = << >>
    BY <1>1 DEF Same
  <2>2. n.sent # << 401 >>
    BY <2>1
  <2> QED BY <1>1, <2>2 DEF Decided, Same
<1> QED BY <1>1, <1>2, <1>3 DEF RequestOK, Same

-----------------------------------------------------------------------------
(***************************************************************************)
(* The steps of a handler, each by itself: what it makes of its request.   *)
(***************************************************************************)
\* What a request that arrives, or goes on, takes over of the keys.
KeysFine(q) ==
  /\ q.pc # "load"
  /\ q.pc = "stat" /\ ~q.torn => KeysRows # NotJson /\ KeysRows \subseteq q.ever /\ q.through \subseteq KeysRows

Proceeds(r) == \E rec : Becomes(r, rec) /\ Fine(rec) /\ KeysFine(rec)

LEMMA ProceedsWhen ==
  ASSUME NEW r, NEW rec, Becomes(r, rec), RequestOK(rec),
         rec.pc \notin {"list", "ask", "store", "stat", "load"}
  PROVE  Proceeds(r)
BY DEF Proceeds, Fine, KeysFine

LEMMA RequestAt ==
  ASSUME GateInv, NEW r \in Requests
  PROVE  RequestOK(req[r]) /\ req[r] \in Request /\ Whole(req[r])
<1>1. RequestOK(req[r])
  BY DEF GateInv, Fine
<1>2. req[r] \in Request
  BY <1>1 DEF RequestOK
<1> QED BY <1>1, <1>2, RequestFields DEF Whole

\* do_GET and do_POST.
LEMMA ArriveProceeds ==
  ASSUME GateInv, NEW r \in Requests, Arrive(r)
  PROVE  Proceeds(r)
<1> DEFINE a == budget.asks[r]
           q1 == [NoRequest EXCEPT !.ask = a]
           q2 == [q1 EXCEPT !.want = a.want]
           q3 == [q2 EXCEPT !.ever = KeysFile]
           q4 == [q3 EXCEPT !.through = KeysFile]
           q == [q4 EXCEPT !.torn = (KeysRows = NotJson)]
           n == [q EXCEPT !.pc = "stat"]
<1>1. a \in Asks /\ a.key \in Keys \cup {None} /\ a.want \in Nat
  <2>1. a \in Asks
    BY DEF GateInv, AsksOK, Arrive
  <2> QED BY <2>1, InputsAssumption
<1>2. KeysFile \in SUBSET Keys /\ (KeysRows = NotJson) \in BOOLEAN
  BY KeysTyped DEF GateInv
<1>3. Becomes(r, CASE a.path = "other" -> Sends(q, 404)
                   [] a.path # "other" /\ a.key = None -> Sends(q, 401)
                   [] OTHER            -> n)
  <2>1. q = [NoRequest EXCEPT !.ask = a, !.want = a.want, !.ever = KeysFile, !.through = KeysFile,
                              !.torn = (KeysRows = NotJson)]
    BY DEF NoRequest
  <2> QED BY <2>1 DEF Arrive
<1>4. q1 \in Request
  <2>1. \A v \in Asks \cup {None} : [NoRequest EXCEPT !.ask = v] \in Request
    BY NoRequestTyped, RequestWith
  <2> QED BY <1>1, <2>1
<1>5. q2 \in Request
  <2> HIDE DEF q1
  <2>1. \A v \in Nat : [q1 EXCEPT !.want = v] \in Request
    BY <1>4, RequestWith
  <2> QED BY <1>1, <2>1
<1>6. q3 \in Request
  <2> HIDE DEF q2
  <2>1. \A v \in SUBSET Keys : [q2 EXCEPT !.ever = v] \in Request
    BY <1>5, RequestWith
  <2> QED BY <1>2, <2>1
<1>7. q4 \in Request
  <2> HIDE DEF q3
  <2>1. \A v \in SUBSET Keys : [q3 EXCEPT !.through = v] \in Request
    BY <1>6, RequestWith
  <2> QED BY <1>2, <2>1
<1>8. q \in Request
  <2> HIDE DEF q4
  <2>1. \A v \in BOOLEAN : [q4 EXCEPT !.torn = v] \in Request
    BY <1>7, RequestWith
  <2> QED BY <1>2, <2>1
<1>9. /\ q.pc = "idle" /\ q.ask = a /\ q.sent = << >> /\ q.rows = << >> /\ q.route = None /\ q.who = None
      /\ q.age = 0 /\ q.ever = KeysFile /\ q.through = KeysFile /\ q.torn = (KeysRows = NotJson)
      /\ DOMAIN q = DOMAIN NoRequest
  BY DEF NoRequest
<1> HIDE DEF q, a
<1>10. n \in Request
  BY <1>8, RequestWith DEF Pcs
<1>11. /\ n.pc = "stat" /\ n.ask = a /\ n.sent = << >> /\ n.rows = << >> /\ n.route = None /\ n.who = None
       /\ n.age = 0 /\ n.ever = KeysFile /\ n.through = KeysFile /\ n.torn = (KeysRows = NotJson)
  BY <1>9 DEF NoRequest
<1> HIDE DEF n
<1>12. ASSUME NEW x \in Request, x.pc \in {"idle", "stat"}, x.ask = a, x.sent = << >>, x.rows = << >>,
              x.route = None, x.who = None, x.age = 0
       PROVE  RequestOK(x)
  <2>1. Len(x.sent) <= 1 /\ x.sent # << 401 >>
    BY <1>12
  <2>2. AnswerOK(x) /\ RowsOK(x)
    BY <1>12, <2>1 DEF AnswerOK, RowsOK, Waiting
  <2>3. Decided(x)
    BY <1>12, <2>1 DEF Decided
  <2>4. AgeOK(x)
    <3>1. x.waits \in Nat /\ LiveEvery \in Nat \ {0}
      BY <1>12, RequestFields, GateAssumption
    <3>2. Slack(x.waits) \in Nat /\ Slack(x.waits) >= LiveEvery
      BY <3>1, SlackGrows
    <3>3. 0 < Slack(x.waits)
      BY <3>1, <3>2
    <3> QED BY <1>12, <3>3 DEF AgeOK
  <2> QED BY <1>1, <1>12, <2>2, <2>3, <2>4 DEF RequestOK
<1>13. RequestOK(q) /\ RequestOK(n)
  BY <1>8, <1>9, <1>10, <1>11, <1>12
<1>14. CASE a.path = "other"
  <2>1. RequestOK(Sends(q, 404))
    <3>1. 404 \in Statuses /\ 404 # 401
      BY DEF Statuses
    <3> QED BY <1>1, <1>9, <1>13, <3>1, SendsIsOK DEF Waiting
  <2>2. Sends(q, 404).pc = "done"
    BY <1>9, SendsIs DEF Whole
  <2>3. Becomes(r, Sends(q, 404))
    BY <1>3, <1>14
  <2> QED BY <2>1, <2>2, <2>3, ProceedsWhen
<1>15. CASE a.path # "other" /\ a.key = None
  <2>1. RequestOK(Sends(q, 401))
    <3>1. 401 \in Statuses /\ q.ask.key \notin q.through
      BY <1>2, <1>9, <1>15, GateAssumption DEF Statuses
    <3> QED BY <1>1, <1>9, <1>13, <3>1, SendsIsOK DEF Waiting
  <2>2. Sends(q, 401).pc = "done"
    BY <1>9, SendsIs DEF Whole
  <2>3. Becomes(r, Sends(q, 401))
    BY <1>3, <1>15
  <2> QED BY <2>1, <2>2, <2>3, ProceedsWhen
<1>16. CASE a.path # "other" /\ a.key # None
  <2>1. KeysFine(n)
    BY <1>11, KeysTyped DEF KeysFine, GateInv
  <2>2. Fine(n)
    BY <1>11, <1>13 DEF Fine
  <2>3. Becomes(r, n)
    BY <1>3, <1>16
  <2> QED BY <2>1, <2>2, <2>3 DEF Proceeds
<1> QED BY <1>14, <1>15, <1>16

\* Keys._load, the stamp.
LEMMA StatIsFine ==
  ASSUME GateInv, NEW r \in Requests, Stat(r)
  PROVE  \E rec : /\ Becomes(r, rec) /\ Fine(rec)
                  /\ rec.pc = "load" /\ rec.stamp = disk.data[disk.keys].stamp
                  /\ rec.torn = req[r].torn /\ rec.ever = req[r].ever /\ rec.through = req[r].through
<1> DEFINE q == req[r]
           m == [q EXCEPT !.pc = "load"]
           n == [m EXCEPT !.stamp = disk.data[disk.keys].stamp]
<1>1. RequestOK(q) /\ q \in Request /\ Whole(q) /\ q.pc = "stat"
  BY RequestAt DEF Stat, Is
<1>2. Becomes(r, n)
  <2>1. n = [q EXCEPT !.pc = "load", !.stamp = disk.data[disk.keys].stamp]
    BY <1>1 DEF Whole, NoRequest
  <2> QED BY <2>1 DEF Stat
<1> HIDE DEF q
<1>3. m \in Request
  BY <1>1, RequestWith DEF Pcs
<1>4. n \in Request
  <2> HIDE DEF m
  <2>1. \A v \in Nat \cup {None} : [m EXCEPT !.stamp = v] \in Request
    BY <1>3, RequestWith
  <2> QED BY <2>1, KeysTyped DEF GateInv
<1>5. /\ n.pc = "load" /\ n.stamp = disk.data[disk.keys].stamp /\ n.who = q.who /\ n.age = q.age /\ n.waits = q.waits
      /\ Same(q, n)
  BY <1>1 DEF Whole, NoRequest, Same
<1> HIDE DEF n
<1>6. RequestOK(n)
  <2>1. AgeOK(n)
    BY <1>1, <1>5 DEF RequestOK, AgeOK
  <2> QED BY <1>1, <1>4, <1>5, <2>1, OnwardOK DEF Waiting
<1> QED BY <1>2, <1>5, <1>6 DEF Fine, Same, q

\* Keys.client: the request is let in, or refused, by rows that lie between
\* what keys.json held throughout and what it ever held.
LEMMA LoadProceeds ==
  ASSUME GateInv, KeysInv, NEW r \in Requests, Load(r)
  PROVE  Proceeds(r)
<1> DEFINE q == req[r]
           rows == IF q.stamp = known.stamp \/ KeysRows = NotJson THEN known.rows ELSE KeysRows
           to == IF q.ask.path = "models" THEN "routes" ELSE "resolve"
           m == [q EXCEPT !.who = q.ask.key]
           n == [m EXCEPT !.pc = to]
<1>1. RequestOK(q) /\ q \in Request /\ Whole(q) /\ q.pc = "load"
  BY RequestAt DEF Load, Is
<1>2. Becomes(r, IF q.ask.key \notin rows THEN Sends(q, 401) ELSE n)
  <2>1. n = [q EXCEPT !.who = q.ask.key, !.pc = to]
    BY <1>1 DEF Whole, NoRequest
  <2> QED BY <2>1 DEF Load
<1>3. ~q.torn => rows \subseteq q.ever /\ q.through \subseteq rows
  BY <1>1 DEF KeysInv, LoadOK
<1>4. q.ask \in Asks /\ q.ask.key \in Keys \cup {None}
  BY <1>1, InputsAssumption DEF RequestOK
<1> HIDE DEF q, rows
<1>5. m \in Request
  <2>1. \A v \in Keys \cup {None} : [q EXCEPT !.who = v] \in Request
    BY <1>1, RequestWith
  <2> QED BY <1>4, <2>1
<1>6. n \in Request
  <2>1. to \in Pcs
    BY DEF Pcs
  <2>2. \A v \in Pcs : [m EXCEPT !.pc = v] \in Request
    BY <1>5, RequestWith
  <2> HIDE DEF m, to
  <2> QED BY <2>1, <2>2
<1>7. n.pc \in {"routes", "resolve"} /\ n.who = q.ask.key /\ n.age = q.age /\ n.waits = q.waits /\ Same(q, n)
  BY <1>1 DEF Whole, NoRequest, Same
<1> HIDE DEF n
<1>8. CASE q.ask.key \notin rows
  <2>1. 401 \in Statuses /\ (q.torn \/ q.ask.key \notin q.through)
    BY <1>3, <1>8 DEF Statuses
  <2>2. RequestOK(Sends(q, 401))
    BY <1>1, <1>4, <2>1, SendsIsOK DEF Waiting
  <2>3. Sends(q, 401).pc = "done"
    BY <1>1, SendsIs
  <2> QED BY <1>2, <1>8, <2>2, <2>3, ProceedsWhen
<1>9. CASE q.ask.key \in rows
  <2>1. AgeOK(n)
    BY <1>1, <1>7 DEF RequestOK, AgeOK
  <2>2. ~n.torn => n.who \in n.ever
    BY <1>3, <1>7, <1>9 DEF Same
  <2>3. RequestOK(n)
    BY <1>1, <1>6, <1>7, <2>1, <2>2, OnwardOK DEF Waiting
  <2> QED BY <1>2, <1>7, <1>9, <2>3, ProceedsWhen
<1> QED BY <1>8, <1>9

\* Routes.all(): names, and routes of the engines there are.
LEMMA RoutesTyped ==
  ASSUME Typed
  PROVE  /\ DOMAIN AllRoutes \subseteq Names
         /\ \A n \in DOMAIN AllRoutes : AllRoutes[n] \in Route
<1> DEFINE own == {NameOf[c] : c \in {recipe} \ {None}}
<1>1. ASSUME NEW n \in own
      PROVE  n \in Names /\ [engine |-> Here, model |-> ModelOf[recipe]] \in Route
  <2>1. recipe \in Recipes /\ n = NameOf[recipe]
    BY <1>1 DEF Typed
  <2>2. NameOf[recipe] \in Names /\ ModelOf[recipe] \in Models /\ Here \in Engines
    BY <2>1, RackAssumption, GateAssumption
  <2> QED BY <2>1, <2>2 DEF Route
<1>2. DOMAIN config.routes \subseteq Names /\ \A n \in DOMAIN config.routes : config.routes[n] \in Route
  BY InputsAssumption DEF Typed
<1>3. AllRoutes = [n \in (DOMAIN config.routes) \cup own |->
                     IF n \in DOMAIN config.routes THEN config.routes[n]
                     ELSE [engine |-> Here, model |-> ModelOf[recipe]]]
  BY DEF AllRoutes
<1> HIDE DEF own
<1> QED BY <1>1, <1>2, <1>3

\* The route a name stands for.
LEMMA ResolveProceeds ==
  ASSUME GateInv, NEW r \in Requests, Resolve(r)
  PROVE  Proceeds(r)
<1> DEFINE q == req[r]
           name == Resolved(q.ask.asked)
<1>1. RequestOK(q) /\ q \in Request /\ Whole(q) /\ q.pc = "resolve"
  BY RequestAt DEF Resolve, Is
<1>0. PICK logged \in BOOLEAN :
        Becomes(r, CASE ~q.ask.body -> Sends(q, 400)
                     [] q.ask.body /\ (name = None \/ name \notin MayUse[q.who]) -> Sends(q, 404)
                     [] OTHER -> [q EXCEPT !.route = AllRoutes[name], !.pc = "call", !.logged = logged])
  BY DEF Resolve
<1> DEFINE m == [q EXCEPT !.route = AllRoutes[name]]
           o == [m EXCEPT !.pc = "call"]
           n == [o EXCEPT !.logged = logged]
<1>2. Becomes(r, CASE ~q.ask.body -> Sends(q, 400)
                   [] q.ask.body /\ (name = None \/ name \notin MayUse[q.who]) -> Sends(q, 404)
                   [] OTHER -> n)
  <2>1. n = [q EXCEPT !.route = AllRoutes[name], !.pc = "call", !.logged = logged]
    BY <1>1 DEF Whole, NoRequest
  <2> QED BY <1>0, <2>1
<1>3. q.ask \in Asks
  BY <1>1 DEF RequestOK
<1>4. name # None => name \in DOMAIN AllRoutes
  BY DEF Resolved
<1> HIDE DEF q, name
<1>5. ASSUME NEW code \in {400, 404}, Becomes(r, Sends(q, code)) PROVE Proceeds(r)
  <2>1. code \in Statuses /\ code # 401
    BY DEF Statuses
  <2>2. RequestOK(Sends(q, code))
    BY <1>1, <1>3, <2>1, SendsIsOK DEF Waiting
  <2>3. Sends(q, code).pc = "done"
    BY <1>1, SendsIs
  <2> QED BY <1>5, <2>2, <2>3, ProceedsWhen
<1>6. ASSUME name # None, Becomes(r, n) PROVE Proceeds(r)
  <2>1. AllRoutes[name] \in Route /\ AllRoutes[name] # None
    BY <1>4, <1>6, RoutesTyped, InputsAssumption DEF GateInv
  <2>2. m \in Request
    <3>1. \A v \in Route \cup {None} : [q EXCEPT !.route = v] \in Request
      BY <1>1, RequestWith
    <3> QED BY <2>1, <3>1
  <2>3. n \in Request
    <3>1. o \in Request
      <4> HIDE DEF m
      <4> QED BY <2>2, RequestWith DEF Pcs
    <3> HIDE DEF o
    <3> QED BY <3>1, RequestWith
  <2>4. /\ n.pc = "call" /\ n.route # None /\ n.sent = q.sent /\ n.rows = q.rows /\ n.ask = q.ask
        /\ n.age = q.age /\ n.waits = q.waits
        /\ n.torn = q.torn /\ n.who = q.who /\ n.ever = q.ever /\ n.through = q.through
    BY <1>1, <2>1 DEF Whole, NoRequest
  <2> HIDE DEF n
  <2>5. q.sent = << >> /\ q.rows = << >>
    BY <1>1 DEF RequestOK, AnswerOK, RowsOK, Waiting
  <2>6. Len(n.sent) <= 1
    BY <2>4, <2>5
  <2>7. AnswerOK(n) /\ RowsOK(n)
    BY <2>4, <2>5, <2>6 DEF AnswerOK, RowsOK, Waiting
  <2>8. Decided(n) /\ AgeOK(n)
    BY <1>1, <2>4 DEF RequestOK, Decided, AgeOK
  <2>9. RequestOK(n)
    BY <1>3, <2>3, <2>4, <2>7, <2>8 DEF RequestOK
  <2> QED BY <1>6, <2>4, <2>9, ProceedsWhen
<1>7. CASE ~q.ask.body
  <2>1. Becomes(r, Sends(q, 400))
    BY <1>2, <1>7
  <2> QED BY <1>5, <2>1
<1>8. CASE q.ask.body /\ (name = None \/ name \notin MayUse[q.who])
  <2>1. Becomes(r, Sends(q, 404))
    BY <1>2, <1>8
  <2> QED BY <1>5, <2>1
<1>9. CASE q.ask.body /\ ~(name = None \/ name \notin MayUse[q.who])
  <2>1. Becomes(r, n) /\ name # None
    BY <1>2, <1>9
  <2> QED BY <1>6, <2>1
<1> QED BY <1>7, <1>8, <1>9

\* What an engine does to a request, and a client that has left.
LEMMA ExceptsProceeds ==
  ASSUME GateInv, NEW r \in Requests, req[r].pc \in AtEngine, NEW e \in Trouble \cup {Broken},
         e.is = "left" => req[r].gone, req[r].pc = "stream" => e.is # "http",
         Becomes(r, Excepts(req[r], e))
  PROVE  Proceeds(r)
<1>1. RequestOK(req[r]) /\ Whole(req[r])
  BY RequestAt
<1>2. RequestOK(Excepts(req[r], e)) /\ Excepts(req[r], e).pc = "done"
  BY <1>1, ExceptsIsOK, ExceptsIs
<1> QED BY <1>2, ProceedsWhen

LEMMA WritesProceeds ==
  ASSUME GateInv, NEW r \in Requests, req[r].pc \in AtEngine,
         NEW okay, RequestOK(okay), okay.pc \notin {"list", "ask", "store", "stat", "load"},
         WritesOr(r, req[r], okay)
  PROVE  Proceeds(r)
<1>1. CASE Becomes(r, okay)
  BY <1>1, ProceedsWhen
<1>2. CASE req[r].gone /\ Becomes(r, Excepts(req[r], Broken))
  <2>1. Broken \in Trouble \cup {Broken} /\ Broken.is = "left"
    BY DEF Broken
  <2> QED BY <1>2, <2>1, ExceptsProceeds
<1> QED BY <1>1, <1>2 DEF WritesOr

\* An engine that answers at all: the stream begins, the answer is to be read,
\* or is asked for again.
LEMMA AnsweredOK ==
  ASSUME NEW q, RequestOK(q), Whole(q), q.pc = "call"
  PROVE  /\ RequestOK([q EXCEPT !.sent = Append(q.sent, 200), !.got = "part", !.pc = "stream"])
         /\ RequestOK([q EXCEPT !.pc = "reply"])
         /\ \A room \in Nat : RequestOK([q EXCEPT !.want = room, !.tries = 1])
<1>1. /\ q \in Request /\ q.sent = << >> /\ q.rows = << >> /\ q.route # None /\ q.ask \in Asks
      /\ Decided(q) /\ AgeOK(q)
  BY CalledIs DEF AtEngine
<1>2. ASSUME NEW n \in Request, n.sent = << >> \/ (n.sent = << 200 >> /\ n.got = "part"),
             n.pc = (IF n.sent = << >> THEN n.pc ELSE "stream"), n.pc \in AtEngine, n.pc = "stream" => n.sent # << >>,
             n.rows = q.rows, n.route = q.route, n.ask = q.ask, n.age = q.age /\ n.waits = q.waits,
             n.torn = q.torn, n.who = q.who, n.ever = q.ever, n.through = q.through
      PROVE  RequestOK(n)
  <2>1. Len(n.sent) <= 1 /\ n.sent # << 401 >>
    <3>1. CASE n.sent = << >>
      BY <3>1
    <3>2. CASE n.sent = << 200 >>
      BY <3>2
    <3> QED BY <1>2, <3>1, <3>2
  <2>2. AnswerOK(n) /\ RowsOK(n)
    BY <1>1, <1>2, <2>1 DEF AnswerOK, RowsOK, Waiting, AtEngine
  <2>3. Decided(n) /\ AgeOK(n)
    BY <1>1, <1>2, <2>1 DEF Decided, AgeOK
  <2> QED BY <1>1, <1>2, <2>2, <2>3 DEF RequestOK, AtEngine
<1>3. RequestOK([q EXCEPT !.sent = Append(q.sent, 200), !.got = "part", !.pc = "stream"])
  <2> DEFINE n1 == [q EXCEPT !.sent = Append(q.sent, 200)]
             n2 == [n1 EXCEPT !.got = "part"]
             n == [n2 EXCEPT !.pc = "stream"]
  <2>1. n1 \in Request
    <3>1. Append(q.sent, 200) \in Seq(Statuses)
      BY <1>1, RequestFields DEF Statuses
    <3>2. \A v \in Seq(Statuses) : [q EXCEPT !.sent = v] \in Request
      BY <1>1, RequestWith
    <3> QED BY <3>1, <3>2
  <2>2. n2 \in Request
    <3> HIDE DEF n1
    <3> QED BY <2>1, RequestWith
  <2>3. n \in Request
    <3> HIDE DEF n2
    <3> QED BY <2>2, RequestWith DEF Pcs
  <2>4. /\ n.sent = << 200 >> /\ n.got = "part" /\ n.pc = "stream" /\ n.rows = q.rows /\ n.route = q.route
        /\ n.ask = q.ask /\ n.age = q.age /\ n.waits = q.waits /\ n.torn = q.torn /\ n.who = q.who /\ n.ever = q.ever
        /\ n.through = q.through
    BY <1>1 DEF Whole, NoRequest
  <2>5. n = [q EXCEPT !.sent = Append(q.sent, 200), !.got = "part", !.pc = "stream"]
    BY DEF Whole, NoRequest
  <2> HIDE DEF n
  <2>6. n.sent # << >>
    BY <2>4
  <2>7. RequestOK(n)
    BY <1>2, <2>3, <2>4, <2>6 DEF AtEngine
  <2> QED BY <2>5, <2>7
<1>4. RequestOK([q EXCEPT !.pc = "reply"])
  <2> DEFINE n == [q EXCEPT !.pc = "reply"]
  <2>1. n \in Request
    BY <1>1, RequestWith DEF Pcs
  <2>2. /\ n.sent = << >> /\ n.pc = "reply" /\ n.rows = q.rows /\ n.route = q.route
        /\ n.ask = q.ask /\ n.age = q.age /\ n.waits = q.waits /\ n.torn = q.torn /\ n.who = q.who /\ n.ever = q.ever
        /\ n.through = q.through
    BY <1>1 DEF Whole, NoRequest
  <2> HIDE DEF n
  <2>3. RequestOK(n)
    BY <1>2, <2>1, <2>2 DEF AtEngine
  <2> QED BY <2>3 DEF n
<1>5. ASSUME NEW room \in Nat PROVE RequestOK([q EXCEPT !.want = room, !.tries = 1])
  <2> DEFINE n1 == [q EXCEPT !.want = room]
             n == [n1 EXCEPT !.tries = 1]
  <2>1. n1 \in Request
    BY <1>1, RequestWith
  <2>2. n \in Request
    <3> HIDE DEF n1
    <3>1. \A v \in 0..1 : [n1 EXCEPT !.tries = v] \in Request
      BY <2>1, RequestWith
    <3> QED BY <3>1
  <2>3. /\ n.sent = << >> /\ n.pc = "call" /\ n.rows = q.rows /\ n.route = q.route
        /\ n.ask = q.ask /\ n.age = q.age /\ n.waits = q.waits /\ n.torn = q.torn /\ n.who = q.who /\ n.ever = q.ever
        /\ n.through = q.through
    BY <1>1 DEF Whole, NoRequest
  <2>4. n = [q EXCEPT !.want = room, !.tries = 1]
    BY DEF Whole, NoRequest
  <2> HIDE DEF n
  <2>5. RequestOK(n)
    BY <1>2, <2>2, <2>3 DEF AtEngine
  <2> QED BY <2>4, <2>5
<1> QED BY <1>3, <1>4, <1>5

LEMMA UpstreamProceeds ==
  ASSUME GateInv, NEW r \in Requests, Upstream(r)
  PROVE  Proceeds(r)
<1> DEFINE q == req[r]
<1>1. RequestOK(q) /\ q \in Request /\ Whole(q) /\ q.pc = "call" /\ q.pc \in AtEngine
  BY RequestAt DEF Upstream, Is, AtEngine
<1>2. \/ \E e \in Trouble : Becomes(r, Excepts(q, e))
      \/ WritesOr(r, q, [q EXCEPT !.sent = Append(q.sent, 200), !.got = "part", !.pc = "stream"])
      \/ Becomes(r, [q EXCEPT !.pc = "reply"])
      \/ \E room \in 0..q.want : Becomes(r, [q EXCEPT !.want = room, !.tries = 1])
  <2>1. [is |-> "http", code |-> 400] \in Trouble
    BY DEF Trouble
  <2> QED BY <2>1 DEF Upstream
<1> HIDE DEF q
<1>3. CASE \E e \in Trouble : Becomes(r, Excepts(q, e))
  <2>1. PICK e \in Trouble : Becomes(r, Excepts(q, e))
    BY <1>3
  <2>2. e.is # "left" /\ q.pc # "stream"
    BY <1>1 DEF Trouble
  <2> QED BY <1>1, <2>1, <2>2, ExceptsProceeds DEF q
<1>4. CASE WritesOr(r, q, [q EXCEPT !.sent = Append(q.sent, 200), !.got = "part", !.pc = "stream"])
  <2> DEFINE n == [q EXCEPT !.sent = Append(q.sent, 200), !.got = "part", !.pc = "stream"]
  <2>1. RequestOK(n)
    BY <1>1, AnsweredOK
  <2>2. n.pc = "stream"
    BY <1>1 DEF Whole, NoRequest
  <2> HIDE DEF n
  <2>3. WritesOr(r, q, n)
    BY <1>4 DEF n
  <2> QED BY <1>1, <2>1, <2>2, <2>3, WritesProceeds DEF q
<1>5. CASE Becomes(r, [q EXCEPT !.pc = "reply"])
  <2>1. RequestOK([q EXCEPT !.pc = "reply"])
    BY <1>1, AnsweredOK
  <2>2. [q EXCEPT !.pc = "reply"].pc = "reply"
    BY <1>1 DEF Whole, NoRequest
  <2> QED BY <1>5, <2>1, <2>2, ProceedsWhen
<1>6. CASE \E room \in 0..q.want : Becomes(r, [q EXCEPT !.want = room, !.tries = 1])
  <2>1. PICK room \in 0..q.want : Becomes(r, [q EXCEPT !.want = room, !.tries = 1])
    BY <1>6
  <2>2. RequestOK([q EXCEPT !.want = room, !.tries = 1])
    <3>1. room \in Nat
      OBVIOUS
    <3> QED BY <1>1, <3>1, AnsweredOK
  <2>3. [q EXCEPT !.want = room, !.tries = 1].pc = "call"
    BY <1>1 DEF Whole, NoRequest
  <2> QED BY <2>1, <2>2, <2>3, ProceedsWhen
<1> QED BY <1>2, <1>3, <1>4, <1>5, <1>6

\* An answer that is read whole.
LEMMA ReplyProceeds ==
  ASSUME GateInv, NEW r \in Requests, Reply(r)
  PROVE  Proceeds(r)
<1> DEFINE q == req[r]
           n == Row(Sends(q, 200), 200)
<1>1. RequestOK(q) /\ Whole(q) /\ q.pc = "reply" /\ q.pc \in AtEngine
  BY RequestAt DEF Reply, Is, AtEngine
<1>2. RequestOK(n) /\ n.pc = "done"
  BY <1>1, WholeAnswerOK, SendsIs, RowIs
<1>3. \/ WritesOr(r, q, n)
      \/ \E e \in Trouble : Becomes(r, Excepts(q, e))
  BY DEF Reply
<1> HIDE DEF n, q
<1>4. CASE WritesOr(r, q, n)
  BY <1>1, <1>2, <1>4, WritesProceeds DEF q
<1>5. CASE \E e \in Trouble : Becomes(r, Excepts(q, e))
  <2>1. PICK e \in Trouble : Becomes(r, Excepts(q, e))
    BY <1>5
  <2>2. e.is # "left" /\ q.pc # "stream"
    BY <1>1 DEF Trouble
  <2> QED BY <1>1, <2>1, <2>2, ExceptsProceeds DEF q
<1> QED BY <1>3, <1>4, <1>5

LEMMA OneMore ==
  ASSUME NEW S, NEW s \in Seq(S), NEW x \in S
  PROVE  Len(Append(s, x)) = Len(s) + 1
OBVIOUS

\* A count whose client has left may be sent twice, and leaves no row.
CountLike(q, n) ==
  /\ n \in Request /\ n.sent # << 401 >> /\ n.gone /\ n.rows = q.rows /\ n.route = q.route
  /\ n.ask = q.ask /\ n.age = q.age /\ n.waits = q.waits
  /\ n.torn = q.torn /\ n.who = q.who /\ n.ever = q.ever /\ n.through = q.through

LEMMA CountIsOK ==
  ASSUME NEW q, RequestOK(q), q.pc = "call", q.ask.path = "count", NEW n, CountLike(q, n),
         NEW code \in Statuses
  PROVE  RequestOK(Row(n, code))
<1> DEFINE d == Row(n, code)
<1>1. /\ q \in Request /\ q.ask \in Asks /\ q.rows = << >> /\ q.route # None /\ Decided(q) /\ AgeOK(q)
  BY CalledIs DEF AtEngine
<1>2. RowLike(n, d, code) /\ d \in Request
  BY RowFields, RowTyped DEF CountLike
<1> HIDE DEF d
<1>3. AnswerOK(d) /\ RowsOK(d)
  BY <1>1, <1>2 DEF AnswerOK, RowsOK, RowTells, RowLike, CountLike, Waiting
<1>4. Decided(d) /\ AgeOK(d) /\ d.ask \in Asks
  BY <1>1, <1>2 DEF Decided, AgeOK, RowLike, CountLike
<1> QED BY <1>1, <1>2, <1>3, <1>4 DEF RequestOK, RowLike, d

LEMMA CountProceeds ==
  ASSUME GateInv, NEW r \in Requests, CountTokens(r)
  PROVE  Proceeds(r)
<1> DEFINE q == req[r]
           n == Row(Sends(q, 200), 200)
           half1 == [q EXCEPT !.sent = Append(q.sent, 200)]
           half == [half1 EXCEPT !.got = "part"]
           left == [half EXCEPT !.trouble = "left"]
<1>1. RequestOK(q) /\ q \in Request /\ Whole(q) /\ q.pc = "call" /\ q.ask.path = "count" /\ q.pc \in AtEngine
  BY RequestAt DEF CountTokens, Is, AtEngine
<1>2. RequestOK(n) /\ n.pc = "done"
  BY <1>1, WholeAnswerOK, SendsIs, RowIs
<1>3. \/ Becomes(r, n)
      \/ q.gone /\ Becomes(r, Excepts(q, Broken))
      \/ q.gone /\ Becomes(r, Row(Sends(half, 200), 200))
      \/ q.gone /\ Becomes(r, Excepts(half, Broken))
  <2>1. half = [q EXCEPT !.sent = Append(q.sent, 200), !.got = "part"]
    BY <1>1 DEF Whole, NoRequest
  <2> QED BY <2>1 DEF CountTokens
<1>4. Excepts(half, Broken) = Row(left, 499)
  BY DEF Excepts, Broken
<1>5. q.sent = << >>
  BY <1>1, CalledIs
<1> HIDE DEF n, q
<1>6. half1 \in Request
  <2>1. Append(q.sent, 200) \in Seq(Statuses)
    BY <1>1, RequestFields DEF Statuses
  <2>2. \A v \in Seq(Statuses) : [q EXCEPT !.sent = v] \in Request
    BY <1>1, RequestWith
  <2> QED BY <2>1, <2>2
<1>7. half \in Request
  <2> HIDE DEF half1
  <2> QED BY <1>6, RequestWith
<1>8. /\ DOMAIN half = DOMAIN NoRequest /\ half.sent = << 200 >> /\ half.gone = q.gone /\ half.rows = q.rows
      /\ half.route = q.route /\ half.ask = q.ask /\ half.age = q.age /\ half.waits = q.waits
      /\ half.torn = q.torn /\ half.who = q.who /\ half.ever = q.ever /\ half.through = q.through
  BY <1>1, <1>5 DEF Whole, NoRequest
<1> HIDE DEF half
<1>9. ASSUME q.gone PROVE RequestOK(Row(Sends(half, 200), 200)) /\ Row(Sends(half, 200), 200).pc = "done"
  <2> DEFINE m == Sends(half, 200)
  <2>1. m \in Request /\ Whole(m)
    BY <1>7, <1>8, SendsTyped, SendsIs DEF Statuses, Whole
  <2>2. /\ m.sent = Append(half.sent, 200) /\ m.gone = q.gone /\ m.rows = q.rows
        /\ m.route = q.route /\ m.ask = q.ask /\ m.age = q.age /\ m.waits = q.waits
        /\ m.torn = q.torn /\ m.who = q.who /\ m.ever = q.ever /\ m.through = q.through
    BY <1>8 DEF Sends, NoRequest
  <2> HIDE DEF m
  <2>3. m.sent # << 401 >>
    <3>1. half.sent \in Seq(Statuses) /\ Len(half.sent) = 1
      BY <1>7, <1>8, RequestFields
    <3>2. Len(Append(half.sent, 200)) = 2
      <4>1. 200 \in Statuses
        BY DEF Statuses
      <4>2. Len(Append(half.sent, 200)) = Len(half.sent) + 1
        BY <3>1, <4>1, OneMore
      <4> QED BY <3>1, <4>2
    <3>3. Len(<< 401 >>) = 1
      OBVIOUS
    <3> QED BY <2>2, <3>2, <3>3
  <2>4. RequestOK(Row(m, 200))
    <3>1. 200 \in Statuses /\ CountLike(q, m)
      BY <1>9, <2>1, <2>2, <2>3 DEF Statuses, CountLike
    <3> QED BY <1>1, <3>1, CountIsOK
  <2>5. Row(m, 200).pc = "done"
    BY <2>1, RowIs
  <2> QED BY <2>4, <2>5 DEF m
<1>10. ASSUME q.gone PROVE RequestOK(Row(left, 499)) /\ Row(left, 499).pc = "done"
  <2>1. left \in Request /\ Whole(left)
    <3>1. \A v \in Troubles : [half EXCEPT !.trouble = v] \in Request
      BY <1>7, RequestWith
    <3>2. left \in Request
      BY <3>1 DEF Troubles
    <3> QED BY <3>2, RequestFields DEF Whole
  <2>2. /\ left.sent = << 200 >> /\ left.gone = q.gone /\ left.rows = q.rows
        /\ left.route = q.route /\ left.ask = q.ask /\ left.age = q.age /\ left.waits = q.waits
        /\ left.torn = q.torn /\ left.who = q.who /\ left.ever = q.ever /\ left.through = q.through
    BY <1>8 DEF NoRequest
  <2> HIDE DEF left
  <2>3. left.sent # << 401 >>
    BY <2>2
  <2>4. RequestOK(Row(left, 499))
    <3>1. 499 \in Statuses /\ CountLike(q, left)
      BY <1>10, <2>1, <2>2, <2>3 DEF Statuses, CountLike
    <3> QED BY <1>1, <3>1, CountIsOK
  <2> QED BY <2>1, <2>4, RowIs
<1>11. CASE Becomes(r, n)
  BY <1>2, <1>11, ProceedsWhen
<1>12. CASE q.gone /\ Becomes(r, Excepts(q, Broken))
  <2>1. Broken \in Trouble \cup {Broken} /\ Broken.is = "left"
    BY DEF Broken
  <2>2. q.pc # "stream"
    BY <1>1
  <2> QED BY <1>1, <1>12, <2>1, <2>2, ExceptsProceeds DEF q
<1>13. CASE q.gone /\ Becomes(r, Row(Sends(half, 200), 200))
  BY <1>9, <1>13, ProceedsWhen
<1>14. CASE q.gone /\ Becomes(r, Excepts(half, Broken))
  BY <1>4, <1>10, <1>14, ProceedsWhen
<1> QED BY <1>3, <1>11, <1>12, <1>13, <1>14

\* A stream goes on, ends or breaks.
LEMMA StreamProceeds ==
  ASSUME GateInv, NEW r \in Requests, StreamEnds(r) \/ StreamBreaks(r) \/ \E p \in Parts : Chunk(r, p)
  PROVE  Proceeds(r) \/ UNCHANGED req
<1> DEFINE q == req[r]
           n == Row([q EXCEPT !.got = "whole"], 200)
<1>1. RequestOK(q) /\ Whole(q) /\ q.pc = "stream" /\ q.pc \in AtEngine
  BY RequestAt DEF StreamEnds, StreamBreaks, Chunk, Is, AtEngine
<1>2. RequestOK(n) /\ n.pc = "done"
  <2>1. Whole([q EXCEPT !.got = "whole"])
    BY <1>1 DEF Whole, NoRequest
  <2> QED BY <1>1, <2>1, WholeAnswerOK, RowIs
<1>3. \/ Becomes(r, n) \/ UNCHANGED req
      \/ q.gone /\ Becomes(r, Excepts(q, Broken))
      \/ \E e \in Trouble : e.is \in {"timeout", "reset", "odd"} /\ Becomes(r, Excepts(q, e))
  BY DEF StreamEnds, StreamBreaks, Chunk
<1> HIDE DEF n, q
<1>4. CASE Becomes(r, n)
  BY <1>2, <1>4, ProceedsWhen
<1>5. CASE q.gone /\ Becomes(r, Excepts(q, Broken))
  <2>1. Broken \in Trouble \cup {Broken} /\ Broken.is = "left"
    BY DEF Broken
  <2> QED BY <1>1, <1>5, <2>1, ExceptsProceeds DEF q
<1>6. CASE \E e \in Trouble : e.is \in {"timeout", "reset", "odd"} /\ Becomes(r, Excepts(q, e))
  <2>1. PICK e \in Trouble : e.is \in {"timeout", "reset", "odd"} /\ Becomes(r, Excepts(q, e))
    BY <1>6
  <2>2. e.is # "left" /\ e.is # "http"
    BY <2>1
  <2> QED BY <1>1, <2>1, <2>2, ExceptsProceeds DEF q
<1> QED BY <1>3, <1>4, <1>5, <1>6

LEMMA RoutesProceeds ==
  ASSUME GateInv, NEW r \in Requests, Routes(r)
  PROVE  Proceeds(r)
<1> DEFINE q == req[r]
           left == {<<n, AllRoutes[n]>> : n \in DOMAIN AllRoutes}
           m == [q EXCEPT !.left = left]
           o == [m EXCEPT !.oldest = now]
           n == [o EXCEPT !.pc = "list"]
<1>1. RequestOK(q) /\ q \in Request /\ Whole(q) /\ q.pc = "routes" /\ now \in Nat
  BY RequestAt DEF Routes, Is, GateInv, Typed
<1>2. Becomes(r, n)
  <2>1. n = [q EXCEPT !.pc = "list", !.left = left, !.oldest = now]
    BY <1>1 DEF Whole, NoRequest
  <2> QED BY <2>1 DEF Routes
<1>3. left \in SUBSET (Names \X Route)
  BY RoutesTyped DEF GateInv
<1> HIDE DEF q, left
<1>4. m \in Request
  <2>1. \A v \in SUBSET (Names \X Route) : [q EXCEPT !.left = v] \in Request
    BY <1>1, RequestWith
  <2> QED BY <1>3, <2>1
<1>5. n \in Request
  <2>1. o \in Request
    <3> HIDE DEF m
    <3>1. \A v \in Nat : [m EXCEPT !.oldest = v] \in Request
      BY <1>4, RequestWith
    <3> QED BY <1>1, <3>1
  <2> HIDE DEF o
  <2> QED BY <2>1, RequestWith DEF Pcs
<1>6. n.pc = "list" /\ n.who = q.who /\ n.age = q.age /\ n.waits = q.waits /\ n.oldest = now /\ Same(q, n)
  BY <1>1 DEF Whole, NoRequest, Same
<1> HIDE DEF n
<1>7. RequestOK(n)
  <2>1. AgeOK(n)
    BY <1>1, <1>6 DEF RequestOK, AgeOK
  <2> QED BY <1>1, <1>5, <1>6, <2>1, OnwardOK DEF Waiting
<1>8. now - n.oldest < Slack(n.waits) /\ n.oldest <= now
  <2>1. q.waits \in Nat /\ LiveEvery \in Nat \ {0}
    BY <1>1, RequestFields, GateAssumption
  <2> QED BY <1>1, <1>6, <2>1, SlackGrows
<1>9. Fine(n) /\ KeysFine(n)
  BY <1>6, <1>7, <1>8 DEF Fine, KeysFine
<1> QED BY <1>2, <1>9 DEF Proceeds

\* The route that is looked at is one of those that are left.
LEMMA NextIs ==
  ASSUME NEW q \in Request, q.left # {}
  PROVE  NextRoute(q) \in q.left /\ NextRoute(q)[1] \in Names /\ NextRoute(q)[2] \in Route /\ NextRoute(q)[2].engine \in Engines
<1>1. NextRoute(q) \in q.left
  BY DEF NextRoute
<1>2. q.left \in SUBSET (Names \X Route)
  BY RequestFields
<1>3. NextRoute(q) \in Names \X Route
  BY <1>1, <1>2
<1> QED BY <1>1, <1>3 DEF Route

\* An answer that is taken was given less than LiveEvery ago.
LEMMA TakesFine ==
  ASSUME NEW q, RequestOK(q), Whole(q), q.pc \in {"list", "store"}, q.left # {},
         now \in Nat, q.oldest <= now, now - q.oldest < Slack(q.waits),
         NEW ids, NEW said \in Nat, now - said < LiveEvery
  PROVE  Fine(Takes(q, ids, said)) /\ KeysFine(Takes(q, ids, said))
<1> DEFINE x == NextRoute(q)
           left == q.left \ {x}
           listed == IF x[2].model \in ids THEN q.ids \cup {x[1]} ELSE q.ids
           oldest == IF said < q.oldest THEN said ELSE q.oldest
           n1 == [q EXCEPT !.pc = "list"]
           n2 == [n1 EXCEPT !.left = left]
           n3 == [n2 EXCEPT !.ids = listed]
           n == [n3 EXCEPT !.oldest = oldest]
<1>1. q \in Request /\ q.oldest \in Nat /\ q.waits \in Nat
  BY RequestFields DEF RequestOK
<1>2. n = Takes(q, ids, said)
  BY DEF Takes, Whole, NoRequest
<1>3. left \in SUBSET (Names \X Route) /\ listed \in SUBSET Names
  <2>1. q.left \in SUBSET (Names \X Route) /\ q.ids \in SUBSET Names /\ x[1] \in Names
    BY <1>1, RequestFields, NextIs
  <2> HIDE DEF x
  <2> QED BY <2>1
<1>4. oldest \in Nat /\ oldest <= now /\ now - oldest < Slack(q.waits)
  <2>1. Slack(q.waits) \in Nat /\ Slack(q.waits) >= LiveEvery /\ LiveEvery \in Nat
    BY <1>1, SlackGrows, GateAssumption
  <2> QED BY <1>1, <2>1
<1> HIDE DEF left, listed, oldest
<1>5. n1 \in Request
  BY <1>1, RequestWith DEF Pcs
<1>6. n2 \in Request
  <2> HIDE DEF n1
  <2>1. \A v \in SUBSET (Names \X Route) : [n1 EXCEPT !.left = v] \in Request
    BY <1>5, RequestWith
  <2> QED BY <1>3, <2>1
<1>7. n3 \in Request
  <2> HIDE DEF n2
  <2>1. \A v \in SUBSET Names : [n2 EXCEPT !.ids = v] \in Request
    BY <1>6, RequestWith
  <2> QED BY <1>3, <2>1
<1>8. n \in Request
  <2> HIDE DEF n3
  <2>1. \A v \in Nat : [n3 EXCEPT !.oldest = v] \in Request
    BY <1>7, RequestWith
  <2> QED BY <1>4, <2>1
<1>9. n.pc = "list" /\ n.who = q.who /\ n.age = q.age /\ n.waits = q.waits /\ n.oldest = oldest /\ Same(q, n)
  BY DEF Whole, NoRequest, Same
<1> HIDE DEF n
<1>10. RequestOK(n)
  <2>1. AgeOK(n)
    BY <1>9 DEF RequestOK, AgeOK
  <2> QED BY <1>8, <1>9, <2>1, OnwardOK DEF Waiting
<1>11. Fine(n) /\ KeysFine(n)
  BY <1>4, <1>9, <1>10 DEF Fine, KeysFine
<1> QED BY <1>2, <1>11

\* engine_models: the answer that is kept, or the engine is asked.
LEMMA KeptProceeds ==
  ASSUME GateInv, NEW r \in Requests, Kept(r)
  PROVE  Proceeds(r)
<1> DEFINE q == req[r]
           e == NextRoute(q)[2].engine
           hit == live[e]
           m == [q EXCEPT !.since = now]
           o == [m EXCEPT !.waits = q.waits + 1]
           n == [o EXCEPT !.pc = "ask"]
<1>1. RequestOK(q) /\ q \in Request /\ Whole(q) /\ q.pc = "list" /\ q.left # {} /\ now \in Nat
  BY RequestAt DEF Kept, Is, GateInv, Typed
<1>0. /\ q.oldest \in Nat /\ q.waits \in Nat /\ q.age \in Nat
      /\ q.oldest <= now /\ now - q.oldest < Slack(q.waits)
  BY <1>1, RequestFields DEF GateInv, Fine
<1>2. Becomes(r, IF hit # None /\ now - hit.at < LiveEvery THEN Takes(q, hit.ids, hit.said) ELSE n)
  <2>1. n = [q EXCEPT !.pc = "ask", !.since = now, !.waits = q.waits + 1]
    BY <1>1 DEF Whole, NoRequest
  <2> QED BY <2>1 DEF Kept
<1>3. e \in Engines
  BY <1>1, NextIs
<1>4. hit # None => hit.at \in Nat /\ hit.said \in Nat /\ hit.at <= hit.said
  <2> HIDE DEF e
  <2>1. hit \in {None} \cup [at : Nat, ids : SUBSET Models, said : Nat]
    BY <1>3 DEF GateInv, Typed
  <2> QED BY <1>3, <2>1 DEF GateInv, Kepts
<1> HIDE DEF q, e, hit
<1>5. CASE hit # None /\ now - hit.at < LiveEvery
  <2>1. now - hit.said < LiveEvery /\ LiveEvery \in Nat
    BY <1>1, <1>4, <1>5, GateAssumption
  <2>2. Fine(Takes(q, hit.ids, hit.said)) /\ KeysFine(Takes(q, hit.ids, hit.said))
    BY <1>0, <1>1, <1>4, <1>5, <2>1, TakesFine
  <2> QED BY <1>2, <1>5, <2>2 DEF Proceeds
<1>6. CASE ~(hit # None /\ now - hit.at < LiveEvery)
  <2>1. m \in Request
    <3>1. \A v \in Nat : [q EXCEPT !.since = v] \in Request
      BY <1>1, RequestWith
    <3> QED BY <1>1, <3>1
  <2>2. n \in Request
    <3>1. o \in Request
      <4> HIDE DEF m
      <4>1. \A v \in Nat : [m EXCEPT !.waits = v] \in Request
        BY <2>1, RequestWith
      <4> QED BY <1>0, <4>1
    <3> HIDE DEF o
    <3> QED BY <3>1, RequestWith DEF Pcs
  <2>3. /\ n.pc = "ask" /\ n.who = q.who /\ n.age = q.age /\ n.waits = q.waits + 1 /\ n.oldest = q.oldest
        /\ n.left = q.left /\ n.since = now /\ Same(q, n)
    BY <1>1 DEF Whole, NoRequest, Same
  <2> HIDE DEF n
  <2>6. Slack(n.waits) = Slack(q.waits) + AskMax /\ Slack(q.waits) \in Nat /\ AskMax \in Nat
    BY <1>0, <2>3, SlackGrows, GateAssumption
  <2>4. RequestOK(n)
    <3>1. AgeOK(n)
      BY <1>0, <1>1, <2>3, <2>6 DEF RequestOK, AgeOK
    <3> QED BY <1>1, <2>2, <2>3, <3>1, OnwardOK DEF Waiting
  <2>7. n.oldest <= now /\ (n.since - n.oldest) + AskMax < Slack(n.waits) /\ now - n.since <= AskMax /\ n.since <= now
    BY <1>0, <1>1, <2>3, <2>6
  <2>5. Fine(n) /\ KeysFine(n)
    BY <2>3, <2>4, <2>7 DEF Fine, KeysFine
  <2> QED BY <1>2, <1>6, <2>5 DEF Proceeds
<1> QED BY <1>5, <1>6

\* The engine's answer.
LEMMA AskedProceeds ==
  ASSUME GateInv, NEW r \in Requests, Asked(r)
  PROVE  Proceeds(r)
<1> DEFINE q == req[r]
<1>1. /\ RequestOK(q) /\ q \in Request /\ Whole(q) /\ q.pc = "ask" /\ q.left # {} /\ now \in Nat /\ q.since <= now
      /\ q.oldest <= now /\ (q.since - q.oldest) + AskMax < Slack(q.waits) /\ now - q.since <= AskMax
  BY RequestAt DEF Asked, Is, GateInv, Typed, Fine, RequestOK
<1>2. NextRoute(q)[2].engine \in Engines
  BY <1>1, NextIs
<1>3. PICK ids \in {names[NextRoute(q)[2].engine], {}} :
        Becomes(r, [q EXCEPT !.pc = "store", !.answer = [ids |-> ids, said |-> now]])
  BY DEF Asked
<1>4. ids \in SUBSET Models
  BY <1>2 DEF GateInv, Typed
<1> DEFINE a == [ids |-> ids, said |-> now]
           m == [q EXCEPT !.answer = a]
           n == [m EXCEPT !.pc = "store"]
<1>5. Becomes(r, n)
  <2>1. n = [q EXCEPT !.pc = "store", !.answer = a]
    BY <1>1 DEF Whole, NoRequest
  <2> QED BY <1>3, <2>1
<1> HIDE DEF q
<1>6. a \in [ids : SUBSET Models, said : Nat] /\ a.said = now
  BY <1>1, <1>4
<1> HIDE DEF a
<1>8. m \in Request
  <2>1. \A v \in [ids : SUBSET Models, said : Nat] \cup {None} : [q EXCEPT !.answer = v] \in Request
    BY <1>1, RequestWith
  <2> QED BY <1>6, <2>1
<1>9. n \in Request
  <2> HIDE DEF m
  <2> QED BY <1>8, RequestWith DEF Pcs
<1>10. /\ n.pc = "store" /\ n.who = q.who /\ n.age = q.age /\ n.waits = q.waits /\ n.left = q.left /\ n.since = q.since
       /\ n.oldest = q.oldest /\ n.answer = a /\ Same(q, n)
  BY <1>1 DEF Whole, NoRequest, Same
<1> HIDE DEF n
<1>11. RequestOK(n)
  <2>1. AgeOK(n)
    BY <1>1, <1>10 DEF RequestOK, AgeOK
  <2> QED BY <1>1, <1>6, <1>9, <1>10, <2>1, OnwardOK DEF Waiting
<1>13. now - n.oldest < Slack(n.waits)
  <2>1. q.waits \in Nat /\ q.oldest \in Nat /\ q.since \in Nat /\ AskMax \in Nat /\ Slack(q.waits) \in Nat
    BY <1>1, RequestFields, GateAssumption, SlackGrows
  <2>2. now - q.oldest < Slack(q.waits)
    BY <1>1, <2>1
  <2> QED BY <1>10, <2>2
<1>12. Fine(n) /\ KeysFine(n)
  BY <1>1, <1>6, <1>10, <1>11, <1>13 DEF Fine, KeysFine
<1> QED BY <1>5, <1>12 DEF Proceeds

\* What is kept was said after it was asked for.
LEMMA StoreProceeds ==
  ASSUME GateInv, NEW r \in Requests, Store(r)
  PROVE  /\ Proceeds(r)
         /\ live' \in [Engines -> {None} \cup [at : Nat, ids : SUBSET Models, said : Nat]]
         /\ \A e \in Engines : live'[e] # None => live'[e].at <= live'[e].said
<1> DEFINE q == req[r]
           e == NextRoute(q)[2].engine
           kept == [at |-> q.since, ids |-> q.answer.ids, said |-> q.answer.said]
<1>1. /\ RequestOK(q) /\ q \in Request /\ Whole(q) /\ q.pc = "store" /\ q.left # {} /\ now \in Nat
      /\ q.since <= now /\ q.answer \in [ids : SUBSET Models, said : Nat] /\ q.answer.said = now
      /\ q.oldest <= now /\ now - q.oldest < Slack(q.waits)
  BY RequestAt DEF Store, Is, GateInv, Typed, Fine, RequestOK
<1>2. /\ Becomes(r, Takes(q, q.answer.ids, q.answer.said))
      /\ live' = [live EXCEPT ![e] = kept]
  BY DEF Store
<1>3. q.since \in Nat /\ q.answer \in [ids : SUBSET Models, said : Nat] /\ e \in Engines
  <2>1. NextRoute(q)[2].engine \in Engines
    BY <1>1, NextIs
  <2> QED BY <1>1, <2>1, RequestFields
<1> HIDE DEF q, e
<1>4. Proceeds(r)
  <2>1. now - q.answer.said < LiveEvery
    BY <1>1, GateAssumption
  <2>2. Fine(Takes(q, q.answer.ids, q.answer.said)) /\ KeysFine(Takes(q, q.answer.ids, q.answer.said))
    BY <1>1, <1>3, <2>1, TakesFine
  <2> QED BY <1>2, <2>2 DEF Proceeds
<1>5. kept \in [at : Nat, ids : SUBSET Models, said : Nat] /\ kept.at <= kept.said
  BY <1>1, <1>3
<1> HIDE DEF kept
<1>6. live' \in [Engines -> {None} \cup [at : Nat, ids : SUBSET Models, said : Nat]]
  BY <1>2, <1>3, <1>5 DEF GateInv, Typed
<1>7. \A x \in Engines : live'[x] # None => live'[x].at <= live'[x].said
  BY <1>2, <1>3, <1>5 DEF GateInv, Typed, Kepts
<1> QED BY <1>4, <1>6, <1>7

\* The list that is answered.
LEMMA ListedProceeds ==
  ASSUME GateInv, NEW r \in Requests, Listed(r)
  PROVE  Proceeds(r)
<1> DEFINE q == req[r]
           m == Sends(q, 200)
           o == [m EXCEPT !.ids = q.ids \cap MayUse[q.who]]
           n == [o EXCEPT !.age = now - q.oldest]
<1>1. /\ RequestOK(q) /\ q \in Request /\ Whole(q) /\ q.pc = "list" /\ q.ask \in Asks
      /\ now \in Nat /\ q.oldest <= now /\ now - q.oldest < Slack(q.waits)
  BY RequestAt DEF Listed, Is, RequestOK, GateInv, Fine, Typed
<1>7. q.oldest \in Nat /\ now - q.oldest \in Nat
  BY <1>1, RequestFields
<1>2. Becomes(r, n)
  <2>1. n = [Sends(q, 200) EXCEPT !.ids = q.ids \cap MayUse[q.who], !.age = now - q.oldest]
    BY <1>1, SendsIs DEF Whole, NoRequest
  <2> QED BY <2>1 DEF Listed
<1> HIDE DEF q
<1>3. RequestOK(m) /\ m \in Request /\ Whole(m) /\ m.pc = "done" /\ m.waits = q.waits
  <2>1. RequestOK(m)
    BY <1>1, SendsIsOK DEF Waiting, Statuses
  <2>2. m.waits = q.waits
    BY <1>1 DEF Sends, Whole, NoRequest
  <2> QED BY <1>1, <2>1, <2>2, SendsIs DEF RequestOK
<1> HIDE DEF m
<1>4. o \in Request
  <2>1. \A v \in SUBSET Names : [m EXCEPT !.ids = v] \in Request
    BY <1>3, RequestWith
  <2>2. q.ids \cap MayUse[q.who] \in SUBSET Names
    BY <1>1, RequestFields
  <2> QED BY <2>1, <2>2
<1>8. n \in Request
  <2> HIDE DEF o
  <2>1. \A v \in Nat : [o EXCEPT !.age = v] \in Request
    BY <1>4, RequestWith
  <2> QED BY <1>7, <2>1
<1>5. /\ n.pc = "done" /\ n.sent = m.sent /\ n.rows = m.rows /\ n.route = m.route /\ n.ask = m.ask
      /\ n.age = now - q.oldest /\ n.waits = m.waits
      /\ n.torn = m.torn /\ n.who = m.who /\ n.ever = m.ever /\ n.through = m.through
      /\ n.got = m.got /\ n.trouble = m.trouble /\ n.gone = m.gone /\ n.logged = m.logged
  BY <1>3 DEF Whole, NoRequest
<1> HIDE DEF n
<1>6. RequestOK(n)
  <2>1. AgeOK(n)
    BY <1>1, <1>3, <1>5 DEF AgeOK
  <2> QED BY <1>3, <1>5, <1>8, <2>1 DEF RequestOK, AnswerOK, RowsOK, RowTells, Tells, Decided
<1> QED BY <1>2, <1>5, <1>6, ProceedsWhen

-----------------------------------------------------------------------------
(***************************************************************************)
(* The handlers' steps, all requests and the keys.                         *)
(***************************************************************************)
\* A request that goes on leaves the others as they are.
LEMMA ProceedsFine ==
  ASSUME GateInv, NEW r \in Requests, NEW rec, Becomes(r, rec), Fine(rec), now' = now
  PROVE  /\ (req \in [Requests -> Request] /\ \A u \in Requests : Fine(req[u]))'
         /\ req'[r] = rec /\ \A u \in Requests \ {r} : req'[u] = req[u]
<1>1. req \in [Requests -> Request] /\ \A u \in Requests : Fine(req[u])
  BY DEF GateInv
<1>2. rec \in Request
  BY DEF Fine, RequestOK
<1>3. req' = [req EXCEPT ![r] = rec]
  BY DEF Becomes
<1>4. req' \in [Requests -> Request] /\ req'[r] = rec /\ \A u \in Requests \ {r} : req'[u] = req[u]
  BY <1>1, <1>2, <1>3
<1>5. ASSUME NEW u \in Requests PROVE Fine(req[u])'
  <2>1. Fine(req'[u])
    BY <1>1, <1>4
  <2> QED BY <2>1 DEF Fine
<1> QED BY <1>4, <1>5

\* What keys, files and the cache are to it.
OfKeys == <<disk, known, lock, term>>

LEMMA ProceedsKeys ==
  ASSUME GateInv, KeysInv, NEW r \in Requests, NEW rec, Becomes(r, rec), Fine(rec), KeysFine(rec),
         UNCHANGED <<OfKeys, now>>
  PROVE  KeysInv'
<1>1. req'[r] = rec /\ \A u \in Requests \ {r} : req'[u] = req[u]
  BY ProceedsFine
<1>2. UNCHANGED <<disk, known, lock, term>>
  BY DEF OfKeys
<1>3. FilesOK' /\ KnownOK'
  BY <1>2 DEF KeysInv, FilesOK, KnownOK, StampOf, KeysRows
<1>4. ASSUME NEW u \in Requests PROVE LoadOK(u)'
  <2>1. CASE u = r
    BY <1>1, <1>2, <2>1 DEF KeysFine, LoadOK, KeysRows
  <2>2. CASE u # r
    <3>1. LoadOK(u) /\ req'[u] = req[u]
      BY <1>1, <2>2 DEF KeysInv
    <3> QED BY <1>2, <3>1 DEF LoadOK, KeysRows, StampOf
  <2> QED BY <2>1, <2>2
<1> QED BY <1>3, <1>4 DEF KeysInv

LEMMA LoadKeys ==
  ASSUME GateInv, KeysInv, NEW r \in Requests, Load(r), NEW rec, Becomes(r, rec), Fine(rec), KeysFine(rec)
  PROVE  KeysInv' /\ known' \in [rows : SUBSET Keys, stamp : Nat \cup {None}]
<1> DEFINE rows == IF req[r].stamp = known.stamp \/ KeysRows = NotJson THEN known.rows ELSE KeysRows
<1>1. /\ known' = [rows |-> rows, stamp |-> req[r].stamp] /\ lock' = None /\ UNCHANGED <<disk, term, now>>
      /\ req[r].pc = "load"
  BY DEF Load, Is, files, shared
<1>2. req'[r] = rec /\ \A u \in Requests \ {r} : req'[u] = req[u]
  BY <1>1, ProceedsFine
<1>3. LoadOK(r) /\ KnownOK /\ FilesOK
  BY DEF KeysInv
<1>4. req[r].stamp \in Nat \cup {None} /\ known \in [rows : SUBSET Keys, stamp : Nat \cup {None}]
  BY RequestAt, RequestFields DEF GateInv, Typed
<1>5. rows \in SUBSET Keys
  BY <1>4, KeysTyped DEF GateInv
<1>6. req[r].stamp = StampOf(disk.keys) /\ KeysRows # NotJson => rows = KeysRows
  BY <1>1, <1>3 DEF KnownOK, LoadOK
<1> HIDE DEF rows
<1>7. FilesOK' /\ KnownOK'
  BY <1>1, <1>3, <1>6 DEF FilesOK, KnownOK, LoadOK, StampOf, KeysRows
<1>8. ASSUME NEW u \in Requests PROVE LoadOK(u)'
  <2>1. CASE u = r
    BY <1>1, <1>2, <2>1 DEF KeysFine, LoadOK, KeysRows
  <2>2. CASE u # r
    <3>1. LoadOK(u) /\ req'[u] = req[u] /\ req[u].pc # "load"
      BY <1>1, <1>2, <1>3, <2>2 DEF KeysInv, LoadOK
    <3> QED BY <1>1, <3>1 DEF LoadOK, KeysRows, StampOf
  <2> QED BY <2>1, <2>2
<1> QED BY <1>1, <1>4, <1>5, <1>7, <1>8 DEF KeysInv

LEMMA StatKeys ==
  ASSUME GateInv, KeysInv, NEW r \in Requests, Stat(r)
  PROVE  KeysInv' /\ (req \in [Requests -> Request] /\ \A u \in Requests : Fine(req[u]))'
<1>1. PICK rec : /\ Becomes(r, rec) /\ Fine(rec)
                 /\ rec.pc = "load" /\ rec.stamp = disk.data[disk.keys].stamp
                 /\ rec.torn = req[r].torn /\ rec.ever = req[r].ever /\ rec.through = req[r].through
  BY StatIsFine
<1>2. lock = None /\ lock' = r /\ UNCHANGED <<disk, known, term, now>> /\ req[r].pc = "stat"
  BY DEF Stat, Is, files, shared
<1>3. /\ (req \in [Requests -> Request] /\ \A u \in Requests : Fine(req[u]))'
      /\ req'[r] = rec /\ \A u \in Requests \ {r} : req'[u] = req[u]
  BY <1>1, <1>2, ProceedsFine
<1>4. FilesOK' /\ KnownOK'
  BY <1>2 DEF KeysInv, FilesOK, KnownOK, StampOf, KeysRows
<1>5. ASSUME NEW u \in Requests PROVE LoadOK(u)'
  <2>1. CASE u = r
    <3>1. LoadOK(r) /\ KnownOK /\ FilesOK /\ rec.stamp = StampOf(disk.keys) /\ disk.keys \in Inodes
      BY <1>1 DEF KeysInv, StampOf, GateInv, Typed
    <3>2. rec.stamp # None
      BY <1>1, KeysTyped, RackAssumption DEF GateInv
    <3>3. rec.stamp <= disk.clock /\ (disk.tmp # None => StampOf(disk.tmp) # rec.stamp)
      BY <3>1 DEF FilesOK
    <3>4. ~rec.torn => KeysRows # NotJson /\ KeysRows \subseteq rec.ever /\ rec.through \subseteq KeysRows
      BY <1>1, <1>2, <3>1 DEF LoadOK
    <3>5. rec.stamp = known.stamp /\ ~rec.torn => known.rows \subseteq rec.ever /\ rec.through \subseteq known.rows
      BY <3>1, <3>2, <3>4 DEF KnownOK
    <3> QED BY <1>1, <1>2, <1>3, <2>1, <3>2, <3>3, <3>4, <3>5 DEF LoadOK, KeysRows, StampOf
  <2>2. CASE u # r
    <3>1. LoadOK(u) /\ req'[u] = req[u] /\ req[u].pc # "load"
      BY <1>2, <1>3, <2>2, GateAssumption DEF KeysInv, LoadOK
    <3> QED BY <1>2, <3>1 DEF LoadOK, KeysRows, StampOf
  <2> QED BY <2>1, <2>2
<1> QED BY <1>3, <1>4, <1>5 DEF KeysInv

\* Every step of a handler.
GateSafe == GateInv /\ KeysInv

LEMMA ProceedsSafe ==
  ASSUME GateSafe, NEW r \in Requests, Proceeds(r), AsksOK',
         UNCHANGED <<OfKeys, config, names, recipe, now>>,
         live' \in [Engines -> {None} \cup [at : Nat, ids : SUBSET Models, said : Nat]],
         \A e \in Engines : live'[e] # None => live'[e].at <= live'[e].said
  PROVE  GateSafe'
<1>1. PICK rec : Becomes(r, rec) /\ Fine(rec) /\ KeysFine(rec)
  BY DEF Proceeds
<1>2. KeysInv' /\ (req \in [Requests -> Request] /\ \A u \in Requests : Fine(req[u]))'
  BY <1>1, ProceedsKeys, ProceedsFine DEF GateSafe
<1>3. Typed' /\ Kepts'
  BY DEF GateSafe, GateInv, Typed, Kepts, OfKeys
<1> QED BY <1>2, <1>3 DEF GateSafe, GateInv

LEMMA HandlerSafe ==
  ASSUME GateSafe, NEW r \in Requests, Handler(r), AsksOK'
  PROVE  GateSafe'
<1> USE DEF shared, gate, files
<1>1. /\ live \in [Engines -> {None} \cup [at : Nat, ids : SUBSET Models, said : Nat]]
      /\ \A e \in Engines : live[e] # None => live[e].at <= live[e].said
  BY DEF GateSafe, GateInv, Typed, Kepts
<1>2. CASE Proceeds(r) /\ UNCHANGED <<live, OfKeys, config, names, recipe, now>>
  BY <1>1, <1>2, ProceedsSafe
<1>3. CASE Arrive(r)
  BY <1>2, <1>3, ArriveProceeds DEF Arrive, OfKeys, GateSafe
<1>4. CASE Stat(r)
  <2>1. KeysInv' /\ (req \in [Requests -> Request] /\ \A u \in Requests : Fine(req[u]))'
    BY <1>4, StatKeys DEF GateSafe
  <2>2. Typed' /\ Kepts'
    BY <1>4 DEF Stat, GateSafe, GateInv, Typed, Kepts
  <2> QED BY <2>1, <2>2 DEF GateSafe, GateInv
<1>5. CASE Load(r)
  <2>1. PICK rec : Becomes(r, rec) /\ Fine(rec) /\ KeysFine(rec)
    BY <1>5, LoadProceeds DEF GateSafe, Proceeds
  <2>2. KeysInv' /\ known' \in [rows : SUBSET Keys, stamp : Nat \cup {None}]
    BY <1>5, <2>1, LoadKeys DEF GateSafe
  <2>3. (req \in [Requests -> Request] /\ \A u \in Requests : Fine(req[u]))'
    BY <1>5, <2>1, ProceedsFine DEF GateSafe, Load
  <2>4. Typed' /\ Kepts'
    BY <1>5, <2>2 DEF Load, GateSafe, GateInv, Typed, Kepts
  <2> QED BY <2>2, <2>3, <2>4 DEF GateSafe, GateInv
<1>6. CASE Resolve(r)
  BY <1>2, <1>6, ResolveProceeds DEF Resolve, OfKeys, GateSafe
<1>7. CASE Upstream(r)
  BY <1>2, <1>7, UpstreamProceeds DEF Upstream, OfKeys, GateSafe
<1>8. CASE Reply(r) \/ CountTokens(r)
  BY <1>2, <1>8, ReplyProceeds, CountProceeds DEF Reply, CountTokens, OfKeys, GateSafe
<1>9. CASE StreamEnds(r) \/ StreamBreaks(r) \/ \E p \in Parts : Chunk(r, p)
  <2>1. UNCHANGED <<live, OfKeys, config, names, recipe, now>>
    BY <1>9 DEF StreamEnds, StreamBreaks, Chunk, OfKeys
  <2>2. CASE Proceeds(r)
    BY <1>2, <2>1, <2>2
  <2>3. CASE UNCHANGED req
    <3>1. GateInv'
      BY <2>1, <2>3 DEF GateSafe, GateInv, Typed, Kepts, Fine, OfKeys
    <3>2. KeysInv'
      BY <2>1, <2>3 DEF GateSafe, KeysInv, OfKeys, FilesOK, KnownOK, LoadOK, StampOf, KeysRows
    <3> QED BY <3>1, <3>2 DEF GateSafe
  <2> QED BY <1>9, <2>2, <2>3, StreamProceeds DEF GateSafe
<1>10. CASE Routes(r)
  BY <1>2, <1>10, RoutesProceeds DEF Routes, OfKeys, GateSafe
<1>11. CASE Kept(r)
  BY <1>2, <1>11, KeptProceeds DEF Kept, OfKeys, GateSafe
<1>12. CASE Asked(r)
  BY <1>2, <1>12, AskedProceeds DEF Asked, OfKeys, GateSafe
<1>13. CASE Store(r)
  <2>1. UNCHANGED <<OfKeys, config, names, recipe, now>>
    BY <1>13 DEF Store, OfKeys
  <2> QED BY <1>13, <2>1, StoreProceeds, ProceedsSafe DEF GateSafe
<1>14. CASE Listed(r)
  BY <1>2, <1>14, ListedProceeds DEF Listed, OfKeys, GateSafe
<1> QED BY <1>3, <1>4, <1>5, <1>6, <1>7, <1>8, <1>9, <1>10, <1>11, <1>12, <1>13, <1>14 DEF Handler

-----------------------------------------------------------------------------
(***************************************************************************)
(* rack gate key.                                                          *)
(***************************************************************************)
\* A command that creates a file finds an inode for it.
LEMMA InodeLeft ==
  ASSUME Typed, FilesOK, NEW t \in Terminals, term[t].pc = "read", disk.tmp = None
  PROVE  FreeInodes # {}
<1> DEFINE f == [u \in Terminals |-> IF u = t THEN disk.keys ELSE term[u].fd]
           T == {f[u] : u \in Terminals}
<1>1. f \in Surjection(Terminals, T)
  BY DEF Surjection
<1>2. IsFiniteSet(T) /\ Cardinality(T) <= Cardinality(Terminals)
  <2> HIDE DEF f, T
  <2> QED BY <1>1, FS_Surjection, InputsAssumption
<1>3. term[t].fd = None /\ None \notin Inodes
  BY GateAssumption DEF FilesOK
<1>4. FreeInodes = Inodes \ T
  <2>1. f[t] = disk.keys /\ \A u \in Terminals \ {t} : f[u] = term[u].fd
    OBVIOUS
  <2>2. \A x \in Inodes : x \in T <=> x = disk.keys \/ \E u \in Terminals \ {t} : x = term[u].fd
    BY <2>1
  <2>3. \A x \in Inodes : x \in FreeInodes <=> x # disk.keys /\ \A u \in Terminals \ {t} : x # term[u].fd
    BY <1>3 DEF FreeInodes
  <2>4. FreeInodes \subseteq Inodes
    BY DEF FreeInodes
  <2> HIDE DEF f, T
  <2> QED BY <2>2, <2>3, <2>4
<1> HIDE DEF f, T
<1>5. ASSUME FreeInodes = {} PROVE FALSE
  <2>1. Inodes \in SUBSET T
    BY <1>4, <1>5
  <2>2. Cardinality(Inodes) <= Cardinality(T)
    BY <1>2, <2>1, FS_Subset
  <2>3. Cardinality(Inodes) \in Nat /\ Cardinality(T) \in Nat /\ Cardinality(Terminals) \in Nat
    BY <1>2, InputsAssumption, FS_CardinalityType
  <2> QED BY <1>2, <2>2, <2>3, InputsAssumption
<1> QED BY <1>5

\* A stamp that the gate does not know, and that no request has looked at.
Unseen(s) == s # known.stamp /\ \A r \in Requests : req[r].pc = "load" => s # req[r].stamp

LEMMA StampsUnseen ==
  ASSUME GateSafe
  PROVE  Unseen(Stamps) /\ (disk.tmp # None => Unseen(StampOf(disk.tmp))) /\ disk.clock \in Nat
<1>1. disk.clock \in Nat /\ None \notin Nat /\ known.stamp \in Nat \cup {None}
  BY RackAssumption DEF GateSafe, GateInv, Typed
<1>2. \A r \in Requests : req[r].stamp \in Nat \cup {None}
  BY RequestAt, RequestFields DEF GateSafe
<1>3. Stamps \in Nat /\ Stamps > disk.clock
  BY <1>1 DEF Stamps
<1>4. Unseen(Stamps)
  BY <1>1, <1>2, <1>3 DEF GateSafe, KeysInv, KnownOK, LoadOK, Unseen
<1>5. ASSUME disk.tmp # None PROVE Unseen(StampOf(disk.tmp))
  <2>1. StampOf(disk.tmp) \in Nat
    BY <1>5 DEF GateSafe, GateInv, Typed, FileData, StampOf
  <2> QED BY <1>1, <1>5, <2>1 DEF GateSafe, KeysInv, KnownOK, LoadOK, Unseen
<1> QED BY <1>1, <1>4, <1>5

\* What a request has seen of keys.json, when it changes meanwhile.
Seen(q, rows) ==
  [q EXCEPT !.ever = q.ever \cup (rows \ NotJson), !.through = q.through \cap rows,
            !.torn = q.torn \/ rows = NotJson]

LEMMA SeenOK ==
  ASSUME NEW q, RequestOK(q), q.pc \in {"stat", "load"}, NEW rows \in (SUBSET Keys) \cup {NotJson}
  PROVE  /\ RequestOK(Seen(q, rows)) /\ Seen(q, rows).pc = q.pc /\ Seen(q, rows).stamp = q.stamp
         /\ Seen(q, rows).ever = q.ever \cup (rows \ NotJson) /\ Seen(q, rows).through = q.through \cap rows
         /\ Seen(q, rows).torn = (q.torn \/ rows = NotJson)
<1> DEFINE ever == q.ever \cup (rows \ NotJson)
           through == q.through \cap rows
           torn == (q.torn \/ rows = NotJson)
           n1 == [q EXCEPT !.ever = ever]
           n2 == [n1 EXCEPT !.through = through]
           n == [n2 EXCEPT !.torn = torn]
<1>1. q \in Request /\ Whole(q) /\ q.sent = << >> /\ q.rows = << >> /\ q.route = None /\ q.ask \in Asks /\ AgeOK(q)
  BY RequestFields DEF RequestOK, AnswerOK, RowsOK, Waiting, Whole
<1>2. ever \in SUBSET Keys /\ through \in SUBSET Keys /\ torn \in BOOLEAN
  <2>1. q.ever \in SUBSET Keys /\ q.through \in SUBSET Keys /\ q.torn \in BOOLEAN
    BY <1>1, RequestFields
  <2> QED BY <2>1 DEF NotJson
<1>3. n = Seen(q, rows)
  BY <1>1 DEF Seen, Whole, NoRequest
<1> HIDE DEF ever, through, torn
<1>4. n1 \in Request
  <2>1. \A v \in SUBSET Keys : [q EXCEPT !.ever = v] \in Request
    BY <1>1, RequestWith
  <2> QED BY <1>2, <2>1
<1>5. n2 \in Request
  <2> HIDE DEF n1
  <2>1. \A v \in SUBSET Keys : [n1 EXCEPT !.through = v] \in Request
    BY <1>4, RequestWith
  <2> QED BY <1>2, <2>1
<1>6. n \in Request
  <2> HIDE DEF n2
  <2>1. \A v \in BOOLEAN : [n2 EXCEPT !.torn = v] \in Request
    BY <1>5, RequestWith
  <2> QED BY <1>2, <2>1
<1>7. /\ n.pc = q.pc /\ n.stamp = q.stamp /\ n.who = q.who /\ n.age = q.age /\ n.waits = q.waits /\ n.ask = q.ask
      /\ n.sent = << >> /\ n.rows = << >> /\ n.route = None
      /\ n.ever = ever /\ n.through = through /\ n.torn = torn
  BY <1>1 DEF Whole, NoRequest
<1> HIDE DEF n
<1>8. Len(n.sent) <= 1 /\ n.sent # << 401 >>
  BY <1>7
<1>9. AnswerOK(n) /\ RowsOK(n)
  BY <1>7, <1>8 DEF AnswerOK, RowsOK
<1>10. Decided(n)
  BY <1>7, <1>8 DEF Decided, RequestOK, ever, torn
<1>11. RequestOK(n)
  <2>1. AgeOK(n)
    BY <1>1, <1>7 DEF AgeOK
  <2> QED BY <1>1, <1>6, <1>7, <1>9, <1>10, <2>1 DEF RequestOK
<1> QED BY <1>3, <1>7, <1>11 DEF ever, through, torn

\* keys.json is as it was, or another one, by a stamp that nobody has seen.
KeysMove ==
  \/ req' = req /\ KeysRows' = KeysRows /\ StampOf(disk.keys)' = StampOf(disk.keys)
  \/ req' = Watch(KeysRows') /\ Unseen(StampOf(disk.keys)')

\* What a key command does, as far as the gate is concerned.
FilesMove ==
  /\ UNCHANGED <<known, lock, live, config, names, recipe, now>>
  /\ disk' \in [keys : Inodes, tmp : Inodes \cup {None}, clock : Nat, data : [Inodes -> FileData]]
  /\ term' \in [Terminals -> Terminal]
  /\ FilesOK' /\ disk.clock <= disk'.clock
  /\ disk'.tmp # None => Unseen(StampOf(disk.tmp)')
  /\ KeysMove

LEMMA WatchIs ==
  ASSUME GateInv, NEW rows \in (SUBSET Keys) \cup {NotJson}, req' = Watch(rows), now' = now
  PROVE  /\ (req \in [Requests -> Request] /\ \A r \in Requests : Fine(req[r]))'
         /\ \A r \in Requests :
              /\ req'[r].pc = req[r].pc
              /\ req[r].pc \in {"stat", "load"} => req'[r] = Seen(req[r], rows)
<1>1. ASSUME NEW r \in Requests
      PROVE  /\ req'[r] = IF req[r].pc \in {"stat", "load"} THEN Seen(req[r], rows) ELSE req[r]
             /\ Fine(req'[r]) /\ req'[r] \in Request /\ req'[r].pc = req[r].pc
  <2>1. req'[r] = IF req[r].pc \in {"stat", "load"} THEN Seen(req[r], rows) ELSE req[r]
    BY DEF Watch, Seen
  <2>2. CASE req[r].pc \in {"stat", "load"}
    <3>1. RequestOK(Seen(req[r], rows)) /\ Seen(req[r], rows).pc = req[r].pc
      BY <2>2, RequestAt, SeenOK
    <3> QED BY <2>1, <2>2, <3>1 DEF Fine, RequestOK
  <2>3. CASE req[r].pc \notin {"stat", "load"}
    BY <2>1, <2>3, RequestAt DEF GateInv
  <2> QED BY <2>1, <2>2, <2>3
<1>2. req' \in [Requests -> Request]
  <2>1. req' = [r \in Requests |-> req'[r]]
    BY DEF Watch
  <2> QED BY <1>1, <2>1
<1>3. ASSUME NEW r \in Requests PROVE Fine(req[r])'
  <2>1. Fine(req'[r])
    BY <1>1
  <2> QED BY <2>1 DEF Fine
<1> QED BY <1>1, <1>2, <1>3

LEMMA FilesMoveSafe ==
  ASSUME GateSafe, FilesMove, AsksOK'
  PROVE  GateSafe'
<1>1. UNCHANGED <<known, lock, live, config, names, recipe, now>>
  BY DEF FilesMove
<1>2. Typed' /\ Kepts' /\ Typed
  BY <1>1 DEF FilesMove, GateSafe, GateInv, Typed, Kepts
<1>3. KeysRows' \in (SUBSET Keys) \cup {NotJson}
  <2>1. disk'.data[disk'.keys] \in FileData
    BY <1>2 DEF Typed
  <2> QED BY <2>1 DEF FileData, KeysRows
<1>4. known.stamp \in Nat \cup {None} /\ disk.clock \in Nat /\ disk'.clock \in Nat /\ disk.clock <= disk'.clock
      /\ None \notin Nat
  BY <1>2, RackAssumption DEF Typed, FilesMove
<1>5. CASE req' = req /\ KeysRows' = KeysRows /\ StampOf(disk.keys)' = StampOf(disk.keys)
  <2>1. (req \in [Requests -> Request] /\ \A r \in Requests : Fine(req[r]))'
    BY <1>1, <1>5 DEF GateSafe, GateInv, Fine
  <2>2. KnownOK'
    BY <1>1, <1>4, <1>5 DEF GateSafe, KeysInv, KnownOK, FilesMove, Unseen
  <2>3. ASSUME NEW r \in Requests PROVE LoadOK(r)'
    <3>1. LoadOK(r) /\ req[r].stamp \in Nat \cup {None}
      BY RequestAt, RequestFields DEF GateSafe, KeysInv
    <3> QED BY <1>1, <1>4, <1>5, <3>1 DEF LoadOK, FilesMove, Unseen
  <2> QED BY <1>2, <2>1, <2>2, <2>3 DEF GateSafe, GateInv, KeysInv, FilesMove
<1>6. CASE req' = Watch(KeysRows') /\ Unseen(StampOf(disk.keys)')
  <2> DEFINE rows == KeysRows'
  <2>1. /\ (req \in [Requests -> Request] /\ \A r \in Requests : Fine(req[r]))'
        /\ \A r \in Requests :
             /\ req'[r].pc = req[r].pc
             /\ req[r].pc \in {"stat", "load"} => req'[r] = Seen(req[r], rows)
    BY <1>1, <1>3, <1>6, WatchIs DEF GateSafe
  <2>2. KnownOK'
    BY <1>1, <1>4, <1>6 DEF GateSafe, KeysInv, KnownOK, FilesMove, Unseen
  <2>3. ASSUME NEW r \in Requests PROVE LoadOK(r)'
    <3>1. LoadOK(r) /\ req[r].stamp \in Nat \cup {None} /\ RequestOK(req[r])
      BY RequestAt, RequestFields DEF GateSafe, KeysInv
    <3>2. CASE req[r].pc \in {"stat", "load"}
      <4> DEFINE n == Seen(req[r], rows)
      <4>1. /\ n.pc = req[r].pc /\ n.stamp = req[r].stamp
            /\ n.ever = req[r].ever \cup (rows \ NotJson) /\ n.through = req[r].through \cap rows
            /\ n.torn = (req[r].torn \/ rows = NotJson)
        BY <1>3, <3>1, <3>2, SeenOK
      <4>2. req'[r] = n
        BY <2>1, <3>2
      <4> HIDE DEF n
      <4>3. ~n.torn => ~req[r].torn /\ rows # NotJson /\ rows \subseteq n.ever /\ n.through \subseteq rows
                       /\ req[r].ever \subseteq n.ever /\ n.through \subseteq req[r].through
        <5>1. rows # NotJson => None \notin rows
          BY <1>3, GateAssumption
        <5> QED BY <4>1, <5>1 DEF NotJson
      <4> HIDE DEF rows
      <4>4. req[r].pc = "load" => /\ n.stamp # None /\ n.stamp <= disk'.clock /\ lock' = r
                                  /\ disk'.tmp # None => StampOf(disk.tmp)' # n.stamp
        BY <1>1, <1>4, <3>1, <4>1 DEF LoadOK, FilesMove, Unseen
      <4>5. req[r].pc = "load" /\ n.stamp = known.stamp /\ ~n.torn =>
              known.rows \subseteq n.ever /\ n.through \subseteq known.rows
        BY <3>1, <4>1, <4>3 DEF LoadOK
      <4> QED BY <1>1, <4>1, <4>2, <4>3, <4>4, <4>5 DEF LoadOK, rows
    <3>3. CASE req[r].pc \notin {"stat", "load"}
      BY <2>1, <3>3 DEF LoadOK
    <3> QED BY <3>2, <3>3
  <2> QED BY <1>2, <2>1, <2>2, <2>3 DEF GateSafe, GateInv, KeysInv, FilesMove
<1> QED BY <1>5, <1>6 DEF FilesMove, KeysMove

\* rack gate key.
LEMMA KeyReadSafe ==
  ASSUME GateSafe, NEW t \in Terminals, NEW c \in Commands, KeyRead(t, c)
  PROVE  FilesMove
<1> DEFINE rows == (KeysFile \ {k \in KeysFile : ClientOf[k] = ClientOf[c.key]})
                      \cup (IF c.do = "add" THEN {c.key} ELSE {})
           reads == [pc |-> "read", cmd |-> c, fd |-> None, rows |-> rows]
<1>1. rows \in SUBSET Keys
  BY KeysTyped, InputsAssumption DEF GateSafe, GateInv
<1>2. \E rec \in {NoCommand, reads} : term' = [term EXCEPT ![t] = rec]
  <2> DEFINE named == {k \in KeysFile : ClientOf[k] = ClientOf[c.key]}
  <2>1. term' = [term EXCEPT ![t] = CASE c.do = "add" /\ named # {} /\ ~c.replace -> NoCommand
                                      [] c.do = "rm"  /\ named = {}               -> NoCommand
                                      [] OTHER -> reads]
    BY DEF KeyRead, TermIs
  <2> HIDE DEF named, reads
  <2> QED BY <2>1
<1>3. reads \in Terminal /\ NoCommand \in Terminal /\ NoCommand.pc = "idle" /\ reads.pc = "read" /\ reads.fd = None
  BY <1>1 DEF Terminal, NoCommand
<1> HIDE DEF reads
<1>4. term' \in [Terminals -> Terminal]
  BY <1>2, <1>3 DEF GateSafe, GateInv, Typed
<1>5. FilesOK'
  BY <1>2, <1>3 DEF GateSafe, GateInv, Typed, KeysInv, FilesOK, StampOf, KeyRead, files
<1> QED BY <1>4, <1>5, StampsUnseen DEF FilesMove, KeysMove, KeyRead, gate, files, GateSafe, GateInv, Typed, StampOf, KeysRows

\* A write leaves the other commands where they are, but for one that is
\* half-way in the same file.
LEMMA MixedIs ==
  ASSUME Typed, NEW t \in Terminals, NEW i
  PROVE  /\ Mixed(t, i) \in [Terminals -> Terminal] /\ Mixed(t, i)[t] = term[t]
         /\ \A u \in Terminals :
              /\ Mixed(t, i)[u].fd = term[u].fd
              /\ Mixed(t, i)[u].pc = term[u].pc \/ (term[u].pc = "torn" /\ Mixed(t, i)[u].pc = "mixed")
<1>1. ASSUME NEW u \in Terminals
      PROVE  /\ Mixed(t, i)[u] \in Terminal /\ Mixed(t, i)[u].fd = term[u].fd
             /\ Mixed(t, i)[u].pc = term[u].pc \/ (term[u].pc = "torn" /\ Mixed(t, i)[u].pc = "mixed")
  <2>1. term[u] \in Terminal
    BY DEF Typed
  <2>2. /\ [term[u] EXCEPT !.pc = "mixed"] \in Terminal
        /\ [term[u] EXCEPT !.pc = "mixed"].fd = term[u].fd /\ [term[u] EXCEPT !.pc = "mixed"].pc = "mixed"
    BY <2>1 DEF Terminal
  <2>3. Mixed(t, i)[u] = IF u # t /\ term[u].pc = "torn" /\ term[u].fd = i
                         THEN [term[u] EXCEPT !.pc = "mixed"] ELSE term[u]
    BY DEF Mixed
  <2> QED BY <2>1, <2>2, <2>3
<1>2. Mixed(t, i) = [u \in Terminals |-> Mixed(t, i)[u]] /\ Mixed(t, i)[t] = term[t]
  BY DEF Mixed
<1> QED BY <1>1, <1>2

LEMMA KeyOpenSafe ==
  ASSUME GateSafe, NEW t \in Terminals, KeyOpen(t)
  PROVE  FilesMove
<1> DEFINE i == IF disk.tmp = None THEN CHOOSE x \in FreeInodes : TRUE ELSE disk.tmp
           empty == Written({})
           mixed == Mixed(t, i)
<1>1. Typed /\ FilesOK /\ term[t].pc = "read" /\ term[t] \in Terminal
  BY DEF GateSafe, GateInv, KeysInv, KeyOpen, Typed
<1>2. i \in Inodes /\ i # disk.keys
  <2>1. CASE disk.tmp = None
    <3>1. i \in FreeInodes
      BY <1>1, <2>1, InodeLeft
    <3> QED BY <3>1 DEF FreeInodes
  <2>2. CASE disk.tmp # None
    BY <1>1, <2>2 DEF Typed, FilesOK
  <2> QED BY <2>1, <2>2
<1>3. /\ disk' = [disk EXCEPT !.tmp = i, !.clock = Stamps, !.data[i] = empty]
      /\ term' = [mixed EXCEPT ![t] = [term[t] EXCEPT !.pc = "opened", !.fd = i]]
      /\ req' = req
  <2>1. term' = [mixed EXCEPT ![t].pc = "opened", ![t].fd = i] /\ mixed \in [Terminals -> Terminal] /\ mixed[t] = term[t]
    BY <1>1, MixedIs DEF KeyOpen
  <2> HIDE DEF mixed
  <2> DEFINE m == [mixed EXCEPT ![t].pc = "opened"]
             o == [term[t] EXCEPT !.pc = "opened"]
  <2>2. o \in Terminal /\ [o EXCEPT !.fd = i] = [term[t] EXCEPT !.pc = "opened", !.fd = i]
    BY <1>1 DEF Terminal
  <2>3. m = [mixed EXCEPT ![t] = o] /\ m[t] = o
    BY <2>1
  <2>4. term' = [m EXCEPT ![t].fd = i]
    BY <2>1
  <2> HIDE DEF m, o
  <2>5. term' = [m EXCEPT ![t] = [o EXCEPT !.fd = i]]
    BY <2>3, <2>4
  <2>6. term' = [mixed EXCEPT ![t] = [o EXCEPT !.fd = i]]
    BY <2>1, <2>3, <2>5
  <2> QED BY <1>2, <2>2, <2>6 DEF KeyOpen
<1>4. Unseen(Stamps) /\ disk.clock \in Nat /\ Stamps = disk.clock + 1
  BY StampsUnseen DEF Stamps
<1>5. empty \in FileData /\ empty.stamp = Stamps
  BY <1>4 DEF Written, FileData
<1>16. /\ mixed \in [Terminals -> Terminal]
       /\ \A u \in Terminals : /\ mixed[u].fd = term[u].fd
                               /\ mixed[u].pc = term[u].pc \/ (term[u].pc = "torn" /\ mixed[u].pc = "mixed")
  BY <1>1, MixedIs
<1> HIDE DEF i, empty, mixed
<1>6. disk' \in [keys : Inodes, tmp : Inodes \cup {None}, clock : Nat, data : [Inodes -> FileData]]
  <2> DEFINE data == [disk.data EXCEPT ![i] = empty]
  <2>1. data \in [Inodes -> FileData]
    BY <1>1, <1>2, <1>5 DEF Typed
  <2>2. disk' = [disk EXCEPT !.tmp = i, !.clock = Stamps, !.data = data]
    BY <1>1, <1>2, <1>3 DEF Typed
  <2> HIDE DEF data
  <2>3. disk' = [keys |-> disk.keys, tmp |-> i, clock |-> Stamps, data |-> data]
    BY <1>1, <2>2 DEF Typed
  <2>4. disk.keys \in Inodes /\ disk.tmp \in Inodes \cup {None} /\ Stamps \in Nat
    BY <1>1, <1>4 DEF Typed
  <2> QED BY <1>2, <2>1, <2>3, <2>4
<1>7. /\ disk'.tmp = i /\ disk'.keys = disk.keys /\ disk'.clock = Stamps
      /\ disk'.data[i] = empty /\ \A x \in Inodes \ {i} : disk'.data[x] = disk.data[x]
  BY <1>1, <1>2, <1>3 DEF Typed
<1>8. disk.keys \in Inodes /\ \A x \in Inodes : StampOf(x) \in Nat /\ StampOf(x) <= disk.clock
  BY <1>1 DEF Typed, FilesOK, StampOf, FileData
<1>9. term' \in [Terminals -> Terminal]
  <2>1. [term[t] EXCEPT !.pc = "opened", !.fd = i] \in Terminal
    BY <1>1, <1>2 DEF Terminal
  <2> QED BY <1>3, <1>16, <2>1
<1>10. FilesOK'
  <2>1. \A u \in Terminals : /\ (term[u].pc = "read" => term[u].fd = None)'
                             /\ (term[u].pc \in {"opened", "torn", "mixed", "written"} => term[u].fd \in Inodes)'
    <3>1. term'[t].pc = "opened" /\ term'[t].fd = i /\ \A u \in Terminals \ {t} : term'[u] = mixed[u]
      BY <1>1, <1>3, <1>16 DEF Terminal
    <3> QED BY <1>1, <1>2, <1>16, <3>1 DEF FilesOK
  <2>2. \A x \in Inodes : StampOf(x)' <= disk'.clock
    BY <1>4, <1>5, <1>7, <1>8 DEF StampOf
  <2>3. StampOf(disk.tmp)' # StampOf(disk.keys)'
    BY <1>2, <1>4, <1>5, <1>7, <1>8 DEF StampOf
  <2> QED BY <1>2, <1>7, <2>1, <2>2, <2>3 DEF FilesOK
<1>11. Unseen(StampOf(disk.tmp)')
  BY <1>4, <1>5, <1>7 DEF StampOf
<1>12. KeysRows' = KeysRows /\ StampOf(disk.keys)' = StampOf(disk.keys)
  BY <1>2, <1>7, <1>8 DEF KeysRows, StampOf
<1>13. UNCHANGED <<known, lock, live, config, names, recipe, now>>
  BY DEF KeyOpen, gate, shared
<1>14. KeysMove
  BY <1>3, <1>12 DEF KeysMove
<1>15. disk.clock <= disk'.clock
  BY <1>4, <1>7
<1> QED BY <1>6, <1>9, <1>10, <1>11, <1>13, <1>14, <1>15 DEF FilesMove

LEMMA KeyWriteSafe ==
  ASSUME GateSafe, NEW t \in Terminals, KeyWrite(t)
  PROVE  FilesMove
<1> DEFINE i == term[t].fd
           mixed == Mixed(t, i)
<1>1. Typed /\ FilesOK /\ term[t].pc \in {"opened", "torn", "mixed"} /\ term[t] \in Terminal /\ i \in Inodes
  BY DEF GateSafe, GateInv, KeysInv, KeyWrite, Typed, FilesOK
<1>2. PICK rows \in {term[t].rows, NotJson}, pc \in {"torn", "written"} :
        /\ disk' = [disk EXCEPT !.clock = Stamps, !.data[i] = Written(rows)]
        /\ term' = [mixed EXCEPT ![t].pc = pc]
        /\ req' = IF i = disk.keys THEN Watch(rows) ELSE req
  BY DEF KeyWrite
<1>17. /\ mixed \in [Terminals -> Terminal] /\ mixed[t] = term[t]
       /\ \A u \in Terminals : /\ mixed[u].fd = term[u].fd
                               /\ mixed[u].pc = term[u].pc \/ (term[u].pc = "torn" /\ mixed[u].pc = "mixed")
  BY <1>1, MixedIs
<1>18. term' = [mixed EXCEPT ![t] = [term[t] EXCEPT !.pc = pc]]
  <2> HIDE DEF mixed
  <2> QED BY <1>2, <1>17
<1>3. rows \in (SUBSET Keys) \cup {NotJson}
  BY <1>1 DEF Terminal
<1> DEFINE file == Written(rows)
<1>4. Unseen(Stamps) /\ disk.clock \in Nat /\ Stamps = disk.clock + 1
  BY StampsUnseen DEF Stamps
<1>5. file \in FileData /\ file.stamp = Stamps /\ file.rows = rows
  BY <1>3, <1>4 DEF Written, FileData
<1> HIDE DEF i, file, mixed
<1>6. /\ disk' = [disk EXCEPT !.clock = Stamps, !.data[i] = file]
      /\ req' = IF i = disk.keys THEN Watch(rows) ELSE req
  BY <1>2 DEF file
<1>7. disk' \in [keys : Inodes, tmp : Inodes \cup {None}, clock : Nat, data : [Inodes -> FileData]]
  <2> DEFINE data == [disk.data EXCEPT ![i] = file]
  <2>1. data \in [Inodes -> FileData]
    BY <1>1, <1>5 DEF Typed
  <2>2. disk' = [disk EXCEPT !.clock = Stamps, !.data = data]
    BY <1>1, <1>6 DEF Typed
  <2> HIDE DEF data
  <2>3. disk' = [keys |-> disk.keys, tmp |-> disk.tmp, clock |-> Stamps, data |-> data]
    BY <1>1, <2>2 DEF Typed
  <2>4. disk.keys \in Inodes /\ disk.tmp \in Inodes \cup {None} /\ Stamps \in Nat
    BY <1>1, <1>4 DEF Typed
  <2> QED BY <2>1, <2>3, <2>4
<1>8. /\ disk'.tmp = disk.tmp /\ disk'.keys = disk.keys /\ disk'.clock = Stamps
      /\ disk'.data[i] = file /\ \A x \in Inodes \ {i} : disk'.data[x] = disk.data[x]
  BY <1>1, <1>6 DEF Typed
<1>9. /\ disk.keys \in Inodes /\ disk.tmp \in Inodes \cup {None}
      /\ \A x \in Inodes : StampOf(x) \in Nat /\ StampOf(x) <= disk.clock
  BY <1>1 DEF Typed, FilesOK, StampOf, FileData
<1>10. disk'.data[i].stamp = Stamps /\ \A x \in Inodes \ {i} : disk'.data[x].stamp = StampOf(x)
  BY <1>5, <1>8 DEF StampOf
<1>11. term' \in [Terminals -> Terminal]
  <2>1. [term[t] EXCEPT !.pc = pc] \in Terminal
    BY <1>1, <1>2 DEF Terminal
  <2> QED BY <1>17, <1>18, <2>1
<1>12. FilesOK'
  <2>1. \A u \in Terminals : /\ (term[u].pc = "read" => term[u].fd = None)'
                             /\ (term[u].pc \in {"opened", "torn", "mixed", "written"} => term[u].fd \in Inodes)'
    <3>1. [term[t] EXCEPT !.pc = pc].fd = i /\ [term[t] EXCEPT !.pc = pc].pc \in {"torn", "written"}
      BY <1>1, <1>2 DEF Terminal, i
    <3>2. /\ term'[t].fd = i /\ term'[t].pc \in {"torn", "written"}
          /\ \A u \in Terminals \ {t} : term'[u] = mixed[u]
      BY <1>17, <1>18, <3>1
    <3> QED BY <1>1, <1>17, <3>2 DEF FilesOK
  <2>2. \A x \in Inodes : StampOf(x)' <= disk'.clock
    <3>1. ASSUME NEW x \in Inodes PROVE disk'.data[x].stamp <= disk'.clock
      BY <1>4, <1>8, <1>9, <1>10
    <3> QED BY <3>1 DEF StampOf
  <2>3. disk.tmp # None => disk.tmp # disk.keys /\ StampOf(disk.tmp) # StampOf(disk.keys) /\ disk.tmp \in Inodes
    BY <1>1, <1>9 DEF FilesOK
  <2>4. disk'.tmp # None => disk'.tmp # disk'.keys /\ StampOf(disk.tmp)' # StampOf(disk.keys)'
    <3>1. disk.tmp # None => disk'.data[disk.tmp].stamp # disk'.data[disk.keys].stamp
      <4>1. disk.tmp # None => StampOf(disk.tmp) < Stamps /\ StampOf(disk.keys) < Stamps
        BY <1>4, <1>9, <2>3
      <4> QED BY <1>9, <1>10, <2>3, <4>1
    <3> QED BY <1>8, <2>3, <3>1 DEF StampOf
  <2> QED BY <2>1, <2>2, <2>4 DEF FilesOK
<1>13. ASSUME disk'.tmp # None PROVE Unseen(StampOf(disk.tmp)')
  <2>1. StampOf(disk.tmp)' \in {Stamps, StampOf(disk.tmp)}
    BY <1>8, <1>9, <1>10, <1>13 DEF StampOf
  <2>2. Unseen(StampOf(disk.tmp))
    BY <1>8, <1>13, StampsUnseen
  <2> QED BY <1>4, <2>1, <2>2
<1>14. KeysMove
  <2>1. CASE i = disk.keys
    <3>1. KeysRows' = rows /\ StampOf(disk.keys)' = Stamps
      BY <1>5, <1>8, <2>1 DEF KeysRows, StampOf
    <3> QED BY <1>4, <1>6, <2>1, <3>1 DEF KeysMove
  <2>2. CASE i # disk.keys
    <3>1. KeysRows' = KeysRows /\ StampOf(disk.keys)' = StampOf(disk.keys)
      BY <1>8, <1>9, <2>2 DEF KeysRows, StampOf
    <3> QED BY <1>6, <2>2, <3>1 DEF KeysMove
  <2> QED BY <2>1, <2>2
<1>15. UNCHANGED <<known, lock, live, config, names, recipe, now>>
  BY DEF KeyWrite, gate, shared
<1>16. disk.clock <= disk'.clock
  BY <1>4, <1>8
<1> QED BY <1>7, <1>11, <1>12, <1>13, <1>14, <1>15, <1>16 DEF FilesMove

LEMMA KeyReplaceSafe ==
  ASSUME GateSafe, NEW t \in Terminals, KeyReplace(t)
  PROVE  FilesMove
<1>1. Typed /\ FilesOK /\ term' = [term EXCEPT ![t] = NoCommand]
  BY DEF GateSafe, GateInv, KeysInv, KeyReplace, TermIs
<1>2. NoCommand \in Terminal /\ NoCommand.pc = "idle"
  BY DEF NoCommand, Terminal
<1>3. /\ term' \in [Terminals -> Terminal]
      /\ \A u \in Terminals : /\ (term[u].pc = "read" => term[u].fd = None)'
                              /\ (term[u].pc \in {"opened", "torn", "mixed", "written"} => term[u].fd \in Inodes)'
  BY <1>1, <1>2 DEF FilesOK, Typed
<1>4. UNCHANGED <<known, lock, live, config, names, recipe, now>>
  BY DEF KeyReplace, gate, shared
<1>5. CASE disk.tmp = None
  <2>1. UNCHANGED <<disk, req>>
    BY <1>5 DEF KeyReplace
  <2>2. FilesOK'
    BY <1>1, <1>3, <2>1 DEF FilesOK, StampOf
  <2> QED BY <1>1, <1>3, <1>4, <1>5, <2>1, <2>2 DEF FilesMove, KeysMove, Typed, StampOf, KeysRows
<1>6. CASE disk.tmp # None
  <2>1. disk' = [disk EXCEPT !.keys = disk.tmp, !.tmp = None] /\ req' = Watch(disk.data[disk.tmp].rows)
    BY <1>6 DEF KeyReplace
  <2>2. /\ disk'.keys = disk.tmp /\ disk'.tmp = None /\ disk'.clock = disk.clock /\ disk'.data = disk.data
        /\ disk' \in [keys : Inodes, tmp : Inodes \cup {None}, clock : Nat, data : [Inodes -> FileData]]
    BY <1>1, <1>6, <2>1 DEF Typed
  <2>3. FilesOK'
    BY <1>1, <1>3, <2>2 DEF FilesOK, StampOf
  <2>4. Unseen(StampOf(disk.keys)') /\ KeysRows' = disk.data[disk.tmp].rows /\ disk.clock \in Nat
    BY <1>6, <2>2, StampsUnseen DEF StampOf, KeysRows
  <2> QED BY <1>3, <1>4, <2>1, <2>2, <2>3, <2>4 DEF FilesMove, KeysMove
<1> QED BY <1>5, <1>6

LEMMA KeyCommandSafe ==
  ASSUME GateSafe, NEW t \in Terminals, KeyCommand(t), AsksOK'
  PROVE  GateSafe'
BY KeyReadSafe, KeyOpenSafe, KeyWriteSafe, KeyReplaceSafe, FilesMoveSafe DEF KeyCommand

-----------------------------------------------------------------------------
(***************************************************************************)
(* Everything around the gate.                                             *)
(***************************************************************************)
\* A client that leaves.
LEMMA LeaveSafe ==
  ASSUME GateSafe, NEW r \in Requests, Leave(r), AsksOK'
  PROVE  GateSafe'
<1> DEFINE q == req[r]
           n == [q EXCEPT !.gone = TRUE]
<1>1. /\ RequestOK(q) /\ q \in Request /\ Whole(q) /\ Fine(q) /\ q.pc \notin {"idle", "done"}
      /\ Becomes(r, n) /\ UNCHANGED <<live, known, lock, config, disk, names, term, recipe, now>>
  BY RequestAt DEF GateSafe, GateInv, Leave, gate, files
<1> HIDE DEF q
<1>2. n \in Request
  <2>1. \A v \in BOOLEAN : [q EXCEPT !.gone = v] \in Request
    BY <1>1, RequestWith
  <2> QED BY <2>1
<1>3. /\ n.pc = q.pc /\ n.stamp = q.stamp /\ n.who = q.who /\ n.age = q.age /\ n.waits = q.waits
      /\ n.ask = q.ask /\ n.sent = q.sent
      /\ n.got = q.got /\ n.rows = q.rows /\ n.route = q.route /\ n.ever = q.ever /\ n.through = q.through
      /\ n.torn = q.torn /\ n.left = q.left /\ n.answer = q.answer /\ n.since = q.since
      /\ n.oldest = q.oldest /\ n.gone = TRUE
  BY <1>1 DEF Whole, NoRequest
<1> HIDE DEF n
<1>4. RequestOK(n)
  <2>1. AgeOK(n)
    BY <1>1, <1>3 DEF AgeOK, RequestOK
  <2> QED BY <1>1, <1>2, <1>3, <2>1 DEF RequestOK, AnswerOK, RowsOK, Decided
<1>5. Fine(n)
  BY <1>1, <1>3, <1>4 DEF Fine
<1>6. /\ (req \in [Requests -> Request] /\ \A u \in Requests : Fine(req[u]))'
      /\ req'[r] = n /\ \A u \in Requests \ {r} : req'[u] = req[u]
  BY <1>1, <1>5, ProceedsFine DEF GateSafe
<1>7. Typed' /\ Kepts'
  BY <1>1 DEF GateSafe, GateInv, Typed, Kepts
<1>8. FilesOK' /\ KnownOK'
  BY <1>1 DEF GateSafe, KeysInv, FilesOK, KnownOK, StampOf, KeysRows
<1>9. ASSUME NEW u \in Requests PROVE LoadOK(u)'
  <2>1. LoadOK(u)
    BY DEF GateSafe, KeysInv
  <2>2. /\ req'[u].pc = req[u].pc /\ req'[u].stamp = req[u].stamp /\ req'[u].torn = req[u].torn
        /\ req'[u].ever = req[u].ever /\ req'[u].through = req[u].through
    BY <1>3, <1>6 DEF q
  <2> QED BY <1>1, <2>1, <2>2 DEF LoadOK, StampOf, KeysRows
<1> QED BY <1>6, <1>7, <1>8, <1>9 DEF GateSafe, GateInv, KeysInv

\* The gate is restarted, and has to learn all it knows anew.
LEMMA RestartSafe ==
  ASSUME GateSafe, Restart, AsksOK'
  PROVE  GateSafe'
<1>1. /\ req' = [r \in Requests |-> IF req[r].pc \in {"idle", "done"} THEN req[r]
                                   ELSE [req[r] EXCEPT !.pc = "killed"]]
      /\ live' = [e \in Engines |-> None] /\ known' = [rows |-> {}, stamp |-> None] /\ lock' = None
      /\ UNCHANGED <<config, disk, names, term, recipe, now>>
  BY DEF Restart, files
<1>2. ASSUME NEW r \in Requests
      PROVE  RequestOK(req'[r]) /\ req'[r].pc \in {"idle", "done", "killed"}
  <2> DEFINE q == req[r]
             n == [q EXCEPT !.pc = "killed"]
  <2>1. RequestOK(q) /\ q \in Request /\ Whole(q)
    BY RequestAt DEF GateSafe
  <2>2. req'[r] = IF q.pc \in {"idle", "done"} THEN q ELSE n
    BY <1>1
  <2> HIDE DEF q
  <2>3. CASE q.pc \notin {"idle", "done"}
    <3>1. n \in Request
      BY <2>1, RequestWith DEF Pcs
    <3>2. /\ n.pc = "killed" /\ n.who = q.who /\ n.age = q.age /\ n.waits = q.waits /\ n.ask = q.ask /\ n.sent = q.sent
          /\ n.rows = q.rows /\ n.ever = q.ever /\ n.through = q.through /\ n.torn = q.torn /\ n.gone = q.gone
      BY <2>1 DEF Whole, NoRequest
    <3> HIDE DEF n
    <3>3. RequestOK(n)
      <4>1. AgeOK(n)
        BY <2>1, <3>2 DEF AgeOK, RequestOK
      <4> QED BY <2>1, <2>3, <3>1, <3>2, <4>1 DEF RequestOK, AnswerOK, RowsOK, Decided, Waiting
    <3> QED BY <2>2, <2>3, <3>2, <3>3
  <2> QED BY <2>1, <2>2, <2>3
<1>3. (req \in [Requests -> Request] /\ \A r \in Requests : Fine(req[r]))'
  <2>1. ASSUME NEW r \in Requests PROVE req'[r] \in Request /\ Fine(req[r])'
    <3>1. Fine(req'[r]) /\ req'[r] \in Request
      BY <1>2 DEF Fine, RequestOK
    <3> QED BY <1>1, <3>1 DEF Fine
  <2>2. req' = [r \in Requests |-> req'[r]]
    BY <1>1
  <2> QED BY <2>1, <2>2
<1>4. Typed' /\ Kepts'
  <2>1. live' \in [Engines -> {None} \cup [at : Nat, ids : SUBSET Models, said : Nat]]
        /\ known' \in [rows : SUBSET Keys, stamp : Nat \cup {None}]
    BY <1>1
  <2> QED BY <1>1, <2>1 DEF GateSafe, GateInv, Typed, Kepts
<1>5. KeysInv'
  <2>1. FilesOK'
    BY <1>1 DEF GateSafe, KeysInv, FilesOK, StampOf
  <2>2. KnownOK'
    BY <1>1 DEF KnownOK
  <2>3. \A r \in Requests : LoadOK(r)'
    BY <1>2 DEF LoadOK
  <2> QED BY <2>1, <2>2, <2>3 DEF KeysInv
<1> QED BY <1>3, <1>4, <1>5 DEF GateSafe, GateInv

\* A request that lets time pass: an engine it asks has not yet had AskMax.
StandsStill(q) == q.pc \notin {"list", "store"} /\ (q.pc = "ask" => now - q.since < AskMax)

\* A step that leaves requests, files and keys as they are.
LEMMA BesideSafe ==
  ASSUME GateSafe, AsksOK', UNCHANGED <<req, live, known, lock, disk, term>>,
         config' \in Configs, names' \in [Engines -> SUBSET Models], recipe' \in Recipes \cup {None},
         now' = now \/ (now' = now + 1 /\ \A r \in Requests : StandsStill(req[r]))
  PROVE  GateSafe'
<1>1. now \in Nat /\ now' \in Nat /\ now <= now'
  BY DEF GateSafe, GateInv, Typed
<1>2. Typed' /\ Kepts'
  BY <1>1 DEF GateSafe, GateInv, Typed, Kepts
<1>3. KeysInv'
  BY DEF GateSafe, KeysInv, FilesOK, KnownOK, LoadOK, StampOf, KeysRows
<1>4. ASSUME NEW r \in Requests PROVE Fine(req[r])'
  <2>1. Fine(req[r]) /\ req[r].since \in Nat /\ req[r].oldest \in Nat /\ AskMax \in Nat
    BY RequestAt, RequestFields, GateAssumption DEF GateSafe, GateInv
  <2>2. CASE now' = now
    BY <2>1, <2>2 DEF Fine
  <2>3. CASE now' = now + 1 /\ StandsStill(req[r])
    BY <1>1, <2>1, <2>3 DEF Fine, StandsStill
  <2> QED BY <2>2, <2>3
<1> QED BY <1>2, <1>3, <1>4 DEF GateSafe, GateInv

LEMMA AroundSafe ==
  ASSUME GateSafe, Around, AsksOK'
  PROVE  GateSafe'
<1>1. config \in Configs /\ names \in [Engines -> SUBSET Models] /\ recipe \in Recipes \cup {None}
  BY DEF GateSafe, GateInv, Typed
<1>2. ASSUME NEW e \in Engines, NEW ids \in SUBSET Models, EngineChanges(e, ids) PROVE GateSafe'
  BY <1>1, <1>2, BesideSafe DEF EngineChanges, gate, files
<1>3. ASSUME NEW c \in Configs, Edit(c) PROVE GateSafe'
  BY <1>1, <1>3, BesideSafe DEF Edit, gate, files
<1> QED BY <1>2, <1>3, LeaveSafe, RestartSafe DEF Around

\* The time goes on by Tick alone.
LEMMA NowMoves ==
  ASSUME [Next]_vars
  PROVE  now' = now \/ Tick
<1> USE DEF shared
<1>1. CASE UNCHANGED vars
  BY <1>1 DEF vars
<1>2. CASE GateStep
  BY <1>2, GateLeaves
<1>3. CASE \E t \in Terminals : Commanded(t)
  BY <1>3, CommandedNow
<1>4. CASE HandEdits \/ LiteLLMRestarts
  BY <1>4 DEF HandEdits, LiteLLMRestarts
<1>5. CASE Sampler \/ Relays \/ Changes
  BY <1>5 DEF Sampler, Relays, Changes, Begin, Probes, Gpus, EnginesPolled, Publish, RelayAsks, RelayHears, RelayWrites,
              NvmlChanges, DockerChanges, PortChanges
<1>6. CASE MonitorRestarts \/ \E v \in Viewers : Views(v)
  BY <1>6 DEF MonitorRestarts, Restarted, Views, Cluster, Shows, PoolTakes, Says, Keeps
<1> QED BY <1>1, <1>2, <1>3, <1>4, <1>5, <1>6 DEF Next

LEMMA GateSafeStep ==
  ASSUME GateSafe, BudgetOK, StartingInv, [Next]_vars
  PROVE  GateSafe'
<1>1. AsksOK'
  <2>1. BudgetOK'
    BY BudgetStep
  <2> QED BY <2>1 DEF BudgetOK, AsksOK
<1>2. CASE UNCHANGED gateVars
  <2>1. recipe' \in Recipes \cup {None}
    <3>1. StartingInv'
      BY StartingStep
    <3> QED BY <3>1 DEF StartingInv
  <2>2. now' = now \/ (now' = now + 1 /\ \A r \in Requests : StandsStill(req[r]))
    BY NowMoves DEF Tick, AskedInTime, Is, StandsStill
  <2>3. /\ UNCHANGED <<req, live, known, lock, disk, term, config, names>>
        /\ config \in Configs /\ names \in [Engines -> SUBSET Models]
    BY <1>2 DEF gateVars, gate, files, GateSafe, GateInv, Typed
  <2> QED BY <1>1, <2>1, <2>2, <2>3, BesideSafe
<1> QED BY <1>1, <1>2, GateApart, HandlerSafe, AroundSafe, KeyCommandSafe

LEMMA GateSafeInitially ==
  ASSUME Init
  PROVE  GateSafe /\ BudgetOK
<1>1. budget \in Scenes /\ now = 0 /\ recipe = budget.recipe /\ GateInit
  BY DEF Init
<1>2. BudgetOK /\ AsksOK
  BY <1>1, ScenesAssumption DEF BudgetOK, AsksOK
<1> DEFINE i == CHOOSE x \in Inodes : TRUE
<1>3. i \in Inodes
  <2>1. Inodes # {}
    BY InputsAssumption, FS_EmptySet, FS_CardinalityType
  <2> QED BY <2>1
<1> HIDE DEF i
<1>4. /\ req = [r \in Requests |-> NoRequest] /\ live = [e \in Engines |-> None]
      /\ known = [rows |-> {}, stamp |-> None] /\ lock = None
      /\ config = budget.config /\ names = budget.names /\ term = [t \in Terminals |-> NoCommand]
      /\ disk = [keys |-> i, tmp |-> None, clock |-> 0,
                 data |-> [x \in Inodes |-> [rows |-> IF x = i THEN budget.keys ELSE {}, stamp |-> 0]]]
  BY <1>1 DEF GateInit, i
<1>5. NoCommand \in Terminal /\ NoCommand.pc = "idle"
  BY DEF NoCommand, Terminal
<1>6. budget.keys \in SUBSET Keys /\ budget.config \in Configs /\ budget.names \in [Engines -> SUBSET Models]
      /\ budget.recipe \in Recipes \cup {None}
  BY <1>1, ScenesAssumption
<1>7. disk \in [keys : Inodes, tmp : Inodes \cup {None}, clock : Nat, data : [Inodes -> FileData]]
  <2> DEFINE data == [x \in Inodes |-> [rows |-> IF x = i THEN budget.keys ELSE {}, stamp |-> 0]]
  <2>1. data \in [Inodes -> FileData]
    BY <1>6 DEF FileData
  <2>2. disk = [keys |-> i, tmp |-> None, clock |-> 0, data |-> data]
    BY <1>4
  <2> HIDE DEF data
  <2> QED BY <1>3, <2>1, <2>2
<1>8. Typed
  <2>1. live \in [Engines -> {None} \cup [at : Nat, ids : SUBSET Models, said : Nat]]
        /\ known \in [rows : SUBSET Keys, stamp : Nat \cup {None}]
    BY <1>4
  <2> QED BY <1>1, <1>4, <1>5, <1>6, <1>7, <2>1 DEF Typed
<1>9. Kepts
  BY <1>4 DEF Kepts
<1>10. NoRequest.pc = "idle" /\ NoRequest \in Request /\ RequestOK(NoRequest) /\ Fine(NoRequest)
  <2>1. NoRequest.pc = "idle"
    BY DEF NoRequest
  <2> QED BY <2>1, NoRequestTyped DEF Fine
<1>11. FilesOK
  BY <1>4, <1>5 DEF FilesOK, StampOf
<1>12. KnownOK /\ \A r \in Requests : LoadOK(r)
  BY <1>4, <1>10 DEF KnownOK, LoadOK
<1> QED BY <1>2, <1>4, <1>8, <1>9, <1>10, <1>11, <1>12 DEF GateSafe, GateInv, KeysInv

-----------------------------------------------------------------------------
(***************************************************************************)
(* The theorems about requests.                                            *)
(***************************************************************************)
\* The invariant above holds in every behaviour of the head: what the gate's
\* handlers, rack gate key, engines, clients and restarts do to requests,
\* files, keys and cache.
THEOREM RequestsInvariant == Spec => []GateSafe
<1>1. Init => GateSafe /\ BudgetOK
  BY GateSafeInitially
<1>2. GateSafe /\ BudgetOK /\ StartingInv /\ [Next]_vars => (GateSafe /\ BudgetOK)'
  BY GateSafeStep, BudgetStep
<1> QED BY <1>1, <1>2, StartingInvariant, PTL DEF Spec

\* No client is sent two answers, or an error after a stream has begun
\* (error(), send_json, do_POST), but for a count that is sent again to a
\* client that has left (count_tokens).
THEOREM OneAnswerIsSent == Spec => []OneAnswer
<1>1. GateSafe => OneAnswer
  BY DEF GateSafe, GateInv, Fine, RequestOK, AnswerOK, OneAnswer
<1> QED BY <1>1, RequestsInvariant, PTL

\* A request leaves a usage row just when it was sent to an engine and the disk
\* takes the row, and the row's status is what its client was told (the except
\* clauses of do_POST and its finally, Usage.record).
THEOREM UsageIsTold == Spec => []UsageTells
<1>1. GateSafe => UsageTells
  BY DEF GateSafe, GateInv, Fine, RequestOK, RowsOK, RowTells, Tells, UsageTells
<1> QED BY <1>1, RequestsInvariant, PTL

\* When GET /v1/models sends its list, the oldest answer in it was given less
\* than LiveEvery ago, and AskMax for each engine this list has had to ask
\* (listed, engine_models), also when an older answer has replaced a newer one.
THEOREM ListsAreRecent == Spec => []Recent
<1>1. GateSafe => Recent
  BY DEF GateSafe, GateInv, Fine, RequestOK, AgeOK, Slack, Recent
<1> QED BY <1>1, RequestsInvariant, PTL

\* Whoever is let in has a key that keys.json has held since the request came,
\* and whoever is refused one that it has not held throughout (Keys._load,
\* Keys.client), whatever rack gate key does meanwhile.
THEOREM KeysAreDecided == Spec => []KeysDecide
<1>1. GateSafe => KeysDecide
  BY DEF GateSafe, GateInv, Fine, RequestOK, Decided, KeysDecide
<1> QED BY <1>1, RequestsInvariant, PTL

-----------------------------------------------------------------------------
(***************************************************************************)
(* The types of the translators, and with them all the gate's.             *)
(***************************************************************************)
StreamFieldNames == {"index", "kind", "tools", "used", "finish", "phase", "begun", "ended", "open", "told", "reason", "holds", "orderly", "source"}
StreamTypes == [
  index |-> Nat \cup {-1},
  kind |-> Kinds \cup {Nothing},
  tools |-> [Tools -> Nat \cup {Nothing}],
  used |-> BOOLEAN,
  finish |-> Finishes \cup {Nothing},
  phase |-> {"none", "going", "over"},
  begun |-> Nat,
  ended |-> Nat,
  open |-> Nat \cup {Nothing},
  told |-> Nat \cup {Nothing},
  reason |-> {"end_turn", "max_tokens", "tool_use", "stop_sequence", Nothing},
  holds |-> SUBSET (Nat \X (Kinds \cup Tools)),
  orderly |-> BOOLEAN,
  source |-> Kinds \cup Tools \cup {Nothing}]

LEMMA StreamIs ==
  ASSUME NEW s
  PROVE  s \in StreamState <=>
           s = [f \in StreamFieldNames |-> s[f]] /\ \A f \in StreamFieldNames : s[f] \in StreamTypes[f]
BY DEF StreamState, StreamFieldNames, StreamTypes

LEMMA StreamExcept ==
  ASSUME NEW s \in StreamState, NEW f \in StreamFieldNames, NEW v \in StreamTypes[f]
  PROVE  [s EXCEPT ![f] = v] \in StreamState
BY StreamIs

LEMMA StreamFieldsTyped ==
  ASSUME NEW s \in StreamState
  PROVE  /\ DOMAIN s = DOMAIN NewStream
         /\ s.index \in Nat \cup {-1}
         /\ s.kind \in Kinds \cup {Nothing}
         /\ s.tools \in [Tools -> Nat \cup {Nothing}]
         /\ s.used \in BOOLEAN
         /\ s.finish \in Finishes \cup {Nothing}
         /\ s.phase \in {"none", "going", "over"}
         /\ s.begun \in Nat
         /\ s.ended \in Nat
         /\ s.open \in Nat \cup {Nothing}
         /\ s.told \in Nat \cup {Nothing}
         /\ s.reason \in {"end_turn", "max_tokens", "tool_use", "stop_sequence", Nothing}
         /\ s.holds \in SUBSET (Nat \X (Kinds \cup Tools))
         /\ s.orderly \in BOOLEAN
         /\ s.source \in Kinds \cup Tools \cup {Nothing}
<1>1. DOMAIN s = StreamFieldNames /\ \A f \in StreamFieldNames : s[f] \in StreamTypes[f]
  BY StreamIs
<1>2. DOMAIN NewStream = StreamFieldNames
  BY DEF NewStream, StreamFieldNames
<1> QED BY <1>1, <1>2 DEF StreamFieldNames, StreamTypes

LEMMA StreamWith ==
  ASSUME NEW s \in StreamState
  PROVE  /\ \A v \in Nat \cup {-1} : [s EXCEPT !.index = v] \in StreamState
         /\ \A v \in Kinds \cup {Nothing} : [s EXCEPT !.kind = v] \in StreamState
         /\ \A v \in [Tools -> Nat \cup {Nothing}] : [s EXCEPT !.tools = v] \in StreamState
         /\ \A v \in BOOLEAN : [s EXCEPT !.used = v] \in StreamState
         /\ \A v \in Finishes \cup {Nothing} : [s EXCEPT !.finish = v] \in StreamState
         /\ \A v \in {"none", "going", "over"} : [s EXCEPT !.phase = v] \in StreamState
         /\ \A v \in Nat : [s EXCEPT !.begun = v] \in StreamState
         /\ \A v \in Nat : [s EXCEPT !.ended = v] \in StreamState
         /\ \A v \in Nat \cup {Nothing} : [s EXCEPT !.open = v] \in StreamState
         /\ \A v \in Nat \cup {Nothing} : [s EXCEPT !.told = v] \in StreamState
         /\ \A v \in {"end_turn", "max_tokens", "tool_use", "stop_sequence", Nothing} : [s EXCEPT !.reason = v] \in StreamState
         /\ \A v \in SUBSET (Nat \X (Kinds \cup Tools)) : [s EXCEPT !.holds = v] \in StreamState
         /\ \A v \in BOOLEAN : [s EXCEPT !.orderly = v] \in StreamState
         /\ \A v \in Kinds \cup Tools \cup {Nothing} : [s EXCEPT !.source = v] \in StreamState
<1>1. ASSUME NEW v \in Nat \cup {-1} PROVE [s EXCEPT !.index = v] \in StreamState
  BY StreamExcept DEF StreamFieldNames, StreamTypes
<1>2. ASSUME NEW v \in Kinds \cup {Nothing} PROVE [s EXCEPT !.kind = v] \in StreamState
  BY StreamExcept DEF StreamFieldNames, StreamTypes
<1>3. ASSUME NEW v \in [Tools -> Nat \cup {Nothing}] PROVE [s EXCEPT !.tools = v] \in StreamState
  BY StreamExcept DEF StreamFieldNames, StreamTypes
<1>4. ASSUME NEW v \in BOOLEAN PROVE [s EXCEPT !.used = v] \in StreamState
  BY StreamExcept DEF StreamFieldNames, StreamTypes
<1>5. ASSUME NEW v \in Finishes \cup {Nothing} PROVE [s EXCEPT !.finish = v] \in StreamState
  BY StreamExcept DEF StreamFieldNames, StreamTypes
<1>6. ASSUME NEW v \in {"none", "going", "over"} PROVE [s EXCEPT !.phase = v] \in StreamState
  BY StreamExcept DEF StreamFieldNames, StreamTypes
<1>7. ASSUME NEW v \in Nat PROVE [s EXCEPT !.begun = v] \in StreamState
  BY StreamExcept DEF StreamFieldNames, StreamTypes
<1>8. ASSUME NEW v \in Nat PROVE [s EXCEPT !.ended = v] \in StreamState
  BY StreamExcept DEF StreamFieldNames, StreamTypes
<1>9. ASSUME NEW v \in Nat \cup {Nothing} PROVE [s EXCEPT !.open = v] \in StreamState
  BY StreamExcept DEF StreamFieldNames, StreamTypes
<1>10. ASSUME NEW v \in Nat \cup {Nothing} PROVE [s EXCEPT !.told = v] \in StreamState
  BY StreamExcept DEF StreamFieldNames, StreamTypes
<1>11. ASSUME NEW v \in {"end_turn", "max_tokens", "tool_use", "stop_sequence", Nothing} PROVE [s EXCEPT !.reason = v] \in StreamState
  BY StreamExcept DEF StreamFieldNames, StreamTypes
<1>12. ASSUME NEW v \in SUBSET (Nat \X (Kinds \cup Tools)) PROVE [s EXCEPT !.holds = v] \in StreamState
  BY StreamExcept DEF StreamFieldNames, StreamTypes
<1>13. ASSUME NEW v \in BOOLEAN PROVE [s EXCEPT !.orderly = v] \in StreamState
  BY StreamExcept DEF StreamFieldNames, StreamTypes
<1>14. ASSUME NEW v \in Kinds \cup Tools \cup {Nothing} PROVE [s EXCEPT !.source = v] \in StreamState
  BY StreamExcept DEF StreamFieldNames, StreamTypes
<1> QED BY <1>1, <1>2, <1>3, <1>4, <1>5, <1>6, <1>7, <1>8, <1>9, <1>10, <1>11, <1>12, <1>13, <1>14


LEMMA CloseTyped ==
  ASSUME NEW s \in StreamState
  PROVE  Close(s) \in StreamState /\ Close(s).index = s.index /\ Close(s).tools = s.tools
<1> DEFINE m == [s EXCEPT !.kind = Nothing]
           n == [m EXCEPT !.open = Nothing]
           c == [n EXCEPT !.ended = s.ended + 1]
<1>0. DOMAIN s = DOMAIN NewStream /\ s.ended \in Nat
  BY StreamFieldsTyped
<1>1. Close(s) = IF s.kind = Nothing THEN s ELSE c
  BY <1>0 DEF Close, NewStream
<1>2. m \in StreamState
  <2>1. \A v \in Kinds \cup {Nothing} : [s EXCEPT !.kind = v] \in StreamState
    BY StreamWith
  <2> QED BY <2>1
<1>3. n \in StreamState
  <2> HIDE DEF m
  <2>1. \A v \in Nat \cup {Nothing} : [m EXCEPT !.open = v] \in StreamState
    BY <1>2, StreamWith
  <2> QED BY <2>1
<1>4. c \in StreamState
  <2> HIDE DEF n
  <2>1. \A v \in Nat : [n EXCEPT !.ended = v] \in StreamState
    BY <1>3, StreamWith
  <2> QED BY <1>0, <2>1
<1>5. c.index = s.index /\ c.tools = s.tools
  BY <1>0 DEF NewStream
<1> HIDE DEF c
<1> QED BY <1>1, <1>4, <1>5

LEMMA OpenTyped ==
  ASSUME NEW s \in StreamState, NEW kind \in Kinds
  PROVE  Open(s, kind) \in StreamState /\ Open(s, kind).index \in Nat /\ Open(s, kind).tools = s.tools
<1> DEFINE c == Close(s)
           n1 == [c EXCEPT !.index = c.index + 1]
           n2 == [n1 EXCEPT !.kind = kind]
           n3 == [n2 EXCEPT !.begun = c.begun + 1]
           n == [n3 EXCEPT !.open = c.index + 1]
<1>1. c \in StreamState /\ c.index = s.index /\ c.tools = s.tools
  BY CloseTyped
<1>2. DOMAIN c = DOMAIN NewStream /\ c.index + 1 \in Nat /\ c.begun + 1 \in Nat
  <2> HIDE DEF c
  <2>1. DOMAIN c = DOMAIN NewStream /\ c.index \in Nat \cup {-1} /\ c.begun \in Nat
    BY <1>1, StreamFieldsTyped
  <2> QED BY <2>1
<1>3. n = Open(s, kind)
  BY <1>2 DEF Open, NewStream
<1> HIDE DEF c
<1>4. n1 \in StreamState
  <2>1. \A v \in Nat \cup {-1} : [c EXCEPT !.index = v] \in StreamState
    BY <1>1, StreamWith
  <2> QED BY <1>2, <2>1
<1>5. n2 \in StreamState
  <2> HIDE DEF n1
  <2>1. \A v \in Kinds \cup {Nothing} : [n1 EXCEPT !.kind = v] \in StreamState
    BY <1>4, StreamWith
  <2> QED BY <2>1
<1>6. n3 \in StreamState
  <2> HIDE DEF n2
  <2>1. \A v \in Nat : [n2 EXCEPT !.begun = v] \in StreamState
    BY <1>5, StreamWith
  <2> QED BY <1>2, <2>1
<1>7. n \in StreamState
  <2> HIDE DEF n3
  <2>1. \A v \in Nat \cup {Nothing} : [n3 EXCEPT !.open = v] \in StreamState
    BY <1>6, StreamWith
  <2> QED BY <1>2, <2>1
<1>8. n.index = c.index + 1 /\ n.tools = c.tools
  BY <1>2 DEF NewStream
<1> HIDE DEF n
<1> QED BY <1>1, <1>2, <1>3, <1>7, <1>8

LEMMA DeltaTyped ==
  ASSUME NEW s \in StreamState, NEW block \in Nat, NEW source \in Kinds \cup Tools
  PROVE  Delta(s, block, source) \in StreamState
<1> DEFINE held == s.holds \cup {<<block, source>>}
           m == [s EXCEPT !.told = block]
           n == [m EXCEPT !.holds = held]
<1>1. DOMAIN s = DOMAIN NewStream /\ held \in SUBSET (Nat \X (Kinds \cup Tools))
  <2>1. DOMAIN s = DOMAIN NewStream /\ s.holds \in SUBSET (Nat \X (Kinds \cup Tools))
    BY StreamFieldsTyped
  <2> QED BY <2>1
<1>2. n = Delta(s, block, source)
  BY <1>1 DEF Delta, NewStream
<1> HIDE DEF held
<1>3. m \in StreamState
  <2>1. \A v \in Nat \cup {Nothing} : [s EXCEPT !.told = v] \in StreamState
    BY StreamWith
  <2> QED BY <2>1
<1>4. n \in StreamState
  <2> HIDE DEF m
  <2>1. \A v \in SUBSET (Nat \X (Kinds \cup Tools)) : [m EXCEPT !.holds = v] \in StreamState
    BY <1>3, StreamWith
  <2> QED BY <1>1, <2>1
<1> QED BY <1>2, <1>4

LEMMA StartTyped ==
  ASSUME NEW s \in StreamState
  PROVE  /\ Start(s) \in StreamState /\ Start(s).index = s.index /\ Start(s).tools = s.tools
         /\ Start(s).kind = s.kind
<1>1. DOMAIN s = DOMAIN NewStream
  BY StreamFieldsTyped
<1>2. [s EXCEPT !.phase = "going"] \in StreamState
  BY StreamWith
<1> QED BY <1>1, <1>2 DEF Start, NewStream

\* What is said, and by which part of a chunk.
LEMMA SaidTyped ==
  ASSUME NEW s \in StreamState, NEW src \in Kinds \cup Tools, NEW orderly \in BOOLEAN
  PROVE  /\ SaidTo(s, src, orderly) \in StreamState /\ SaidTo(s, src, orderly).index = s.index
         /\ SaidTo(s, src, orderly).tools = s.tools /\ SaidTo(s, src, orderly).kind = s.kind
<1> DEFINE b == Start(s)
           m == [b EXCEPT !.source = src]
           n == [m EXCEPT !.orderly = orderly]
<1>1. b \in StreamState /\ b.index = s.index /\ b.tools = s.tools /\ b.kind = s.kind
  BY StartTyped
<1> HIDE DEF b
<1>2. DOMAIN b = DOMAIN NewStream
  BY <1>1, StreamFieldsTyped
<1>3. n = SaidTo(s, src, orderly)
  BY <1>2 DEF SaidTo, NewStream, b
<1>4. m \in StreamState
  <2>1. \A v \in Kinds \cup Tools \cup {Nothing} : [b EXCEPT !.source = v] \in StreamState
    BY <1>1, StreamWith
  <2> QED BY <2>1
<1>5. n \in StreamState
  <2> HIDE DEF m
  <2>1. \A v \in BOOLEAN : [m EXCEPT !.orderly = v] \in StreamState
    BY <1>4, StreamWith
  <2> QED BY <2>1
<1>6. n.index = b.index /\ n.tools = b.tools /\ n.kind = b.kind
  BY <1>2 DEF NewStream
<1> HIDE DEF n
<1> QED BY <1>1, <1>3, <1>5, <1>6

LEMMA SayTyped ==
  ASSUME NEW m \in StreamState, NEW kind \in Kinds, m.kind = kind => m.index \in Nat
  PROVE  Say(m, kind) \in StreamState
<1> DEFINE o == IF m.kind = kind THEN m ELSE Open(m, kind)
<1>1. o \in StreamState /\ o.index \in Nat
  BY OpenTyped
<1>2. Say(m, kind) = Delta(o, o.index, kind)
  BY DEF Say
<1> HIDE DEF o
<1> QED BY <1>1, <1>2, DeltaTyped

LEMMA CallTyped ==
  ASSUME NEW m \in StreamState, NEW i \in Tools, NEW args \in BOOLEAN
  PROVE  Call(m, i, args) \in StreamState
<1> DEFINE b == Open(m, "tool_use")
           u == [b EXCEPT !.used = TRUE]
           n == [u EXCEPT !.tools = [u.tools EXCEPT ![i] = b.index]]
           o == IF m.tools[i] = Nothing THEN n ELSE m
<1>1. b \in StreamState /\ b.index \in Nat /\ DOMAIN b = DOMAIN NewStream /\ b.tools \in [Tools -> Nat \cup {Nothing}]
  <2>1. b \in StreamState /\ b.index \in Nat
    BY OpenTyped DEF Kinds
  <2> QED BY <2>1, StreamFieldsTyped
<1>2. Call(m, i, args) = IF args THEN Delta(o, o.tools[i], i) ELSE o
  <2>1. n = [b EXCEPT !.used = TRUE, !.tools[i] = b.index]
    BY <1>1 DEF NewStream
  <2> HIDE DEF b, n
  <2> QED BY <2>1 DEF Call, b
<1> HIDE DEF b
<1>3. u \in StreamState /\ u.tools = b.tools
  <2>1. \A v \in BOOLEAN : [b EXCEPT !.used = v] \in StreamState
    BY <1>1, StreamWith
  <2> QED BY <1>1, <2>1 DEF NewStream
<1>4. n \in StreamState /\ n.tools[i] = b.index
  <2>1. [u.tools EXCEPT ![i] = b.index] \in [Tools -> Nat \cup {Nothing}] /\ [u.tools EXCEPT ![i] = b.index][i] = b.index
    BY <1>1, <1>3
  <2>2. DOMAIN u = DOMAIN NewStream
    BY <1>3, StreamFieldsTyped
  <2> HIDE DEF u
  <2>3. \A v \in [Tools -> Nat \cup {Nothing}] : [u EXCEPT !.tools = v] \in StreamState
    BY <1>3, StreamWith
  <2>4. n.tools = [u.tools EXCEPT ![i] = b.index]
    BY <2>2 DEF NewStream
  <2> QED BY <2>1, <2>3, <2>4
<1>5. o \in StreamState /\ o.tools[i] \in Nat
  <2>1. m.tools \in [Tools -> Nat \cup {Nothing}]
    BY StreamFieldsTyped
  <2> HIDE DEF n
  <2> QED BY <1>1, <1>4, <2>1
<1> HIDE DEF o
<1> QED BY <1>2, <1>5, DeltaTyped

LEMMA FeedTyped ==
  ASSUME NEW s \in StreamState, StreamOK(s), NEW p \in Parts
  PROVE  Feed(s, p) \in StreamState
<1> DEFINE b == Start(s)
           back(src) == src \in Tools /\ b.source # src /\ b.tools[src] # Nothing
           orderly(src) == b.orderly /\ ~back(src)
<1>1. b \in StreamState
  BY StartTyped
<1>2. s.kind # Nothing => s.index \in Nat
  BY DEF StreamOK, OpenOK
<1>3. b.orderly \in BOOLEAN
  BY <1>1, StreamFieldsTyped
<1>4. CASE p.is \in {"thinking", "text"}
  <2> DEFINE m == SaidTo(s, p.is, orderly(p.is))
  <2>1. Feed(s, p) = Say(m, p.is)
    BY <1>4 DEF Feed, SaidTo
  <2>2. p.is \in Kinds /\ orderly(p.is) \in BOOLEAN
    BY <1>3, <1>4 DEF Kinds
  <2> HIDE DEF orderly
  <2>3. m \in StreamState /\ m.index = s.index /\ m.kind = s.kind
    BY <2>2, SaidTyped
  <2> HIDE DEF m
  <2>4. m.kind = p.is => m.index \in Nat
    BY <1>2, <2>2, <2>3, NothingApart
  <2> QED BY <2>1, <2>2, <2>3, <2>4, SayTyped
<1>5. CASE p.is = "tool"
  <2> DEFINE m == SaidTo(s, p.tool, orderly(p.tool))
  <2>1. Feed(s, p) = Call(m, p.tool, p.args)
    BY <1>5 DEF Feed, SaidTo
  <2>2. p.tool \in Tools /\ p.args \in BOOLEAN /\ orderly(p.tool) \in BOOLEAN
    BY <1>3, <1>5 DEF Parts
  <2> HIDE DEF orderly
  <2>3. m \in StreamState
    BY <2>2, SaidTyped
  <2> HIDE DEF m
  <2> QED BY <2>1, <2>2, <2>3, CallTyped
<1>6. CASE p.is = "finish"
  <2>1. Feed(s, p) = [b EXCEPT !.finish = p.why] /\ p.why \in Finishes
    BY <1>6 DEF Feed, Parts
  <2> HIDE DEF b
  <2>2. \A v \in Finishes \cup {Nothing} : [b EXCEPT !.finish = v] \in StreamState
    BY <1>1, StreamWith
  <2> QED BY <2>1, <2>2
<1>7. CASE p.is = "empty"
  <2>1. Feed(s, p) = b
    BY <1>7 DEF Feed
  <2> QED BY <1>1, <2>1
<1> QED BY <1>4, <1>5, <1>6, <1>7 DEF Parts

LEMMA EndTyped ==
  ASSUME NEW s \in StreamState
  PROVE  End(s) \in StreamState
<1> DEFINE c == Close(Start(s))
           m == [c EXCEPT !.phase = "over"]
           n == [m EXCEPT !.reason = StopReason(s)]
<1>1. c \in StreamState
  BY StartTyped, CloseTyped
<1>2. StopReason(s) \in {"end_turn", "max_tokens", "tool_use", "stop_sequence", Nothing}
  BY DEF StopReason
<1> HIDE DEF c
<1>3. n = End(s)
  <2>1. DOMAIN c = DOMAIN NewStream
    BY <1>1, StreamFieldsTyped
  <2> QED BY <2>1 DEF End, NewStream, c
<1>4. m \in StreamState
  BY <1>1, StreamWith
<1>5. n \in StreamState
  <2> HIDE DEF m
  <2>1. \A v \in {"end_turn", "max_tokens", "tool_use", "stop_sequence", Nothing} : [m EXCEPT !.reason = v] \in StreamState
    BY <1>4, StreamWith
  <2> QED BY <1>2, <2>1
<1> QED BY <1>3, <1>5

LEMMA NewStreamTyped == NewStream \in StreamState
<1>1. NewStream = [f \in StreamFieldNames |-> NewStream[f]]
  BY DEF NewStream, StreamFieldNames
<1>2. ASSUME NEW f \in StreamFieldNames PROVE NewStream[f] \in StreamTypes[f]
  <2>1. /\ NewStream["index"] = -1 /\ NewStream["kind"] = Nothing /\ NewStream["tools"] = [i \in Tools |-> Nothing]
        /\ NewStream["used"] = FALSE /\ NewStream["finish"] = Nothing /\ NewStream["phase"] = "none"
        /\ NewStream["begun"] = 0 /\ NewStream["ended"] = 0 /\ NewStream["open"] = Nothing
        /\ NewStream["told"] = Nothing /\ NewStream["reason"] = Nothing /\ NewStream["holds"] = {}
        /\ NewStream["orderly"] = TRUE /\ NewStream["source"] = Nothing
    BY DEF NewStream
  <2>2. /\ StreamTypes["index"] = Nat \cup {-1}
        /\ StreamTypes["kind"] = Kinds \cup {Nothing}
        /\ StreamTypes["tools"] = [Tools -> Nat \cup {Nothing}]
        /\ StreamTypes["used"] = BOOLEAN
        /\ StreamTypes["finish"] = Finishes \cup {Nothing}
        /\ StreamTypes["phase"] = {"none", "going", "over"}
        /\ StreamTypes["begun"] = Nat
        /\ StreamTypes["ended"] = Nat
        /\ StreamTypes["open"] = Nat \cup {Nothing}
        /\ StreamTypes["told"] = Nat \cup {Nothing}
        /\ StreamTypes["reason"] = {"end_turn", "max_tokens", "tool_use", "stop_sequence", Nothing}
        /\ StreamTypes["holds"] = SUBSET (Nat \X (Kinds \cup Tools))
        /\ StreamTypes["orderly"] = BOOLEAN
        /\ StreamTypes["source"] = Kinds \cup Tools \cup {Nothing}
    BY DEF StreamTypes
  <2>3. [i \in Tools |-> Nothing] \in [Tools -> Nat \cup {Nothing}] /\ {} \in SUBSET (Nat \X (Kinds \cup Tools)) /\ 0 \in Nat
    OBVIOUS
  <2>4. /\ NewStream["index"] \in StreamTypes["index"]
        /\ NewStream["kind"] \in StreamTypes["kind"]
        /\ NewStream["tools"] \in StreamTypes["tools"]
        /\ NewStream["used"] \in StreamTypes["used"]
        /\ NewStream["finish"] \in StreamTypes["finish"]
        /\ NewStream["phase"] \in StreamTypes["phase"]
        /\ NewStream["begun"] \in StreamTypes["begun"]
        /\ NewStream["ended"] \in StreamTypes["ended"]
        /\ NewStream["open"] \in StreamTypes["open"]
        /\ NewStream["told"] \in StreamTypes["told"]
        /\ NewStream["reason"] \in StreamTypes["reason"]
        /\ NewStream["holds"] \in StreamTypes["holds"]
        /\ NewStream["orderly"] \in StreamTypes["orderly"]
        /\ NewStream["source"] \in StreamTypes["source"]
    BY <2>1, <2>2, <2>3
  <2> QED BY <2>4 DEF StreamFieldNames
<1> QED BY <1>1, <1>2, StreamIs

StreamsTyped == st \in [Requests -> StreamState]

LEMMA StreamsTypedStep ==
  ASSUME StreamsInv, StreamsTyped, [Next]_vars
  PROVE  StreamsTyped'
<1>1. CASE UNCHANGED gateVars
  BY <1>1 DEF gateVars, StreamsTyped
<1>2. CASE Around \/ \E t \in Terminals : KeyCommand(t)
  BY <1>2, TheRestStays DEF Stays, StreamsTyped
<1>3. ASSUME NEW r \in Requests, Handler(r) PROVE StreamsTyped'
  <2>1. Moves(r)
    BY <1>3, HandlerMoves
  <2>2. st[r] \in StreamState /\ StreamOK(st[r])
    BY DEF StreamsInv, StreamsTyped
  <2>3. st'[r] \in StreamState
    BY <2>1, <2>2, FeedTyped, EndTyped DEF Moves
  <2>4. st' = [u \in Requests |-> st'[u]]
    <3>1. CASE st' = st
      BY <3>1 DEF StreamsTyped
    <3>2. CASE st' # st
      BY <1>3, <3>2 DEF Handler, Arrive, Stat, Load, Resolve, Upstream, Reply, StreamEnds, StreamBreaks, CountTokens,
                Chunk, Routes, Kept, Asked, Store, Listed, StreamsTyped
    <3> QED BY <3>1, <3>2
  <2>5. ASSUME NEW u \in Requests PROVE st'[u] \in StreamState
    <3>1. u = r \/ st'[u] = st[u]
      BY <2>1 DEF Moves
    <3> QED BY <2>3, <3>1 DEF StreamsTyped
  <2> QED BY <2>4, <2>5 DEF StreamsTyped
<1> QED BY <1>1, <1>2, <1>3, GateApart

\* Requests, translators, cache, keys, files and key commands have their types.
THEOREM GateTyped == Spec => []GateTypeOK
<1>1. Init => StreamsTyped
  BY NewStreamTyped DEF Init, GateInit, StreamsTyped
<1>2. StreamsInv /\ StreamsTyped /\ [Next]_vars => StreamsTyped'
  BY StreamsTypedStep
<1>3. GateSafe /\ StreamsTyped => GateTypeOK
  BY DEF GateSafe, GateInv, Typed, StreamsTyped, GateTypeOK
<1> QED BY <1>1, <1>2, <1>3, StreamsInvariant, RequestsInvariant, PTL DEF Spec
=============================================================================
