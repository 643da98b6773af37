------------------------------ MODULE Message ------------------------------
(***************************************************************************)
(* What the client of a streamed answer in the Messages API counts on      *)
(* (gate/rackgate.py translates an engine's stream into one): the answer   *)
(* starts once and is over once; its content blocks begin in the order of  *)
(* their index, one at a time, each ended before the next one begins and   *)
(* before the answer is over; and what is said goes to the block that is   *)
(* open, as long as the engine itself says one thing after the other.      *)
(***************************************************************************)
EXTENDS Integers

CONSTANT None   \* no block

VARIABLES
  phase,    \* "none", "going", "over"
  begun,    \* content blocks begun: the next one's index
  ended,    \* the content_block_stops sent
  open,     \* the block that is open, or None
  told,     \* the block the last content_block_delta went to, or None
  orderly   \* the engine has not come back to a tool call it had left

messageVars == <<phase, begun, ended, open, told, orderly>>

MessageInit ==
  /\ phase = "none"
  /\ begun = 0 /\ ended = 0
  /\ open = None /\ told = None
  /\ orderly

\* The answer is still in the block that is open, or it begins the next one,
\* and the block before is ended first.
SameBlock == UNCHANGED <<begun, ended, open>>

NextBlock ==
  /\ begun' = begun + 1
  /\ open' = begun
  /\ ended' = IF open = None THEN ended ELSE ended + 1

Speak ==
  /\ phase # "over"
  /\ phase' = "going"
  /\ SameBlock \/ NextBlock
  /\ told' # told => told' \in 0..(begun' - 1)
  /\ orderly' => orderly /\ (told' = told \/ told' = open')

Finish ==
  /\ phase # "over"
  /\ phase' = "over"
  /\ open' = None
  /\ ended' = IF open = None THEN ended ELSE ended + 1
  /\ UNCHANGED <<begun, told, orderly>>

MessageNext == Speak \/ Finish
MessageSpec == MessageInit /\ [][MessageNext]_messageVars
=============================================================================
