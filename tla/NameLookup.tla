----------------------------- MODULE NameLookup -----------------------------
(***************************************************************************)
(* What the symbol resolver promises for one identifier: when the question *)
(* has been put, it is answered once, in one step, by what the identifier  *)
(* means in the finished symbol table, and it is answered in the end.      *)
(***************************************************************************)
CONSTANTS NoQuestion, NoAnswer

VARIABLES
  question,  \* the identifier asked about, NoQuestion before
  meaning,   \* what it means in the table as it is
  answer     \* the answer given, NoAnswer before

Init == question = NoQuestion /\ answer = NoAnswer

Ask ==
  /\ question = NoQuestion
  /\ question' # NoQuestion
  /\ UNCHANGED answer

Answer ==
  /\ question # NoQuestion
  /\ answer = NoAnswer
  /\ answer' = meaning
  /\ UNCHANGED question

Next == Ask \/ Answer

Safety == Init /\ [][Next]_<<question, answer>>

Spec == Safety /\ ((question # NoQuestion) ~> (answer # NoAnswer))
=============================================================================
