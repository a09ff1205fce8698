------------------------------ MODULE Delivery ------------------------------
(***************************************************************************)
(* What `dfnet stream` promises about a `.raw` file (stream.rs, lines 6 to *)
(* 10): it appears at once, holds what a sender declared complete, and     *)
(* nothing replaces or changes it.                                         *)
(***************************************************************************)
EXTENDS Naturals, Sequences

CONSTANTS Name, Content, Sha256(_)

VARIABLES
  declared,  \* per file: the counts and hashes of senders' END records
  raw        \* per file: what it may hold after a power loss; {} is no file

Init == declared = [f \in Name |-> {}] /\ raw = [f \in Name |-> {}]

Mark(c) == [bytes |-> Len(c), sha256 |-> Sha256(c)]

Declare(f) ==
  /\ \E c \in Content : declared' = [declared EXCEPT ![f] = @ \cup {Mark(c)}]
  /\ UNCHANGED raw

Publish(f) ==
  /\ raw[f] = {}
  /\ \E c \in Content :
       /\ Mark(c) \in declared[f]
       /\ raw' = [raw EXCEPT ![f] = {c}]
  /\ UNCHANGED declared

Next == \E f \in Name : Declare(f) \/ Publish(f)

Spec == Init /\ [][Next]_<<declared, raw>>
=============================================================================
